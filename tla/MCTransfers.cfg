\* Two transfers overlap, in opposite directions too, with an update or a deletion.
SPECIFICATION FairSpec
CONSTANTS
  h1 = h1  h2 = h2
  Handler = {h1, h2}
  u1 = u1  u2 = u2  u3 = u3
  User = {u1, u2, u3}
  i1 = i1  i2 = i2  i3 = i3
  a = a  b = b  c = c
  Username = {a, b, c}
  p = p
  Password = {p}
  MaxConns = 2
  MaxBalance = 4
  FloatExact = 4
  NoRow = NoRow
  Owner <- MCOwner
  Opening <- MCOpening
  Layouts <- AllLayouts
  Amounts = {3}
  NewBalances <- DebtOrFunds
  MaxEdits = 1
  None = None
  Malformed = Malformed
CHECK_DEADLOCK FALSE
INVARIANTS TypeOK EventsBacked NeverStuck ReadyGoesOn
PROPERTIES NeverOverdraws BothLegs FreshTransfersExact EveryTransferAnswered ImplementsBank
