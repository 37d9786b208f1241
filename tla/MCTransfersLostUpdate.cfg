\* Two transfers of whole units overlap, and nothing fails.
SPECIFICATION CalmSpec
CONSTANTS
  h1 = h1  h2 = h2
  Handler = {h1, h2}
  u1 = u1  u2 = u2  u3 = u3
  User = {u1, u2, u3}
  i1 = i1  i2 = i2  i3 = i3
  a = a  b = b  c = c
  Username = {a, b, c}
  p = p
  Password = {p}
  MaxConns = 2
  MaxBalance = 4
  FloatExact = 4
  NoRow = NoRow
  Owner <- MCOwner
  Opening <- MCOpening
  Layouts <- FittingLayouts
  Amounts = {2}
  NewBalances = {0}
  MaxEdits = 0
  None = None
  Malformed = Malformed
CHECK_DEADLOCK FALSE
INVARIANT MoneyConserved
