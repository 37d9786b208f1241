\* The rows and the table as the program makes them.
SPECIFICATION CalmSpec
CONSTANTS
  h1 = h1  h2 = h2
  Handler = {h1}
  u1 = u1  u2 = u2  u3 = u3
  User = {u1, u2, u3}
  i1 = i1  i2 = i2  i3 = i3
  a = a  b = b  c = c
  Username = {a, b, c}
  p = p
  Password = {p}
  MaxConns = 2
  MaxBalance = 4
  FloatExact = 4
  NoRow = NoRow
  Owner <- MCOwner
  Opening <- MCOpening
  Layouts <- ProgramLayouts
  Amounts = {2}
  NewBalances = {0}
  MaxEdits = 0
  None = None
  Malformed = Malformed
CHECK_DEADLOCK FALSE
PROPERTY ChecksPassedMeansRecorded
