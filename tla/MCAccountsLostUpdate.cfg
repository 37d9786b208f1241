\* A rename and a change of balance of the same account overlap.
SPECIFICATION Spec
CONSTANTS
  h1 = h1  h2 = h2
  Handler = {h1, h2}
  alice = alice  u1 = u1
  User = {u1}
  a = a  b = b
  Username = {a, b}
  p = p
  Password = {p}
  MaxConns = 2
  MaxBalance = 1
  FloatExact = 1
  NoRow = NoRow
  Amounts = {0, 1}
  Settled = {}
  Seed = {}
  SeedRow <- MCNoSeedRow
  None = None
  Malformed = Malformed
PROPERTY OmittedFieldsKept
