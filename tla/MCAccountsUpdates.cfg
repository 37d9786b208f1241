\* Updates of one account against each other and against its deletion.
SPECIFICATION Spec
CONSTANTS
  h1 = h1  h2 = h2
  Handler = {h1, h2}
  alice = alice  u1 = u1
  User = {u1}
  a = a  b = b
  Username = {a, b}
  p = p  q = q
  Password = {p, q}
  MaxConns = 2
  MaxBalance = 4
  FloatExact = 2
  NoRow = NoRow
  Amounts = {1, 6}
  Settled = {3}
  Seed = {}
  SeedRow <- MCNoSeedRow
  None = None
  Malformed = Malformed
SYMMETRY Symmetry
PROPERTIES RequestsWhole FreshUpdatesExact PasswordsKept RepliesWithCommitted
