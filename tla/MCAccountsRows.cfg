\* Creates, renames and deletes of two users beside the migration's alice.
SPECIFICATION Spec
CONSTANTS
  h1 = h1  h2 = h2
  Handler = {h1, h2}
  alice = alice  u1 = u1  u2 = u2
  User = {alice, u1, u2}
  a = a  b = b  c = c
  Username = {a, b, c}
  p = p
  Password = {p}
  MaxConns = 2
  MaxBalance = 0
  FloatExact = 0
  NoRow = NoRow
  Amounts = {0}
  Settled = {0}
  Seed = {alice}
  SeedRow <- MCSeedRow
  None = None
  Malformed = Malformed
SYMMETRY Symmetry
INVARIANTS TypeOK RowsPaired UsernamesUnique NoLeakedTx OkMeansDurable
PROPERTIES DeletedForever ImplementsRegistry
