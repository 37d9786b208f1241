\* Two requests wait for each other on a row or on a username.
SPECIFICATION FairSpec
CONSTANTS
  h1 = h1  h2 = h2
  Handler = {h1, h2}
  alice = alice  u1 = u1  u2 = u2
  User = {u1, u2}
  a = a
  Username = {a}
  p = p
  Password = {p}
  MaxConns = 2
  MaxBalance = 0
  FloatExact = 0
  NoRow = NoRow
  Amounts = {0}
  Settled = {0}
  Seed = {}
  SeedRow <- MCNoSeedRow
  None = None
  Malformed = Malformed
INVARIANTS NeverStuck ReadyGoesOn
PROPERTY EveryRequestAnswered
