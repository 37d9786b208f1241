\* One client walks the list while three accounts come and go.
SPECIFICATION ListSpec
CONSTANTS
  u1 = u1  u2 = u2  u3 = u3
  User = {u1, u2, u3}
  a = a  b = b  c = c
  Username = {a, b, c}
  p = p
  Password = {p}
  BalanceColumn = {0}
  Reserved = {}
  NoRow = NoRow
  Half = 4
  MaxStamp = 3
  MaxSize = 2
SYMMETRY Symmetry
INVARIANTS TypeOK SkipsOnlyByDeletion RepeatsOnlyByCreation PageZeroRefused
