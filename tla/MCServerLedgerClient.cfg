\* The MongoDB client of the registered ledger handler.
SPECIFICATION Spec
CONSTANTS
  r1 = r1
  r2 = r2
  h1 = h1
  Request <- MCRequest
  Via <- MCVia
  ConnAttempts = 3
  MaxRetries = 2
  MaxSignals = 2
CHECK_DEADLOCK FALSE
INVARIANT LedgerClientOpen
