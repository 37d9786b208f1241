\* Startup, serving and shutdown with two signals; the process ends.
SPECIFICATION FairSpec
CONSTANTS
  r1 = r1
  r2 = r2
  h1 = h1
  Request <- MCRequest
  Via <- MCVia
  ConnAttempts = 3
  MaxRetries = 2
  MaxSignals = 2
CHECK_DEADLOCK FALSE
INVARIANTS TypeOK ClientsOutliveRequests OnlyOverrunCuts
PROPERTIES SignalEnds FailureEnds StartupEnds
