\* A transfer beside a message that can never be processed one no handler is for and a failure.
SPECIFICATION FairSpec
CONSTANTS
  t1 = t1  x = x  y = y  z = z
  Message = {t1, x, y, z}
  Kind <- MCKind
  MaxAttempts = 3
  MaxFaults = 3
  None = None
CHECK_DEADLOCK FALSE
INVARIANTS TypeOK EntriesPaired EntriesAccounted NothingStranded
PROPERTIES OnlyRestartLoses EventuallyEntered ImplementsBookkeeping
