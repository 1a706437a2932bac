SPECIFICATION FairSpec
CONSTANTS
  Bad = {2, 3}
  None = None
  MaxCrashCount = 3
  MaxVersion = 4
  MaxCrash = 4
  MaxIOFail = 2
INVARIANTS
  FallbackExists
PROPERTIES
  NeverReinstalled
  Reconnects
  KeepsPromise
CHECK_DEADLOCK FALSE
