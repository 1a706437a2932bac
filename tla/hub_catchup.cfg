SPECIFICATION FairSpec
CONSTANTS
  Node = {n1}
  Conn = {c1}
  Dir = {rx}
  None = None
  MaxSingleDelta = 1
  MaxMoved = 1
  MaxBoot = 1
  MaxReset = 1
  MaxCrash = 0
  MaxSaveFail = 1
  MaxLoadFail = 1
  MaxEdit = 1
INVARIANTS
  CleanMatchesRow
PROPERTIES
  StaleWriteHeals
  RowCatchesUp
CHECK_DEADLOCK FALSE
