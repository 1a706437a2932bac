SPECIFICATION DailyFairSpec
CONSTANTS
  Worker = {w1, w2}
  MaxRelease = 1
  MaxFault = 1
  MaxManual = 1
  MaxRetries = 2
  Nothing = Nothing
INVARIANTS
  RecordIsTrue
PROPERTIES
  FailureKeepsFile
  CatchesUp
CHECK_DEADLOCK FALSE
