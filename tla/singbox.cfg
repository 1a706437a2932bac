SPECIFICATION FairSpec
CONSTANTS
  Proc = {p1, p2, p3}
  Worker = {w1, w2}
  None = None
  MaxRestarts = 1
  MaxExit = 2
  MaxCommand = 2
  MaxBoot = 2
  MaxStartFail = 1
INVARIANTS
  RunningIsWatched
  SingleUntilCommand
PROPERTIES
  Recovers
CHECK_DEADLOCK FALSE
