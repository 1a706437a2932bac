SPECIFICATION FairSpec
CONSTANTS
  Call = {p1, p2}
  Watcher = {w1, w2}
  Host = {h1}
  None = None
  MaxRetry = 1
  MaxTunnel = 2
  MaxCall = 3
  MaxFault = 1
INVARIANTS
  Supervised
PROPERTIES
  OneClickServes
  DeleteLeavesNothing
  StopSticks
CHECK_DEADLOCK FALSE
