SPECIFICATION FairSpec
CONSTANTS
  Call = {p1, p2}
  Worker = {w1, w2}
  None = None
  Proto = {ws}
  QueueCap = 2
  MaxTunnel = 2
  MaxCall = 3
  MaxFault = 1
INVARIANTS
  TokenMatches
  NothingLeaks
PROPERTIES
  CleanupRepairs
  ServiceFollows
CHECK_DEADLOCK FALSE
