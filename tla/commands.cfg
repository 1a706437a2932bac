SPECIFICATION FairSpec
CONSTANTS
  Cmd = {u1, c2}
  Update = {u1}
  Stream = {s1}
  Viewer = {v1}
  Version = {1, 2}
  None = None
  Steps = 1
  QueueCap = 1
  PerConn = 2
  StreamCap = 1
  MaxConn = 2
  MaxEvent = 1
  MaxPage = 1
INVARIANTS
  DeletedIsGone
PROPERTIES
  ShowsTheLog
  StreamEnds
  Answered
CHECK_DEADLOCK FALSE
