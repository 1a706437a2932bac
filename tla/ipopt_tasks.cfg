SPECIFICATION TaskFairSpec
CONSTANTS
  MaxTask = 2
  MaxEnd = 1
  Word = {"latency", "download", "result"}
  Bar = {50, 100}
  None = None
INVARIANTS
  TasksAreTrue
PROPERTIES
  TasksEnd
CHECK_DEADLOCK FALSE
