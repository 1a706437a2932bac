SPECIFICATION FairSpec
CONSTANTS
  MaxTask = 1
  MaxEnd = 1
  Word = {}
  Bar = {}
  None = None
  Request = {r1}
  Entry = {e1}
  Scheduler = {g1, g2}
  Interval = {0, 1}
  MaxRequest = 4
  MaxAge = 2
INVARIANTS
  ScheduleIsTrue
  DefaultExists
PROPERTIES
  ScheduleWorks
CHECK_DEADLOCK FALSE
