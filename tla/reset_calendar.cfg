SPECIFICATION Spec
CONSTANTS
  MonthEnd <- ShortMonths
  MaxDay = 5
  DefaultInterval = 4
  MaxInterval = 9
  Request <- ShortRequests
  None = None
  MaxEdit = 3
INVARIANTS
  NeverTwice
  NeverSkipped
CHECK_DEADLOCK FALSE
