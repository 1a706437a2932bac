SPECIFICATION Spec
CONSTANTS
  Node = {n1}
  Conn = {c1, c2}
  Dir = {rx}
  None = None
  MaxSingleDelta = 1
  MaxMoved = 1
  MaxBoot = 2
  MaxReset = 1
  MaxCrash = 1
  MaxSaveFail = 0
  MaxLoadFail = 0
  MaxEdit = 0
CONSTRAINT OneEvent
SYMMETRY ConnSymmetry
INVARIANTS
  RegisteredIsOpen
  NoOvercount
PROPERTIES
  RowNeverShrinks
CHECK_DEADLOCK FALSE
