CONSTANTS
  Graph <- TaskInSubProcess
  MaySuspend = {}
  AnyOrder = FALSE
  MaxRows = 40
  MaxLoop = 2
  Null = Null
SPECIFICATION Spec
INVARIANTS
  NeverNil
CHECK_DEADLOCK FALSE
