CONSTANTS
  Graph <- TwoTasks
  MaySuspend = {"P11"}
  AnyOrder = FALSE
  MaxRows = 40
  MaxLoop = 2
  Null = Null
SPECIFICATION Spec
INVARIANTS
  ActivitiesRunOnce
CHECK_DEADLOCK FALSE
