CONSTANTS
  Graph <- Composed
  MaySuspend = {"P9", "P12"}
  AnyOrder = TRUE
  MaxRows = 22
  MaxLoop = 2
  Null = Null
SPECIFICATION Spec
INVARIANTS
  CountIsChildren
  NothingIsStuck
  NoMissedJoin
  WaitsForItsFlow
  ActivitiesRunOnce
CHECK_DEADLOCK FALSE
