CONSTANTS
  Graph <- ForkJoin
  MaySuspend = {"P1"}
  AnyOrder = FALSE
  MaxRows = 40
  MaxLoop = 2
  Null = Null
SPECIFICATION FairSpec
INVARIANTS
  NoOrphans
  BoundaryEventsAttached
  EnteredOnce
PROPERTIES
  InstanceEnds
CHECK_DEADLOCK FALSE
