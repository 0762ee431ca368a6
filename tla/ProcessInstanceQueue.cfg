CONSTANTS
  p1 = p1
  c1 = c1
  c2 = c2
  x = x
  Instances <- AllInstances
  Children <- AllChildren
  Startless = {x}
  Parallelisms = {0, 1, 2}
  MaxVersions = 3
  Null = Null
SPECIFICATION WorkerFairSpec
INVARIANTS
  ListIsQueue
  NoStuckQueue
PROPERTIES
  KeepsPromise
  QueuedIsStarted
CHECK_DEADLOCK FALSE
