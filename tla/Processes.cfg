CONSTANTS
  Deployments <- ThreeDeployments
  Requests <- MCRequests
  Capacity = 2
  Empty = Empty
  Null = Null
SPECIFICATION Spec
INVARIANTS
  LastRules
  CacheIsConsistent
  TimerTicks
CHECK_DEADLOCK FALSE
