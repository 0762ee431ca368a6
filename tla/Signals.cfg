CONSTANTS
  s1 = s1
  s2 = s2
  b1 = b1
  b2 = b2
  b3 = b3
  g1 = g1
  g2 = g2
  Signals = {s1, s2}
  Catches = {}
  Members = {g1, g2}
  Timer = timer
  Boundaries = {b1, b2, b3}
  Interrupting = i1
  Thrower = thrower
  Starts = {d1}
  Scenarios <- MCScenarios
  Null = Null
SPECIFICATION FairSpec
INVARIANTS
  CountIsDueTasks
  OneEventPerGateway
  BoundaryKeepsWaiting
PROPERTIES
  SignalReleased
CHECK_DEADLOCK FALSE
