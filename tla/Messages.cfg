CONSTANTS
  m1 = m1
  m2 = m2
  k1 = k1
  c1 = c1
  b1 = b1
  Messages = {m1, m2}
  Keys = {k1}
  Executions = {c1, b1}
  Repeating = {b1}
  Start = Start
  Nothing = Nothing
  Null = Null
SPECIFICATION FairSpec
INVARIANTS
  CorrelatedOnce
  WaitsForOne
  UniqueInstances
  NoMissedMessage
PROPERTIES
  MessageReleased
CHECK_DEADLOCK FALSE
