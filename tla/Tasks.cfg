CONSTANTS
  t1 = t1
  t2 = t2
  t3 = t3
  a = a
  b = b
  Engines = {a, b}
  TaskIds = {t1, t2, t3}
  TaskRetryLimit = 1
  MaxFailures = 2
  UnlockRunning = FALSE
  None = None
SPECIFICATION TasksFairSpec
INVARIANTS
  DoneOnce
  OneExecutor
PROPERTIES
  TaskCompletes
CHECK_DEADLOCK FALSE
