CONSTANTS
  t1 = t1
  t2 = t2
  t3 = t3
  a = a
  b = b
  Engines = {a, b}
  TaskIds = {t1, t2}
  TaskRetryLimit = 0
  MaxFailures = 2
  UnlockRunning = FALSE
  None = None
SPECIFICATION TasksSpec
INVARIANTS
  RetryKeepsPayload
CHECK_DEADLOCK FALSE
