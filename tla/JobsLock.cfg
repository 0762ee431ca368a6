CONSTANTS
  e1 = e1
  e2 = e2
  j1 = j1
  j2 = j2
  j3 = j3
  j4 = j4
  w1 = w1
  w2 = w2
  Executions = {e1}
  JobIds = {j1, j2, j3}
  Workers = {w1, w2}
  RetryLimits = {0, 1}
  Null = Null
SPECIFICATION Spec
PROPERTIES
  LocksDueJobs
CHECK_DEADLOCK FALSE
