CONSTANTS
  e1 = e1
  e2 = e2
  j1 = j1
  j2 = j2
  j3 = j3
  p1 = p1
  p2 = p2
  w1 = w1
  v1 = v1
  v2 = v2
  Executions = {e1}
  JobIds = {j1, j2}
  Workers = {w1}
  RetryLimits = {0, 1}
  Executors = {p1, p2}
  worker = w1
  Values = {v1, v2}
  MaxPuts = 2
  MaxVariables = 2
  ProcessScope = ProcessScope
  Null = Null
SPECIFICATION WorkerSpec
INVARIANTS
  OneHandle
  RunAgainOnlyIfUnlocked
  LatestIsStored
CHECK_DEADLOCK FALSE
SYMMETRY Symmetry
