CONSTANTS
  e1 = e1
  n1 = n1
  t1 = t1
  e2 = e2
  n2 = n2
  s2 = s2
  m2 = m2
  leafU = leafU
  leafA = leafA
  leafB = leafB
  codeX = codeX
  codeY = codeY
  Depth = 3
  Leaves = {leafU, leafA, leafB}
  LevelOf <- MCLevelOf
  Models <- MCModels
  Boundaries = {e1, n1, t1, e2, n2, s2, m2}
  Boundary <- MCBoundary
  Codes = {codeX, codeY}
  AnyCode = AnyCode
  Clients = {"c", "d"}
  Observed = "c"
  MaxThrown = 2
  MaxRevision = 2
  MaxRepeats = 1
  Null = Null
SPECIFICATION Spec
INVARIANTS
  EscalationContinues
CHECK_DEADLOCK FALSE
