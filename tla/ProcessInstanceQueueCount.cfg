CONSTANTS
  p1 = p1
  c1 = c1
  c2 = c2
  x = x
  Instances <- AllInstances
  Children <- AllChildren
  Startless = {x}
  Parallelisms = {0, 1, 2}
  MaxVersions = 3
  Null = Null
SPECIFICATION Spec
INVARIANTS
  ActiveCountIsSlots
CHECK_DEADLOCK FALSE
