CONSTANTS
  Tags = {"process", "subProcess", "serviceTask", "boundaryEvent", "startEvent", "intermediateCatchEvent", "intermediateThrowEvent"}
  MaxElements = 3
  MaxDefinitions = 2
  Flows = {f1}
  Definitions <- AllDefinitions
SPECIFICATION ParserSpec
INVARIANTS
  NeverPanics
CHECK_DEADLOCK FALSE
