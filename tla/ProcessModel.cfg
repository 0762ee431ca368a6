CONSTANTS
  Tags = {"process", "subProcess", "callActivity", "serviceTask", "task", "eventBasedGateway", "exclusiveGateway", "inclusiveGateway", "boundaryEvent", "endEvent", "startEvent", "intermediateCatchEvent", "intermediateThrowEvent"}
  MaxElements = 3
  MaxDefinitions = 1
  Flows = {f1}
  Definitions <- AllDefinitions
SPECIFICATION ParserSpec
INVARIANTS
  CursorIsInnermost
  TypeFitsModel
  NeverPanics
CHECK_DEADLOCK FALSE
