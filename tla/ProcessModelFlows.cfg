CONSTANTS
  Tags = {"process", "serviceTask"}
  MaxElements = 4
  MaxDefinitions = 1
  Flows = {f1}
  Definitions <- MCDefinitions
SPECIFICATION ParserSpec
INVARIANTS
  ValidCanBeExecuted
CHECK_DEADLOCK FALSE
