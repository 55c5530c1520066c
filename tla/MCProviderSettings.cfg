SPECIFICATION Spec
CONSTANTS
  Ids = {"openai", "custom", "custom-1"}
  Customs = {"custom-1"}
  Family = "custom"
  Default = "openai"
  Models = {"model", "other"}
  DefaultModel = "model"
  Described = {"other"}
  Community = {"model"}
  Sessions = {"main", "child"}
  NoPair = NoPair
  Pair <- MCPair
  MaxKeys = 2
  MaxChanges = 4
INVARIANTS
  KeysStayInFamily
  KeyringReadOnce
PROPERTIES
  ParkedRunnersKept
CHECK_DEADLOCK FALSE
