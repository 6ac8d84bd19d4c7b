SPECIFICATION Spec
CONSTANTS
  Files = {"f", "damaged", "none"}
  Disks <- MCDisks
  Names = {"", "B", "b"}
  Fold <- MCFold
  Paths <- MCPaths
  Counts <- MCCounts
  KeyLines = {"@", "k"}
  ValueLines <- MCValueLines
  MaxSubkeys = 2
  MaxValues = 2
  LongBits = 4
  DwordBits = 2
  MaxKeys = 4
  MaxCommands = 4
  SetvalCost = 2
CHECK_DEADLOCK FALSE
INVARIANTS PromptTrue 
PROPERTIES ScriptStops CdMeansPath SetvalStores 
