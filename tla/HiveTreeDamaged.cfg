SPECIFICATION Spec
CONSTANTS
  Hives <- DamagedHives
  Names = {"", "B"}
  Fold <- MCFold
  Values <- MCValues
  ValueLists <- MCValueLists
  MaxSubkeys = 3
  MaxValues = 2
  MaxBlocks = 15
  MaxOrphans = 1
CHECK_DEADLOCK FALSE
INVARIANTS
  VisitsOnce
