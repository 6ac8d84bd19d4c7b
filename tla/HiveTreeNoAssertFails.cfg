SPECIFICATION Spec
CONSTANTS
  Hives <- SoundHives
  Names = {"", "B", "C"}
  Fold <- MCFold
  Values <- MCValues
  ValueLists <- MCValueLists
  MaxSubkeys = 2
  MaxValues = 2
  MaxBlocks = 16
  MaxOrphans = 1
CHECK_DEADLOCK FALSE
INVARIANT
  NoAssertFails
