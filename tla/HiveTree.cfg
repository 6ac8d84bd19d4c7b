SPECIFICATION Spec
CONSTANTS
  Hives <- SoundHives
  Names = {"", "B"}
  Fold <- MCFold
  Values <- MCValues
  ValueLists <- MCValueLists
  MaxSubkeys = 2
  MaxValues = 2
  MaxBlocks = 16
  MaxOrphans = 1
CHECK_DEADLOCK FALSE
INVARIANTS
  TypeOK
  
  SkSound
  LinksAgree
  ValuesAgree
  OnlyEmptyListsLeak
PROPERTIES
  SetValuesReadBack
  
