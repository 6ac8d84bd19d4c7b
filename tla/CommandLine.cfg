SPECIFICATION Spec
CONSTANTS
  Programs <- MCPrograms
  Options <- MCOptions
  Words <- MCWords
  MaxWords = 3
  Texts <- MCTexts
  Widths = {8, 12}
  valid_suffixes <- MCSuffixes
INVARIANTS TypeOK ReadsAsMeant NumbersAsMeant
CHECK_DEADLOCK FALSE
