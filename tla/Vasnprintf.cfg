SPECIFICATION Spec
CONSTANTS
  SIZE_MAX = 63
  INT_MAX = 31
  INT_BITS = 6
  N_DIRECT_ALLOC = 2
  ARGUMENT_SIZE = 2
  ALLOCA_MAX = 15
  Ints <- MCInts
  Strings <- MCStrings
  Cases <- MCCases
INVARIANT FormatsAsMeant
PROPERTY FormattingEnds
CHECK_DEADLOCK FALSE
