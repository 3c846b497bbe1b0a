SPECIFICATION AcceleratorsSpec
CONSTANTS
  Limbs = 3
  W = 2
  Fold = 3
  WordBytes = 4
  BlockWords = 3
  NumRound = 3
  FifoDepth = 4
  AlmostFull = 3
  Cross = 2
  ResetCycles = 2
  Patient = TRUE
  Clears = TRUE
  MaxBytes = 13
  MaxConfigs = 1
  MaxResets = 1
INVARIANTS
  FieldArithmetic
  HashCorrect
PROPERTIES
  ProductTaken
  HashEnds
CHECK_DEADLOCK FALSE
