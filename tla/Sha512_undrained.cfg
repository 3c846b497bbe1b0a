SPECIFICATION ShaSpec
CONSTANTS
  WordBytes = 4
  BlockWords = 3
  NumRound = 8
  FifoDepth = 4
  AlmostFull = 3
  Cross = 2
  ResetCycles = 2
  Patient = FALSE
  Clears = TRUE
  MaxBytes = 16
  MaxConfigs = 0
  MaxResets = 0
INVARIANT DigestIsOfMessage
