SPECIFICATION FairSpec
CONSTANTS
  SeedWords = 2
  DinWords = 2
  Intervals = {0, 1, 2}
  Depth = 2
  MaxWords = 8
  MaxUnderrun = 1
INVARIANTS
  KeyPoolSound
  RotationDue
PROPERTIES
  SeedWordsFresh
  NoKernelRepeat
  SeedsArrive
