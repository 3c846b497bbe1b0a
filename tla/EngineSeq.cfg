SPECIFICATION FairSpec
CONSTANTS
  Depth = 8
  Programs <- Samples
  MulSteps = 1
  PropSteps = 2
  AccessTicks = 4
INVARIANT StatusIsSound
PROPERTIES
  HostAccessSound
  InstructionsInOrder
  EngineAnswers
