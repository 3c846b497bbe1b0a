SPECIFICATION FairSpec
CONSTANTS
  Bits = 2
  SpiDiv = 4
  EcPeriods = {5, 6}
  Stretch = 10
  AccessTicks = 4
  Depth = 1
  MaxWords = 3
  AutoHolds = {TRUE, FALSE}
  CheckHold = TRUE
CHECK_DEADLOCK FALSE
PROPERTIES
  WordsInOrder
  LinkCompletes
