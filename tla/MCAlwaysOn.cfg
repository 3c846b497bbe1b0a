SPECIFICATION AlwaysOnSpec
CONSTANTS
  clkspertick = 2
  MaxTime = 1
  MinGap = 2
  MaxGap = 3
  MaxAccesses = 2
  Rows = {0}
  Cols = 2
  debounce_clocks = 14
  Moments = {4, 10}
PROPERTIES
  PausedMeansStopped
  KeyScanSound
  CpuWakes
