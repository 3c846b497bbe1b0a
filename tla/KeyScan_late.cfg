SPECIFICATION KeyFairSpec
CONSTANTS
  Rows = {0}
  Cols = 2
  debounce_clocks = 14
  Moments = {4, 10}
PROPERTY EveryChangeFires
