SPECIFICATION Spec
CONSTANTS
  Limbs = 3
  W = 2
  Fold = 3
INVARIANT ProductInField
CHECK_DEADLOCK FALSE
