SPECIFICATION Spec
CONSTANTS
  capacity_ = 3
  Counts = {1, 2}
  RelaxedStore = TRUE
  MaxElements = 4
INVARIANT NoSlotShared
