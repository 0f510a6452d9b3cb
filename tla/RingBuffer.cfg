SPECIFICATION Spec
CONSTANTS
  capacity_ = 4
  Counts = {1, 2, 4}
  RelaxedStore = FALSE
  MaxElements = 7
INVARIANTS
  TypeOK
  CountsHold
  NoSlotShared
  FifoOrder
PROPERTY ImplementsFifo
