SPECIFICATION FairBufferSpec
CONSTANTS
  MaxLen = 4
  MaxBytes = 9
INVARIANTS
  InOrder
PROPERTIES
  Delivered
CHECK_DEADLOCK FALSE
