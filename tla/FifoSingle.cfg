SPECIFICATION Spec
CONSTANTS
  FifoSize = 4
  Readers = {r1}
  MaxBlocks = 7
  NULL = NULL
INVARIANTS
  NullExplained
  ReadInOrder
  LossAnnounced
PROPERTIES
  FifoImplemented
CHECK_DEADLOCK FALSE
