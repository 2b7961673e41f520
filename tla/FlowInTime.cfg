SPECIFICATION Spec
CONSTANTS
  QueueMax = 12
  FirstSeq = 10
  MaxPkt = 3
  JumpAt = 2
  Jump = 1
  MaxDelay = 1
  MaxInsert = 2
  MaxCopies = 2
  StartInOrder = TRUE
  AllocFails = TRUE
  FirstFails = FALSE
  DeadLinkMin = 0
  Buffer = 2
  ReorderTicks = 0
  RttTicks = 1
  MaxRetries = 2
  MissingMax = 0
  NackMax = 3
  FullLimit = 2
  TooLateLimit = 1
  MaxTime = 7
  NULL = NULL
INVARIANTS
  OutputInOrder
  OutputComplete
  HoleTracked
PROPERTIES
  NackSpaced
  NotEarly
CHECK_DEADLOCK FALSE
