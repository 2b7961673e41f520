SPECIFICATION Spec
CONSTANTS
  QueueMax = 4
  FirstSeq = 2
  MaxPkt = 3
  JumpAt = 3
  Jump = 3
  MaxDelay = 3
  MaxInsert = 5
  MaxCopies = 2
  StartInOrder = FALSE
  AllocFails = FALSE
  FirstFails = FALSE
  DeadLinkMin = 0
  Buffer = 1
  ReorderTicks = 0
  RttTicks = 1
  MaxRetries = 1
  MissingMax = 1
  NackMax = 2
  FullLimit = 0
  TooLateLimit = 0
  MaxTime = 4
  NULL = NULL
INVARIANTS
  SizeCovers
  MissingCounterExact
CHECK_DEADLOCK FALSE
