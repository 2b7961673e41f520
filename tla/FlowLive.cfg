SPECIFICATION FairSpec
CONSTANTS
  QueueMax = 12
  FirstSeq = 10
  MaxPkt = 3
  JumpAt = 3
  Jump = 1
  MaxDelay = 1
  MaxInsert = 2
  MaxCopies = 1
  StartInOrder = TRUE
  AllocFails = TRUE
  FirstFails = FALSE
  DeadLinkMin = 0
  Buffer = 2
  ReorderTicks = 0
  RttTicks = 1
  MaxRetries = 2
  MissingMax = 0
  NackMax = 3
  FullLimit = 2
  TooLateLimit = 1
  MaxTime = 9
  NULL = NULL
PROPERTIES
  EventuallyReleased
  MissingSettled
CHECK_DEADLOCK FALSE
