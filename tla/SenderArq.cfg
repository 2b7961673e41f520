SPECIFICATION FairSpec
CONSTANTS
  QMax = 4
  SeqMod = 2
  RMax = 3
  Peers = {p1}
  NackSeqs = {0, 1}
  UseSeqs = {}
  MaxDataPerLoop = 1
  DeletePerLoop = 2
  MaxNacksPerLoop = 1
  NackBacklog = 2
  MaxRetries = 1
  Mrtts = {1}
  RttMin = 1
  RttMax = 1
  LengthMin = 0
  LengthMax = 0
  CongestionControl = "NORMAL"
  Clock = 8
  BootTime = 64
  Jitter = 8
  TickSteps = {8}
  MaxTime = 80
  MaxPackets = 4
  MaxSkips = 0
  NULL = NULL
INVARIANTS
  RetryFlagBacked
  RetrySpacing
  IndexOnlySent
PROPERTIES
  SentEventually
