SPECIFICATION Spec
CONSTANTS
  QMax = 4
  SeqMod = 2
  RMax = 2
  Peers = {p1}
  NackSeqs = {}
  UseSeqs = {0}
  MaxDataPerLoop = 1
  DeletePerLoop = 2
  MaxNacksPerLoop = 1
  NackBacklog = 2
  MaxRetries = 1
  Mrtts = {1}
  RttMin = 1
  RttMax = 1
  LengthMin = 0
  LengthMax = 0
  CongestionControl = "NORMAL"
  Clock = 8
  BootTime = 64
  Jitter = 100
  TickSteps = {8}
  MaxTime = 88
  MaxPackets = 6
  MaxSkips = 1
  NULL = NULL
INVARIANTS
  NoHole
  RingWindow
  BytesAccounted
  UnsentRetained
  IndexFindsNewest
