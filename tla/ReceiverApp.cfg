SPECIFICATION FairSpec
CONSTANTS
  Base = 4
  ClockRate = 90
  Inputs = 2
  MaxOutputs = 2
  Configs <- Mixed
  Flows = {2, 6}
  Ports = {10, 12}
  FifoSize = 2
  FirstSeqnum = {15}
  FirstSeq = 15
  FirstTime = 65000
  TimeStep = 3
  ReportSet <- OneReport
  MaxEvents = 3
  MaxStarts = 2
INVARIANTS
  RefsExact
  RelayedExactly
  RtpSeqConsecutive
  RtpDecodes
  ConfigsLive
  StatsExact
PROPERTY
  EventuallyRelayed
CHECK_DEADLOCK FALSE
