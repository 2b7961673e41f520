SPECIFICATION FairSpec
CONSTANTS
  MaxInputs = 2
  Outputs = 1
  UrlPort <- TwoEverywhere
  Configs <- UdpThenRist
  StreamIds = {0, 2, 4}
  EmptyId = 7
  MaxPackets = 1
  MaxJoins = 0
PROPERTIES
  OneThreadPerReceiver
CHECK_DEADLOCK FALSE
