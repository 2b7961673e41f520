SPECIFICATION FairSpec
CONSTANTS
  MaxInputs = 2
  Outputs = 1
  UrlPort <- TwoEverywhere
  Configs <- Mixed
  StreamIds = {0, 2, 3, 4, 7}
  EmptyId = 7
  MaxPackets = 2
  MaxJoins = 2
INVARIANTS
  StreamsUnique
  ConfigOwned
  AllReleased
  WrittenInOrder
PROPERTIES
  RelayImplemented
  UdpServed
CHECK_DEADLOCK FALSE
