\* One peer that connects, with EAP, one that listens for two receivers;
\* weights 0 to 2.
SPECIFICATION Spec
CONSTANTS
  theListener = l
  Connecting = {a}
  Listening = {l}
  Children = {x, y}
  Parent <- OneParent
  EapPeers = {a}
  Weights = {0, 1, 2}
  MaxCalls = 3
  Destroyable = {l}
  DestroyWhileSending = FALSE
  CountMod = 8
  NULL = NULL
INVARIANTS
  AliveCountExact
  TotalWeightExact
  NotTwiceSkipped
PROPERTIES
  FairRound
