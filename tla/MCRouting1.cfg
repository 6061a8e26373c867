\* Every network of two hosts and three switches with up to five links, and one
\* with more; one link fails while a flow is on its way.
SPECIFICATION FairSpec
CONSTANTS
  Host = {1, 2}
  Switch = {4, 5, 6}
  MaxLinks = 5
  Networks <- SmallNetworks
  Delay <- LinkDelay
  Bandwidth <- LinkBandwidth
  Payload = 8
  NoLimit = 9
  Flow = {"there"}
  Source <- FromOne
  Target <- FromTwo
  None = None
  AckHighPrio = TRUE
  MaxDown = 1
  MaxRefused = 1
INVARIANTS
  TypeOK
  ShortestRoutes
  OnlyLiveRoutes
PROPERTIES
  LostForAReason
  PacketsEnd
CHECK_DEADLOCK FALSE
