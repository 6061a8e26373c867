\* One link fails, and the largest round trip of the network grows.
SPECIFICATION Spec
CONSTANTS
  Host = {1, 2}
  Switch = {4, 5, 6}
  MaxLinks = 5
  Networks <- SmallNetworks
  Delay <- LinkDelay
  Bandwidth <- LinkBandwidth
  Payload = 8
  NoLimit = 9
  Flow = {}
  Source <- FromOne
  Target <- FromTwo
  None = None
  AckHighPrio = TRUE
  MaxDown = 1
  MaxRefused = 1
INVARIANTS
  MaxRttOfNetwork
CHECK_DEADLOCK FALSE
