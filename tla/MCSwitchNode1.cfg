\* Traffic both ways; a control packet, a corrupt frame or a link taken down,
\* with no other way around it.
SPECIFICATION Spec
CONSTANTS
  east = east
  west = west
  second = second
  ctrl = ctrl
  Flow = {east, west, ctrl}
  NPort = 2
  NQueue = 1
  PktSize = {1}
  BufferSize = 6
  Reserve = 1
  ResumeOffset = 1
  WireCap = 1
  MaxBacklog = 2
  MaxPfc = 1
  MaxDisturb = 1
  Headroom <- MCHeadroom
  PfcDiv <- MCPfcDiv
  Origin <- MCOrigin
  Class <- MCClass
  Route <- MCNoOtherRoute
INVARIANTS
  TypeOK
  AccountsMatchQueues
  WorkConserving
  NoAssertionFails
  UpstreamFollowsMmu
CHECK_DEADLOCK FALSE
