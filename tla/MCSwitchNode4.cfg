\* The link of one port is taken down, and the flow is led back out of the other.
SPECIFICATION Spec
CONSTANTS
  east = east
  west = west
  second = second
  ctrl = ctrl
  Flow = {east}
  NPort = 2
  NQueue = 1
  PktSize = {1}
  BufferSize = 6
  Reserve = 1
  ResumeOffset = 1
  WireCap = 1
  MaxBacklog = 1
  MaxPfc = 1
  MaxDisturb = 1
  Headroom <- MCHeadroom
  PfcDiv <- MCPfcDiv
  Origin <- MCOrigin
  Class <- MCClass
  Route <- MCRoute
INVARIANTS
  OnlyReadyDevicesTransmit
CHECK_DEADLOCK FALSE
