\* Two data queues that share an egress port.
SPECIFICATION FairSpec
CONSTANTS
  east = east
  west = west
  second = second
  ctrl = ctrl
  Flow = {east, second}
  NPort = 2
  NQueue = 2
  PktSize = {1}
  BufferSize = 6
  Reserve = 1
  ResumeOffset = 1
  WireCap = 1
  MaxBacklog = 1
  MaxPfc = 1
  MaxDisturb = 0
  Headroom <- MCHeadroom
  PfcDiv <- MCPfcDiv
  Origin <- MCOrigin
  Class <- MCClass
  Route <- MCRoute
PROPERTIES
  UpstreamResumes
  EveryQueueServed
