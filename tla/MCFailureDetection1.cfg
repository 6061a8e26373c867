\* Probes every 2 ticks, up to 1 late, up to 1 on their way, no two lost in a
\* row; the detector may subscribe one tick after the failure.
SPECIFICATION Spec
CONSTANTS
  left = left
  right = right
  leftKey = leftKey
  rightKey = rightKey
  leftPort = leftPort
  hostPort = hostPort
  Path = {left, right}
  Key = {leftKey, rightKey, leftPort, hostPort}
  PortKey = {leftPort, hostPort}
  Renews <- MCRenews
  Epoch = 2
  Aging = 9
  SendTime = 8
  WaitTables = 0
  WaitTraffic = 5
  WaitDetector = 2
  WaitEnd = 12
  Jitter = 1
  Transit = 1
  MaxLoss = 1
  StartLag = 3
  ExpiryLag = 1
INVARIANTS
  FailureReported
PROPERTY
  NoFalseAlarm
