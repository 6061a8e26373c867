\* A path that visits a switch twice.
SPECIFICATION Spec
CONSTANTS
  a = a
  b = b
  Flow = {a}
  Switch = {1, 2, 3}
  Path <- LoopPath
  Hash <- LoopHash
  NoFlow = NoFlow
  Latency <- LoopLatency
  SlowLatency = 8
  Scale = 2
  Delta = 1
  latency_threshold = 4
  MaxFlight <- LoopFlight
  MaySlow = {}
  MaxLoss = 0
INVARIANTS
  ReceiverSurvives
CHECK_DEADLOCK FALSE
