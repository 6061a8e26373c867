\* Two flows that differ about the latency of the last queue.
SPECIFICATION Spec
CONSTANTS
  a = a
  b = b
  Flow = {a, b}
  Switch = {1, 2, 3}
  Path <- TwoPaths
  Hash <- Hashes
  NoFlow = NoFlow
  Latency <- BusyLastHop
  SlowLatency = 8
  Scale = 2
  Delta = 1
  latency_threshold = 4
  MaxFlight <- OneOrTwo
  MaySlow = {}
  MaxLoss = 0
INVARIANTS
  LastHopAccurate
CHECK_DEADLOCK FALSE
