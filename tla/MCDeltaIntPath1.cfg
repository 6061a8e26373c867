\* Two flows, every hash, a slow queue and a lost probe.
SPECIFICATION FairSpec
CONSTANTS
  a = a
  b = b
  Flow = {a, b}
  Switch = {1, 2, 3}
  Path <- TwoPaths
  Hash <- Hashes
  NoFlow = NoFlow
  Latency <- LatencyOf
  SlowLatency = 8
  Scale = 2
  Delta = 1
  latency_threshold = 4
  MaxFlight <- OneOrTwo
  MaySlow <- FirstUplink
  MaxLoss = 1
INVARIANTS
  TypeOK
  ReceiverSurvives
  TelemetryRecovered
PROPERTY
  GrayFailureSeen
CHECK_DEADLOCK FALSE
