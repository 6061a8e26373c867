\* A port may be so idle that its power is 0.
SPECIFICATION Spec
CONSTANTS
  a = a
  b = b
  s = s
  t = t
  NoFlow = NoFlow
  Switch = {1, 2}
  Flow = {a, b}
  Path <- MCPath
  Slot = {s, t}
  Power = {0, 1, 3}
  DINT_diff = 1
  PowerLimit = 8
  MaxFlight = 1
  MaxLoss = 1
INVARIANTS
  InvalidMeansSaved
SYMMETRY MCSymmetry
