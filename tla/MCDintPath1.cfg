\* Every hash function, a packet lost.
SPECIFICATION Spec
CONSTANTS
  a = a
  b = b
  s = s
  t = t
  NoFlow = NoFlow
  Switch = {1, 2}
  Flow = {a, b}
  Path <- MCPath
  Slot = {s, t}
  Power = {1, 2, 3, 4}
  DINT_diff = 1
  PowerLimit = 8
  MaxFlight = 1
  MaxLoss = 1
INVARIANTS
  SwitchesAgree
  ViewAccurate
SYMMETRY MCSymmetry
