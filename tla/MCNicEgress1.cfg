\* Two priority groups and a window; three flows, two disturbances.
SPECIFICATION NicFairSpec
CONSTANTS
  a = a
  b = b
  c = c
  Flow = {a, b, c}
  m_sizes <- MCSize
  m_pg <- MCGroup
  ack_q_idx = 3
  win_packets = 2
  var_win = TRUE
  m_rateBound = TRUE
  Gap = {1, 2}
  PacketTime = 1
  AckTime = 1
  MaxDisturb = 2
INVARIANTS
  NicTypeOK
  NoFlowForgotten
  WakeUpPending
PROPERTIES
  SentInTurn
  EveryFlowFinishes
