\* Two flows of one group and a window, rates that change.
SPECIFICATION NicSpec
CONSTANTS
  a = a
  b = b
  c = c
  Flow = {a, b}
  m_sizes <- MCSameSize
  m_pg <- MCSameGroup
  ack_q_idx = 3
  win_packets = 2
  var_win = FALSE
  m_rateBound = TRUE
  Gap = {1, 2, 5}
  PacketTime = 1
  AckTime = 1
  MaxDisturb = 2
INVARIANT WakesInTime
