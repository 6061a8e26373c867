\* A window; one data packet is lost.
SPECIFICATION Spec
CONSTANTS
  m_size = 5
  m_mtu = 1
  m_win = 3
  m_var_win = FALSE
  m_chunk = 2
  m_ack_interval = 1
  m_backto0 = FALSE
  Modulus = 1000
  MaxFlight = 3
  MaxDataLoss = 1
  MaxAckLoss = 0
  MaxOvertake = 0
INVARIANTS
  NextNotBehindUnacked
CHECK_DEADLOCK FALSE
