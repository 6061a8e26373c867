\* Go-back-to-chunk: the flow is not a whole number of chunks.
SPECIFICATION FairSpec
CONSTANTS
  m_size = 5
  m_mtu = 1
  m_win = 0
  m_var_win = FALSE
  m_chunk = 2
  m_ack_interval = 1
  m_backto0 = TRUE
  Modulus = 1000
  MaxFlight = 3
  MaxDataLoss = 0
  MaxAckLoss = 0
  MaxOvertake = 0
PROPERTIES
  Completes
CHECK_DEADLOCK FALSE
