\* Go-back-to-chunk with a window, on a path that changes once; packets, chunks
\* and the ACK interval do not divide each other.
SPECIFICATION FairSpec
CONSTANTS
  m_size = 24
  m_mtu = 3
  m_win = 14
  m_var_win = FALSE
  m_chunk = 8
  m_ack_interval = 7
  m_backto0 = TRUE
  Modulus = 1000
  MaxFlight = 3
  MaxDataLoss = 1
  MaxAckLoss = 1
  MaxOvertake = 1
INVARIANTS
  SenderIsRight
PROPERTY
  Completes
CHECK_DEADLOCK FALSE
