\* FastReact is FALSE in some behaviours and obeyed in all modes but HPCC-PINT.
SPECIFICATION RateSpec
CONSTANTS
  m_size = 7
  m_mtu = 2
  m_win = 0
  m_var_win = FALSE
  m_chunk = 0
  m_ack_interval = 1
  m_backto0 = FALSE
  Modulus = 1000
  MaxFlight = 3
  MaxDataLoss = 1
  MaxAckLoss = 1
  MaxOvertake = 0
  Modes = {1, 3, 7, 8, 10}
  m_minRate = 2
  LineRate = 6
  m_rai = 1
  m_rhai = 2
  m_rpgThreshold = 1
  m_EcnClampTgtRate = FALSE
PROPERTY
  FastReactObeyed
CHECK_DEADLOCK FALSE
