\* A worker answers after the descriptor has been given to another connection.
SPECIFICATION Spec
CONSTANTS
  c1 = c1
  c2 = c2
  c3 = c3
  c4 = c4
  c5 = c5
  NoConn = NoConn
  NFds = 2
  Cap = 2
  MaxPerIp = 2
  SizeRange = 256
  MaxRequests = 1
  MaxRequestSize = 2
  Pooled = TRUE
  Expiring = FALSE
  RecvTimesOut = TRUE
  BindMayFail = FALSE
  HandlerFlags = {}
  Conns <- TwoConns
  IpOf <- OneIp
  KeyOf <- FirstByte
SYMMETRY ConnSymmetry
INVARIANTS OpenSocketIsTheRequesters
\* Nothing happens any more once the server has stopped and the peers have left.
CHECK_DEADLOCK FALSE
