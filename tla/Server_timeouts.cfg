\* Connections time out.
SPECIFICATION Spec
CONSTANTS
  c1 = c1
  c2 = c2
  c3 = c3
  c4 = c4
  c5 = c5
  NoConn = NoConn
  NFds = 3
  Cap = 2
  MaxPerIp = 2
  SizeRange = 256
  MaxRequests = 1
  MaxRequestSize = 2
  Pooled = FALSE
  Expiring = TRUE
  RecvTimesOut = TRUE
  BindMayFail = FALSE
  HandlerFlags = {}
  Conns <- TwoConns
  IpOf <- OneIp
  KeyOf <- FirstByte
SYMMETRY ConnSymmetry
INVARIANTS KillAckMeansClosed
\* Nothing happens any more once the server has stopped and the peers have left.
CHECK_DEADLOCK FALSE
