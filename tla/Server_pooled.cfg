\* Handlers on workers: three connections, two at a time.
SPECIFICATION Spec
CONSTANTS
  c1 = c1
  c2 = c2
  c3 = c3
  c4 = c4
  c5 = c5
  NoConn = NoConn
  NFds = 3
  Cap = 2
  MaxPerIp = 3
  SizeRange = 256
  MaxRequests = 1
  MaxRequestSize = 2
  Pooled = TRUE
  Expiring = FALSE
  RecvTimesOut = TRUE
  BindMayFail = FALSE
  HandlerFlags = {}
  Conns <- ThreeConns
  IpOf <- OneIp
  KeyOf <- FirstByte
SYMMETRY ConnSymmetry
INVARIANTS OpenConnsAreInTheSet OpenWithinCap KillAckMeansClosed
\* Nothing happens any more once the server has stopped and the peers have left.
CHECK_DEADLOCK FALSE
