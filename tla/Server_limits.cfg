\* Timeouts and discarded connections: three connections from two addresses.
SPECIFICATION Spec
CONSTANTS
  c1 = c1
  c2 = c2
  c3 = c3
  c4 = c4
  c5 = c5
  NoConn = NoConn
  NFds = 3
  Cap = 2
  MaxPerIp = 1
  SizeRange = 256
  MaxRequests = 1
  MaxRequestSize = 2
  Pooled = FALSE
  Expiring = TRUE
  RecvTimesOut = TRUE
  BindMayFail = TRUE
  HandlerFlags = {"discard_conn"}
  Conns <- ThreeConns
  IpOf <- TwoIps
  KeyOf <- FirstByte
SYMMETRY OtherConnSymmetry
INVARIANTS TypeOK EntriesWithinLimit
\* Nothing happens any more once the server has stopped and the peers have left.
CHECK_DEADLOCK FALSE
