\* No workers, two connections that send two requests each, fair threads.
SPECIFICATION FairSpec
CONSTANTS
  c1 = c1
  c2 = c2
  c3 = c3
  c4 = c4
  c5 = c5
  NoConn = NoConn
  NFds = 2
  Cap = 2
  MaxPerIp = 2
  SizeRange = 256
  MaxRequests = 2
  MaxRequestSize = 2
  Pooled = FALSE
  Expiring = FALSE
  RecvTimesOut = TRUE
  BindMayFail = FALSE
  HandlerFlags = {"stop_server"}
  Conns <- TwoConns
  IpOf <- OneIp
  KeyOf <- FirstByte
INVARIANTS AnswersReachTheRequester NoCrash
PROPERTIES KillIsAcknowledged RequestIsReceived
\* Nothing happens any more once the server has stopped and the peers have left.
CHECK_DEADLOCK FALSE
