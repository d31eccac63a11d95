\* All three kinds of calls, twice; every failure, timeout and way to leave.
SPECIFICATION FairSpec
CONSTANTS
  Calls = {"raw", "http", "session"}
  MaxCalls = 2
  MaxCloses = 2
  ReqLen = 2
  LineEnd = 2
  HeaderEnd = 3
  Total = 5
  Kinds = {"length", "chunked", "close"}
  MaxResponse <- NoLimit
  HupOnFin = TRUE
INVARIANTS TypeOK ClosedByOneParty SessionTracksSocket IInv OutIsOneResponse
PROPERTIES EveryCallReturns
\* After the last call nothing happens any more.
CHECK_DEADLOCK FALSE
