\* A peer that aborts while a request is sent.
SPECIFICATION Spec
CONSTANTS
  Calls = {"raw"}
  MaxCalls = 2
  MaxCloses = 2
  ReqLen = 2
  LineEnd = 2
  HeaderEnd = 3
  Total = 5
  Kinds = {"length", "chunked", "close"}
  MaxResponse <- NoLimit
  HupOnFin = FALSE
INVARIANTS SendAssertHolds
\* After the last call nothing happens any more.
CHECK_DEADLOCK FALSE
