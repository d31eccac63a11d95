SPECIFICATION Spec
CONSTANTS
  IntBits = 7
  MinCap = 8
  Pow2 <- MCPow2
  Words = {"Host"}
  Marks = {"HTTP/1.7"}
  Outgoing <- MCOutgoing
  Added <- MCAdded
  MaxAdded = 2
  Noise = {"crlf", "sp", ":", "Host"}
  Foreign <- MCForeign
  RecvMin = 4
  MaxText = 32
INVARIANTS
  TypeOK
  TextFits
  BuilderAgreesWithPrinter
  ParseInvertsPrint
  ReparseIsStable
  OnlyAFirstLineIsOverrun
  ParserAgreesWithController
  ControllerFindsTheEnd
