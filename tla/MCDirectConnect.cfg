\* Two links, a CoAP client with two kinds of request, two starts and three lines;
\* the one-byte length wraps at 4.
CONSTANTS
  b = b
  x = x
  o = o
  All = all
  None = None
  Coap = coap
  EventTask = eventtask
  Tool = tool
  Starters = {coap, eventtask}
  CoapRequests <- MCCoapRequests
  Requests <- MCRequests
  Strings = {x, o, all}
  OneCharacter = {o, all}
  Lines <- MCLines
  ByteLimit = 4
  MatchSlots = 6
  MaxBatch = 2
  MaxStarts = 2
  MaxLines = 3
  MaxLinks = 2
SPECIFICATION LinkSpec
INVARIANTS
  SentAsRequested
  FewReportsAfterStop
  NoReportsToLostTool
PROPERTIES
  TracesAreRead
CHECK_DEADLOCK FALSE
