CONSTANTS
  QueueLen = 3
  SocketCap = 3
  MaxArrived = 6
  MaxErrors = 1
  None = None
  BuffSize = 4
  SegmentLen <- MCSegmentLen
  Loads <- MCLoads
  MaxClients = 2
  MaxFailures = 1
  Failed = Failed
  Listener = Listener
SPECIFICATION ServersSpec
INVARIANTS
  OneHolder
  DropsStayBehind
  TextIsWhole
  KeepsUpWithClient
PROPERTIES
  ImplementsFifo
  BufferedIsHandled
  ReceivedIsPrinted
CHECK_DEADLOCK FALSE
