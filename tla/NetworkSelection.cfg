\* Three networks of both device types, an index beyond them, a reset.
CONSTANTS
  MaxNetworks = 3
  Routers = {0, 2}
  MaxAuthorities = 1
  JoinErrors = {2}
  Requested = {1, 200}
  MaxRequests = 2
  MaxResets = 1
  None = None
SPECIFICATION FairSpec
INVARIANTS
  NothingKept
  JoinReportedTruly
PROPERTIES
  RestartsOnRequested
  EveryNetworkTried
CHECK_DEADLOCK FALSE
