\* Every request ends, whoever is killed and however the daemon stops.
CONSTANTS
  Names <- MCNames
  Roots = {r1}
  Paths <- MCPaths
  Holders <- MCHolders
  Pids = {p1}
  NoPid = NoPid
  Ttls = {1}
  Clients = {c1, c2}
  Requests <- FewRequests
  None = None
  MaxClock = 0
  GracefulExit = TRUE
  dir = dir
  file1 = file1
  S = S
  T = T
  r1 = r1
  p1 = p1
SPECIFICATION FairSpec
\* Every client makes one request and is then done.
CHECK_DEADLOCK FALSE
PROPERTIES
  EveryRequestEnds
