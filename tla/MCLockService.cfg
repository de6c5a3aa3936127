\* The registry file under direct writers, a daemon that may be killed, killed
\* clients and failing saves.
CONSTANTS
  Names <- MCNames
  Roots = {r1}
  Paths <- MCPaths
  Holders <- MCHolders
  Pids = {p1}
  NoPid = NoPid
  Ttls = {1}
  Clients = {c1, c2}
  Requests <- MCRequests
  None = None
  MaxClock = 1
  GracefulExit = FALSE
  dir = dir
  file1 = file1
  S = S
  T = T
  r1 = r1
  p1 = p1
SYMMETRY ClientSymmetry
SPECIFICATION Spec
\* Every client makes one request and is then done.
CHECK_DEADLOCK FALSE
INVARIANTS
  MemoryIsFile
  FileWhole
  AnswersTruthful
PROPERTIES
  ImplementsRegistry
