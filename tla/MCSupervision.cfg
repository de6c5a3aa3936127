\* Starts and stops with failing saves, against probes, crashes and memory kills.
CONSTANTS
  w1 = w1
  web = web
  workspace = workspace
  Worktrees = {w1}
  Apps = {web}
  Roles = {workspace}
  NoPid = NoPid
  None = None
  MaxPort = 4
  Grace = 2
  Handlers = {h1}
  Requests <- DownRequests
  MaxRestarts = 1
  Window = 1
  Probing = TRUE
  Threshold = 1
  MemRestart = TRUE
  MemTicks = 1
  SavesFail = TRUE
  MaxDeaths = 0
  MaxClock = 0
  Pids = {1, 2}
SPECIFICATION Spec
INVARIANTS TypeOK OnlyReadyIsJudged
PROPERTY MemoryKillIsRespawned
