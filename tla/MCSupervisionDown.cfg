CONSTANTS
  w1 = w1
  web = web
  workspace = workspace
  Worktrees = {w1}
  Apps = {web}
  Roles = {workspace}
  NoPid = NoPid
  None = None
  MaxPort = 3
  Grace = 2
  Handlers = {h1}
  Requests <- AllRequests
  MaxRestarts = 1
  Window = 1
  Probing = FALSE
  Threshold = 1
  MemRestart = FALSE
  MemTicks = 1
  SavesFail = FALSE
  MaxDeaths = 0
  MaxClock = 0
  Pids = {1, 2}
SPECIFICATION Spec
INVARIANT DownIsFinal
