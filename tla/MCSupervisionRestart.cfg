\* Concurrent starts of one key, crashes, respawns and a daemon restart.
CONSTANTS
  w1 = w1
  web = web
  workspace = workspace
  Worktrees = {w1}
  Apps = {web}
  Roles = {workspace}
  NoPid = NoPid
  None = None
  MaxPort = 4
  Grace = 2
  Handlers = {h1, h2}
  Requests <- StartRequests
  MaxRestarts = 1
  Window = 2
  Probing = FALSE
  Threshold = 1
  MemRestart = FALSE
  MemTicks = 1
  SavesFail = FALSE
  MaxDeaths = 1
  MaxClock = 2
  Pids = {1, 2, 3}
SPECIFICATION FairSpec
INVARIANTS RestartsAreBounded OneServerPerKey
PROPERTY DeadChildIsHandled
