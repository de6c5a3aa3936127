CONSTANTS
  w1 = w1
  web = web
  api = api
  workspace = workspace
  Worktrees = {w1}
  Apps = {web, api}
  Roles = {workspace}
  Pids = {1, 2}
  NoPid = NoPid
  None = None
  MaxPort = 5
  Grace = 1
  Clients = {c1, c2}
  Jobs <- TrackJobs
  MaxClock = 1
SPECIFICATION Spec
INVARIANT LiveIsTracked

