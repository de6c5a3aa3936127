CONSTANTS
  FileNames <- MCFileNames
  Root <- MCRoot
  MaxParts = 3
  Sessions = {}
  SubAgents = {}
  MaxTodos = 4
  Caps = {0, 1, 2}
  MaxChanges = 4
  w1 = w1
  web = web
  api = api
  workspace = workspace
  Worktrees = {w1}
  Apps = {web, api}
  Roles = {workspace}
  Pids = {1}
  NoPid = NoPid
  None = None
  MaxPort = 3
  Grace = 1
  Clients = {c1, c2}
  Jobs <- MCJobs
  MaxClock = 1
SPECIFICATION PartsSpec
INVARIANTS
  TextTestsArePrefixTests
  OneKeyPerFile
  PlanIsASchedule
  CriticalIsLongest
  CycleCheckIsExact
PROPERTIES AllocKeepsRows AllocIsIdempotent
SYMMETRY ClientSymmetry
