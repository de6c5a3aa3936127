CONSTANTS
  Sessions = {s1, s2}
  SubAgents = {a}
  Procs = {p1, p2}
  MaxSeed = 2
  MaxId = 2
  MaxCommands = 3
SYMMETRY Symmetric
SPECIFICATION Spec
INVARIANTS TypeOK LogTellsClaims
PROPERTIES NewTodosAreUnknown ClaimsAreRespected PruneKeepsNeeded CyclesNeedARace
CHECK_DEADLOCK FALSE
