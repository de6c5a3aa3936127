\* Exclusion and no theft between sessions, with leases, anchor pids and stale clocks.
CONSTANTS
  Names <- MCNames
  Roots = {r1}
  Paths <- MCPaths
  Holders <- MCHolders
  Pids = {p1}
  NoPid = NoPid
  Ttls = {2}
  MaxClock = 2
  MaxLag = 1
  dir = dir
  file = file
  S = S
  T = T
  a1 = a1
  a2 = a2
SYMMETRY Agents
SPECIFICATION Spec
INVARIANTS
  OneLinePerRegion
  WriteExclusion
  CoveringIsExact
  NoTheft
