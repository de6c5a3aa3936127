CONSTANTS
  Procs = {p1, p2}
  MaxWrites = 2
  MaxRuns = 1
  MaxFailures = 1
  MaxCrashes = 1
SPECIFICATION FairSpec
INVARIANTS LandsInOrder NothingLeftBehind
PROPERTIES EveryWriteIsSettled
CHECK_DEADLOCK FALSE
