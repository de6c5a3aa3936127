CONSTANTS
  Procs = {p1, p2}
  Fields <- MCFields
  StatusMap <- MCStatusMap
  TicketEvents <- MCTicketEvents
  MaxCommands = 2
  MaxSyncs = 2
  MaxMoves = 1
  MaxFaults = 1
SYMMETRY Symmetric
SPECIFICATION Spec
INVARIANTS TypeOK RerunNeedsNoConsent FinishedIsNotInProgress
PROPERTIES OverwritesAreAgreed LocalChangesStand
CHECK_DEADLOCK FALSE
