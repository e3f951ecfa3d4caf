SPECIFICATION Spec
CONSTANTS
  Base = 2
  Databases <- FewDatabases
  Tables <- MCTables
  FaultKinds = {"lost", "unsent", "throttled", "turnedAway", "truncated"}
  MaxFaults = 2
  Retries = 1
  Busy = TRUE
INVARIANTS
  ReachedIsSound
  ForbiddenWritesNothing
  TargetUntouched
CHECK_DEADLOCK FALSE
