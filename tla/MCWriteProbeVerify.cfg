SPECIFICATION Spec
CONSTANTS
  Base = 2
  Databases <- FewDatabases
  Tables <- MCTables
  FaultKinds = {"throttled"}
  MaxFaults = 1
  Retries = 0
  Busy = FALSE
INVARIANTS
  VerifiedGone
CHECK_DEADLOCK FALSE
