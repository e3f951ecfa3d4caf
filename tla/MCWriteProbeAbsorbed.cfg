SPECIFICATION Spec
CONSTANTS
  Base = 2
  Databases <- MCDatabases
  Tables <- MCTables
  FaultKinds = {"unsent", "throttled"}
  MaxFaults = 1
  Retries = 1
  Busy = FALSE
INVARIANTS
  RefusalIsSound
  RemovalIsSound
  ResidueIsReported
CHECK_DEADLOCK FALSE
