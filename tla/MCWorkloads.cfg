SPECIFICATION FairSpec
CONSTANTS
  Targets <- MCTargets
  Options <- MCOptions
  FaultKinds = {"lost", "throttled"}
  MaxFaults = 2
  FunctionCap = 2
  ReachSample = 2
  Resources <- MCResources
  Operations = {"read", "insert", "update", "delete"}
  Verbs = {"read", "insert", "update", "delete", "write"}
  Subjects = {"anonymous", "authenticated"}
INVARIANTS
  TargetsAreSpared
  ClaimsAreReal
  GapsAreDeclared
PROPERTIES
  FootprintKept
  EveryWorkloadEnds
