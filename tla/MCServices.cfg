SPECIFICATION FairSpec
CONSTANTS
  Targets <- MCTargets
  Options <- MCOptions
  Default = "public"
  Snake <- SnakeSeeds
  Plain <- PlainSeeds
  Guesses <- Composed
  Control = Control
  FaultKinds = {"lost", "throttled", "down"}
  MaxFaults = 1
  BucketSeeds = {"b1", "b2"}
  FunctionSeeds = {"f1", "f2"}
INVARIANTS
  ServicesAreSound
  ServicesAreComplete
PROPERTIES
  ServicesEnd
CHECK_DEADLOCK FALSE
