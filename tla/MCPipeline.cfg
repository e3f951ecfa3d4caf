SPECIFICATION Spec
CONSTANTS
  a = a
  b = b
  Artifacts = {a, b}
  IDs = {"enumerate", "probe", "schemas", "archive"}
  MaxStages = 3
  Plans <- MCPlans
INVARIANTS
  EveryStageAccounted
  StoreWithinPlan
  NoLateArtifact
  MissingInputHasACulprit
CHECK_DEADLOCK FALSE
