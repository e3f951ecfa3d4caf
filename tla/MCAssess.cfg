SPECIFICATION FairSpec
CONSTANTS
  Names = {"s1", "s2", "a", "b", "c", "t", "g"}
  Control = "control"
  MaxRounds = 2
  MaxLost = 1
  SampleSize = 2
  MaxColumnProbes = 4
  Candidates = 2
  Targets <- OrdinaryTargets
  Verdicts <- VerdictMenu
  Default = "public"
  Pinned = {"s1", "s2"}
  Generic = {"g", "t"}
  Family = {}
  FamilyNames = {}
  MaxRelation = 1
INVARIANTS
  AssessmentIsSound
  AssessmentIsComplete
PROPERTIES
  ExpansionLosesNothing
  AssessmentEnds
CHECK_DEADLOCK FALSE
