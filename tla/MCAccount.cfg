SPECIFICATION FairSpec
CONSTANTS
  Scans = {"A", "B"}
  Plans <- TwoScans
  Policies <- EveryPolicy
  MaxLost = 1
  MaxKills = 1
INVARIANTS
  AccountsAreSound
  ResidueIsKnown
PROPERTIES
  StoreForgetsNothing
  EveryScanEnds
CHECK_DEADLOCK FALSE
