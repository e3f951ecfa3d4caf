SPECIFICATION Spec
CONSTANTS
  ta = ta
  tb = tb
  Targets <- MCTargets
  Resources <- MCResources
  SortRank <- MCSortRank
  List <- TwoTargets
  Others <- Twins
  Resolutions <- MCResolutions
  Rank <- MCRank
  Exposures <- MCExposures
  Interrupts = TRUE
INVARIANTS
  TypeOK
  HighNeverExitsZero
  ExitMatchesReport
  FoundIsReported
  EveryGapIsDeclared
  NoTargetAbandoned
  ProbedOnce
