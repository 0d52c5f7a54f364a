SPECIFICATION Spec
CONSTANTS
  Ceiling = 6
  MaxRecords = 1
  MaxTxns = 3
  SegmentTxns = 2
  MarkerPositions = 2
  RetainCheckpoints = 2
  RollsBack = TRUE
  Reclaims = TRUE
  Decays = {"base", "record", "marker"}
  MaxDecays = 2
  MaxCrashes = 2
  AcceptsCut = TRUE
CHECK_DEADLOCK FALSE
INVARIANTS
  SeenSurvives
  NoHole
  ClaimsHonoured
  EveryBaseFolds
  RefusesOnlyDecay
