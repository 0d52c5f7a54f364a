SPECIFICATION Spec
CONSTANTS
  Ceiling = 6
  MaxRecords = 2
  MaxTxns = 3
  SegmentTxns = 1
  MarkerPositions = 2
  RetainCheckpoints = 1
  RollsBack = TRUE
  Reclaims = TRUE
  Decays = {}
  MaxDecays = 0
  MaxCrashes = 2
  AcceptsCut = FALSE
CHECK_DEADLOCK FALSE
INVARIANTS
  TypeOK
  PositionsUnique
PROPERTIES
  KeepsPromise
