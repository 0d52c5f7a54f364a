SPECIFICATION HistorySpec
CONSTANTS
  Ceiling = 4
  MaxRecords = 1
  MaxTxns = 3
  SegmentTxns = 1
  MarkerPositions = 2
  RetainCheckpoints = 2
  RollsBack = FALSE
  Reclaims = TRUE
  Decays = {}
  MaxDecays = 0
  MaxCrashes = 0
  AcceptsCut = FALSE
  Reads = {"world", "slot", "bounds"}
CHECK_DEADLOCK FALSE
INVARIANTS
  HistoryTypeOK
  HistoryExact
  NoFalseCorruption
