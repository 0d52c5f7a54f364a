SPECIFICATION FairSpec
CONSTANTS
  EveryN = 2
  Deferred = TRUE
INVARIANTS
  TypeOK
  NoLostCrossing
  NoLostWake
  BackstopBoundsLag
  DebtIsRetried
PROPERTIES
  EveryCrossingServiced
