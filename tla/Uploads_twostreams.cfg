SPECIFICATION Spec
CONSTANTS
    Ids = {i1}
    Requests = {a, b}
    Pruner = pruner
    NoByte = nobyte
    None = none
    Length = 2
    SyncGrain = 1
    EagerResume = TRUE
    MaxExpired = 1
    MaxFaults = 0
    MaxCrashes = 0
INVARIANTS ContentAddressed
SYMMETRY Interchange
CHECK_DEADLOCK FALSE
