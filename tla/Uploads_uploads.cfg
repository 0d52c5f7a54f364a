SPECIFICATION Spec
CONSTANTS
    Ids = {i1, i2}
    Requests = {a, b}
    Pruner = pruner
    NoByte = nobyte
    None = none
    Length = 2
    SyncGrain = 2
    EagerResume = FALSE
    MaxExpired = 1
    MaxFaults = 1
    MaxCrashes = 1
INVARIANTS TypeOK ReceivedKept ContentAddressed LeaseHasBytes
SYMMETRY Interchange
CHECK_DEADLOCK FALSE
