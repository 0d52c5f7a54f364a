SPECIFICATION Spec
CONSTANTS
    MaxPos = 3
    Window = 1
    DocSets = {{}, {"draft"}}
    Fallible = {"index"}
    SortFails = TRUE
    BareInSort = TRUE
    MaxFaults = 1
    MaxOpens = 2
    MaxCuts = 1
    MaxReclaims = 0
    MaxEvents = 1
INVARIANT ClaimsHeld
CHECK_DEADLOCK FALSE
