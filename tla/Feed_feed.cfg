SPECIFICATION Spec
CONSTANTS
    MaxPos = 3
    Window = 1
    DocSets = {{}, {"draft"}}
    Fallible = {"log", "index", "masked", "journal"}
    SortFails = FALSE
    BareInSort = FALSE
    MaxFaults = 1
    MaxOpens = 2
    MaxCuts = 1
    MaxReclaims = 1
    MaxEvents = 1
INVARIANTS TypeOK PagesExact ClaimsHeld LogWhole
CHECK_DEADLOCK FALSE
