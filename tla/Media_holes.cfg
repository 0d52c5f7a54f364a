SPECIFICATION Spec
CONSTANTS
    Principals = {p1, p2}
    Hashes = {h1}
    Requests = {r1, r2}
    LeaseInterval = 1
    Horizon = 1
    Unwinds = TRUE
    MaxNow = 2
    MaxFaults = 1
    MaxCrashes = 1
INVARIANTS MediaTypeOK NoHole GrantKept
CHECK_DEADLOCK FALSE
