SPECIFICATION Spec
CONSTANTS
    Docs = {d1}
    Causes = {held}
    Versions = {0, 1}
    Long = {1}
    Remarks = 0
    HeldLines = 2
    MaxOrdinal = 3
    MaxPos = 1
    MaxWrites = 2
    MaxChanges = 1
    MaxCloses = 2
    MaxEvents = 2
    MaxRefusals = 1
INVARIANTS TypeOK FileAgrees SentOnDisk NoneLost NoneAhead OrdinalNames
CHECK_DEADLOCK FALSE
