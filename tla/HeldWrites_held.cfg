SPECIFICATION Spec
CONSTANTS
    Ops = {"insert", "delete"}
    Units = 1
    MaxBursts = 2
    MaxOther = 1
    MaxFaults = 2
    MaxActs = 1
    MaxEvents = 3
INVARIANTS TypeOK KeptIsLanded
PROPERTIES NothingTwice LandsWhereTyped InOrder
CHECK_DEADLOCK FALSE
