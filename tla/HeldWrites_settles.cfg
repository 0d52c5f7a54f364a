SPECIFICATION FairSpec
CONSTANTS
    Ops = {"insert", "delete"}
    Units = 1
    MaxBursts = 2
    MaxOther = 1
    MaxFaults = 1
    MaxActs = 1
    MaxEvents = 3
PROPERTIES Settles
CHECK_DEADLOCK FALSE
