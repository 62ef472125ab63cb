SPECIFICATION FairSpec
CONSTANTS
    Keys <- MCKeys
    Values = {v0}
    EmptyValue = v0
    Torn = Torn
    NoFile = NoFile
    CanTear = TRUE
    MaxRev = 3
    MaxCompactions = 2
    MaxFaults = 1
INVARIANTS
    TypeOK
    LogCoversMemory
    PowerLossBounded
    UnsyncedPending
PROPERTIES
    EventuallyDurable
CHECK_DEADLOCK FALSE
