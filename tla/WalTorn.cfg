SPECIFICATION Spec
CONSTANTS
    Keys <- MCKeys
    Values = {v0}
    EmptyValue = v0
    Torn = Torn
    NoFile = NoFile
    CanTear = TRUE
    MaxRev = 3
    MaxCompactions = 0
    MaxFaults = 1
INVARIANTS
    SyncedRecoverable
CHECK_DEADLOCK FALSE
