SPECIFICATION Spec
CONSTANTS
    Keys <- MCKeys
    Values = {v0}
    EmptyValue = v0
    Torn = Torn
    NoFile = NoFile
    CanTear = FALSE
    MaxRev = 3
    MaxCompactions = 1
    MaxFaults = 0
INVARIANTS
    CompactionTransparent
CHECK_DEADLOCK FALSE
