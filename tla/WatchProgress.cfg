SPECIFICATION Spec
CONSTANTS
    Keys <- OneKey
    Values = {v0}
    EmptyValue = v0
    Streams = {s1}
    Bounds <- OneBound
    WatchIds = {0}
    MaxGap = 2
    MaxRev = 2
    MaxCreates = 1
    MaxRequests = 1
    MaxCompactions = 0
INVARIANTS
    ProgressTruthful
CHECK_DEADLOCK FALSE
