SPECIFICATION Spec
CONSTANTS
    Keys <- TwoKeys
    Values = {v0}
    EmptyValue = v0
    Streams = {s1}
    Bounds <- TwoBounds
    WatchIds = {0}
    MaxGap = 2
    MaxRev = 3
    MaxCreates = 1
    MaxRequests = 1
    MaxCompactions = 1
INVARIANTS
    WatchExact
CHECK_DEADLOCK FALSE
