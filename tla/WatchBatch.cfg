SPECIFICATION FairSpec
CONSTANTS
    Keys <- OneKey
    Values = {v0}
    EmptyValue = v0
    Streams = {s1, s2}
    Bounds <- OneBound
    WatchIds = {0, 1}
    MaxGap = 2
    MaxRev = 2
    MaxCreates = 2
    MaxRequests = 1
    MaxCompactions = 0
INVARIANTS
    UniqueIds
PROPERTIES
    CreateAnswered
CHECK_DEADLOCK FALSE
