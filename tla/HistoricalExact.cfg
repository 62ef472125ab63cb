SPECIFICATION Spec
CONSTANTS
    Keys <- MCKeys
    Values = {v0}
    EmptyValue = v0
    Bounds <- MCBounds
    MaxRev = 3
    MaxCompactions = 0
INVARIANTS
    HistoricalExact
