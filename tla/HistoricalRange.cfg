SPECIFICATION Spec
CONSTANTS
    Keys <- MCKeys
    Values = {v0}
    EmptyValue = v0
    Bounds <- MCBounds
    MaxRev = 4
    MaxCompactions = 1
INVARIANTS
    OldVersionsTrue
    SingleLifetimeExact
