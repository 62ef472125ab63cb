SPECIFICATION Spec
CONSTANTS
    Keys <- MCKeys
    Values = {v0}
    EmptyValue = v0
    Bounds <- MCBounds
    MaxRev = 2
    MaxLog = 3
    MaxLeaseId = 0
    MaxCompactRev = 0
    MaxTxns = 1
    MaxTxnOps = 3
    MaxCrashes = 1
    MaxWalErrors = 0
INVARIANTS
    TxnAtomic
