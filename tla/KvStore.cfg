SPECIFICATION Spec
CONSTANTS
    Keys <- MCKeys
    Values = {v0}
    EmptyValue = v0
    Bounds <- MCBounds
    MaxRev = 3
    MaxLog = 5
    MaxLeaseId = 1
    MaxCompactRev = 1
    MaxTxns = 1
    MaxTxnOps = 2
    MaxCrashes = 1
    MaxWalErrors = 1
INVARIANTS
    TypeOK
    KeyCountExact
    RevisionsOrdered
    StampsOrdered
    LeasesCover
    BlobsAgree
    MemoryIsReplay
PROPERTIES
    TxnOwnsRevision
