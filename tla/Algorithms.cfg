SPECIFICATION Spec
CONSTANTS
    Keys = {1, 2, 3}
    Values = {0, 3}
    EmptyValue = 0
    MaxByte = 2
    MaxKeyLen = 2
    MaxWrites = 3
    MaxLegacy = 4
    LegacyKeys = {1, 2}
    TopFactor = 2
    GroupBase = 4
    LenGroups = 2
    RevGroups = 3
    OffsetLimit = 64
    Magic = 3
    NewRevs = {0, 5, 63}
    KvFields <- MCKvFields
    ScanFields <- MCScanFields
INVARIANTS
    MatchExact
    ScanExact
    OverlapExact
    CompareExact
    PageExact
    CodecExact
    PatchExact
    ScanWhole
    TornHidesLater
    MigrationFaithful
    RecoveryKeepsData
    CutLogRead
    DamagedLogRead
