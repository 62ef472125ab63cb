SPECIFICATION Spec
CONSTANTS
    LeaseIds = {1, 2}
    Watched = {1}
    Ttls <- MCTtls
    MinTtl = 1
    MaxTtl = 2
    RestoreTtl = 1
    Forever = Forever
    ChannelCap = 1
    MaxInFlight = 1
INVARIANTS
    TypeOK
    ClientLeaseHolds
PROPERTIES
    StreamTaskEnds
    LeaseContract
