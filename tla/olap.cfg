CONSTANTS
    Vertices = {1, 2}
    Dsts = {2, 4}
    MaxTxn = 2
    MaxEdges = 3
    MaxLoad = 3
    MaxWrites = 2
    BLOCK_CAPACITY = 2
    TXN_ID_START = 100
    Bare = {2}
    ClientLocks = TRUE
    Readers = {2}
SPECIFICATION ReadSpec
CHECK_DEADLOCK FALSE
INVARIANTS
    SnapshotReads
    StaleLookupRepaired
    LatestFaithful
PROPERTIES
    ScansReturnSteady
