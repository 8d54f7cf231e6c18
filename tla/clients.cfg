CONSTANTS
    v1 = v1
    v2 = v2
    e1 = e1
    TXN_ID_START = 100
    Src <- SrcV1
    Dst <- DstV2
    Props = {1}
    Vertices = {v1, v2}
    Edges = {e1}
    Stored = {v1, v2}
    MaxTxn = 3
    Strategy <- Mixed
    Isolation <- AllSnapshot
    GcThreshold = 2
    Calls = {"set", "delete", "abort"}
    MaxCalls = 2
    MaxWrites = 2
    Serialized = TRUE
SPECIFICATION ClientsSpec
CHECK_DEADLOCK FALSE
INVARIANTS
    AbortLeavesNoData
    NoLockLeftBehind
PROPERTIES
    ImplementsSnapshotIsolation
