CONSTANTS
    v1 = v1
    v2 = v2
    e1 = e1
    TXN_ID_START = 100
    Src <- SrcV1
    Dst <- DstV2
    Props = {1}
    Vertices = {v1, v2}
    Edges = {e1}
    Stored = {v1, v2}
    MaxTxn = 3
    Strategy <- Mixed
    Isolation <- AllSerializable
    GcThreshold = 9
    Calls = {"set", "delete", "abort"}
    MaxCalls = 2
    MaxWrites = 2
    Serialized = FALSE
SPECIFICATION ThreadsSpec
CHECK_DEADLOCK FALSE
INVARIANTS
    NoDanglingEdge
    SerializableReads
    VersionsOrdered
    WriterHoldsLock
    NoDirtyRead
