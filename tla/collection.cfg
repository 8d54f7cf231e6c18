CONSTANTS
    v1 = v1
    v2 = v2
    e1 = e1
    TXN_ID_START = 100
    Src <- SrcV1
    Dst <- DstV2
    Props = {1}
    Vertices = {v1, v2}
    Edges = {}
    Stored = {v1}
    MaxTxn = 3
    Strategy <- FirstPessimistic
    Isolation <- AllSnapshot
    GcThreshold = 2
    Calls = {"create", "set", "delete", "read", "abort"}
    MaxCalls = 2
    MaxWrites = 1
    Serialized = TRUE
SPECIFICATION Spec
CHECK_DEADLOCK FALSE
INVARIANTS
    TypeOK
    WatermarkSafe
    FirstCommitterWins
