CONSTANTS
    a = a
    b = b
    MaxTxn = 3
    Keys = {a, b}
    Vals = {"x", "y"}
    Stored = {a}
    TXN_ID_START = 100
    wal_threshold = 4
    MaxWrites = 2
    MaxCrashes = 2
    Overlap = FALSE
    BlindWrites = FALSE
SPECIFICATION Spec
CHECK_DEADLOCK FALSE
INVARIANTS
    CrashSafe
    MemoryIsLogged
    LsnsFresh
