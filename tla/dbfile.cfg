CONSTANTS
    c1 = c1
    c2 = c2
    none = none
    Snapshots = {c1, c2}
    NoSnapshot = none
    Size <- SizeC
    MaxLsn = 5
    MaxBlock = 4
    CrashIn = {"idle", "append"}
SPECIFICATION Spec
CHECK_DEADLOCK FALSE
INVARIANTS
    HeaderNeverAhead
PROPERTIES
    ImplementsDurableLog
