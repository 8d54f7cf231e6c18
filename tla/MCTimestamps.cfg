CONSTANTS
    Threads = {t1, t2}
    TXN_ID_START = 5
    StartTs = 1
    t1 = t1
    t2 = t2
SPECIFICATION FairSpec
INVARIANTS
    DomainsDisjoint
PROPERTIES
    FreshTimestamps
    NextReturns
