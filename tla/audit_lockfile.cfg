SPECIFICATION FairSpec
CONSTANTS
    Nobody = Nobody
    p1 = p1
    p2 = p2
    e1 = e1
    e2 = e2
    e3 = e3
    Procs = {p1, p2}
    Entries = {e1, e2, e3}
    LegacyRows <- NoLegacyRows
    Portable = TRUE
    Crashable = {p1, p2}
INVARIANTS ExclusiveUntilCrash ChainSound
PROPERTY AbandonedLockCleared
CHECK_DEADLOCK FALSE
