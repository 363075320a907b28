SPECIFICATION LockSpec
CONSTANTS
    Nobody = Nobody
    p1 = p1
    p2 = p2
    p3 = p3
    Procs = {p1, p2, p3}
    Portable = TRUE
    Crashable = {p1, p2, p3}
INVARIANT OneHolder
