SPECIFICATION FilesSpec
CONSTANTS
    Nobody = Nobody
    p1 = p1
    p2 = p2
    e1 = e1
    e2 = e2
    e3 = e3
    t1 = t1
    t2 = t2
    Procs = {p1, p2}
    Entries = {e1, e2, e3}
    LegacyRows <- TwoLegacyRows
    Portable = FALSE
    Crashable = {p1, p2}
    ThreadTurns = {t1, t2}
    Recent = 1
    Limit = 2
    MaxBlocks = 1
    MaxEvents = 5
    Problems = {a1, a2, "c"}
    Sizes = {1, 3}
    Budget = 2
    MaxSaves = 4
    b1 = b1
    b2 = b2
    ScKeys = {a1, a2}
    ScCalls = {"c"}
    ScWorkers = {b1, b2}
    ScChanges = 1
    ScWrites = 2
    UkCategories = {a1, a2}
    UkDocuments = {b1, b2}
    UkSources = {"s", "t"}
    UkSealed = TRUE
    UkRooms = {1, 4}
    UkFaults = 1
    UkOps = 3
    D1Sources = {"s", "t"}
    D1Bases = {"a", "b", "c"}
    D1Bindings = {"x", "y"}
    MgRuns = 3
    MgCalls = {a1, a2}
    a1 = a1
    a2 = a2
    AuCalls = {a1, a2}
    AuTokens = 2
    AuLogins = 1
    AuDays = 2
    AuTrial = 1
SYMMETRY Alike
INVARIANTS TypeOK ChainSound AcknowledgedKept ThreadSafe MemorySafe KnowledgeSafe ProjectsSafe SignInSafe
PROPERTY LogSpec
CHECK_DEADLOCK FALSE
