SPECIFICATION ChatSpec
CONSTANTS
    a1 = a1
    a2 = a2
    g1 = g1
    g2 = g2
    f = f
    d = d
    s1 = s1
    s2 = s2
    p = p
    q = q
    Answers = {a1, a2}
    Guarded = {g1, g2}
    Free = {f}
    Direct = {d}
    Slots = {s1, s2}
    MaxCards = 3
    LoopStmts = {p, q}
    MaxSteps = 7
    MaxRuns = 2
    Said <- SaidSamples
    MaxTurns = 2
    MaxDeltas = 1
    MaxIgnored = 1
    SsFields <- ScanFields
    SsLevels = {"L1", "L4"}
    SsEdits = 2
    SsSaid = {"L1"}
    SsGuesses = {"L4"}
    NoReport = NoReport
    MkColumns <- ColumnSamples
    MkFroms <- FromSamples
    MkLists <- ListSamples
    MkReports <- ReportSamples
    MkConfigs <- ConfigSamples
    MkResults <- ResultSamples
    MkDefault = "s"
    MkExtra = "d"
    NoAlias = "none"
INVARIANTS ChatTypeOK ApprovalsSafe ModelsSafe MaskingSafe StreamsSafe
PROPERTY ChatSettles
CHECK_DEADLOCK FALSE
