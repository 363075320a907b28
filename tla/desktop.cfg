SPECIFICATION DesktopSpec
CONSTANTS
    Nobody = Nobody
    g1 = g1
    h1 = h1
    h2 = h2
    Headless = {h1, h2}
    Gui = {g1}
    Legacy = {h2}
    Unix = FALSE
    Crashable = {h1, g1}
    n1 = n1
    n2 = n2
    PgRows = {1, 2, 3, 4}
    PgMax = 3
    PgSizes = {0, 1, 2}
    PgLimits = {0, 2}
    PgChanges = 1
    PgNodes = {n1, n2}
    PgSlots <- Slots12
    d1 = d1
    d2 = d2
    c1 = c1
    c2 = c2
    DsIds = {d1, d2}
    DsClients = {c1, c2}
    DsLimit = 1
    s1 = s1
    s2 = s2
    CsUrls = {"u", "v"}
    CsListings <- PortalListings
    CsInterval = 1
    CsLifetime = 2
    CsEnd = 4
    CsSources = {s1, s2}
    CsUsers <- CloudflareUsers
    CsTokens = 1
    w1 = w1
    w2 = w2
    RuleIds = {1, 2}
    ShippedIds = {"rule", "probe"}
    Settings = {"shipped", "set"}
    Shipped = "shipped"
    RuleCalls = {w1, w2}
    GivenCodes = {2}
    RuleChanges = 2
    NoRule = NoRule
    ByHand = ByHand
    UserRules <- RiskUserRules
    NoUserRule = NoUserRule
    RuleSwaps = 1
    a1 = a1
    b1 = b1
    p1 = p1
    LeProcs = {a1, b1, p1}
    LeKind <- KeyProcesses
    LeSaves = 1
    LeFaults = 1
    NoKey = NoKey
    Unlocked = Unlocked
SYMMETRY Alike
INVARIANTS PagingSafe KeysSafe CloudSafe StoresSafe AssessSafe
PROPERTY LeaseSpec
CHECK_DEADLOCK FALSE
