SPECIFICATION Spec
CONSTANTS
    Nobody = Nobody
    NoPath = NoPath
    NoKey = NoKey
    p1 = p1
    p2 = p2
    k0 = k0
    k1 = k1
    k2 = k2
    skill = skill
    mcp = mcp
    Procs = {p1, p2}
    Crashable = {p1, p2}
    Portable = FALSE
    Keys = {k0, k1, k2}
    AgentTypes = {"claude"}
    Paths = {skill, mcp}
    TypeOf <- OneAgent
    MaxCalls = 4
    FirstRows <- LegacyRow
    FirstConfig <- SharedKey
INVARIANTS TypeOK RevocationSticks InstallsKnown
PROPERTY TableSpec
SYMMETRY Alike
CHECK_DEADLOCK FALSE
