SPECIFICATION FairSpec
CONSTANTS
    Nobody = Nobody
    g1 = g1
    h1 = h1
    h2 = h2
    Headless = {h1, h2}
    Gui = {g1}
    Legacy = {h2}
    Unix = TRUE
    Crashable = {h1}
INVARIANTS TypeOK StartsClean
PROPERTIES ShutdownCompletes HandoffSettles
CHECK_DEADLOCK FALSE
