SPECIFICATION Spec
CONSTANTS
    Nobody = Nobody
    g1 = g1
    h1 = h1
    h2 = h2
    Headless = {h1, h2}
    Gui = {g1}
    Legacy = {}
    Unix = FALSE
    Crashable = {}
INVARIANT ServingIsPublished
CHECK_DEADLOCK FALSE
