SPECIFICATION FairSpec
CONSTANTS
    Nobody = Nobody
    c1 = c1
    c2 = c2
    Callers = {c1, c2}
    MaxConns = 3
    MaxDaemons = 2
INVARIANTS TypeOK AnswersOwned RunsOnceUnlessLost
PROPERTY CallsReturn
CHECK_DEADLOCK FALSE
