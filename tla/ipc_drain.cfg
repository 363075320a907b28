SPECIFICATION Spec
CONSTANTS
    Nobody = Nobody
    c1 = c1
    Callers = {c1}
    MaxConns = 2
    MaxDaemons = 2
INVARIANT RunsOnceUnlessFaulted
CHECK_DEADLOCK FALSE
