CONSTANTS
    None = None
    Ids = {a}
    Named = {a}
    NumObjects = 2
    Requests = {q1, q2}
    Limit = 0
    Lru = TRUE
SPECIFICATION FairSpec
INVARIANT RunningClientIsHeld
CHECK_DEADLOCK FALSE
