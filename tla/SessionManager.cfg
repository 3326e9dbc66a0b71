CONSTANTS
    None = None
    Ids = {a, b}
    Named = {a}
    NumObjects = 2
    Requests = {q1, q2}
    Limit = 1
    Lru = TRUE
SPECIFICATION FairSpec
INVARIANTS InUseIsHeld CliHasOwner HandedOffIsQuiet
PROPERTIES PinnedStays RemovedIsReleased
CHECK_DEADLOCK FALSE
