CONSTANTS
    None = None
    Gone = Gone
    Instances = {blue, green}
    Requests = {q1, q2}
SPECIFICATION FairSpec
INVARIANT TurnsAreExclusive
PROPERTIES KeepsOwnership DrainEmpties AnsweredUnlessLost
CHECK_DEADLOCK FALSE
