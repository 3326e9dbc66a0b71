\* A stream of three messages over two turns; a buffer and an outbox of two.
\* Three downloads where a user may have one and all two.  A CLI with three
\* jobs.  Three connections and three tickets.  Two CLIs of one user, in the
\* user's container or each in its own, and one failure of docker.
CONSTANTS
    MaxMsg = 3
    MaxTurn = 2
    MaxBuf = 2
    Keep = 2
    Requests = {r1, r2, r3}
    UserOf <- MCUserOf
    MaxTotal = 2
    MaxUser = 1
    Depth = 1
    Chunks = 2
    Jobs = {"j1", "j2", "j3"}
    Conns = {c1, c2, c3}
    Tickets = {"s", "w", "t"}
    OpOf <- MCOpOf
    ExpOf <- MCExpOf
    MaxTime = 2
    MaxPending = 2
    MaxParked = 1
    Spawns = {"s1", "s2"}
    MaxFault = 1
    None = None
SPECIFICATION Spec
INVARIANTS
    OutboxIsFaithful
    
    FailsClosed
PROPERTIES
    WatchersAreFreed
    
CHECK_DEADLOCK FALSE
