CONSTANTS
    Callers = {r1}
    Sessions = {s, t}
    None = None
SPECIFICATION Spec
INVARIANTS
    TurnsAreOwned
    
    
    
CHECK_DEADLOCK FALSE
