\* Two anonymous runs on a pool of one uid, and a gateway that dies once.  Two
\* gateways and two users, two moves of the operator, two starts of the
\* container.  Three threads in two processes that save settings.  Three admin
\* calls on the environment, two on the overlays; three texts of two prompts.
CONSTANTS
    Runs = {a, b}
    NumUids = 1
    Backoff = 1
    MaxFail = 2
    MaxCrash = 1
    Parties = {p, q}
    Members = {k, l}
    MaxUid = 4
    Reserved = {2}
    Bands <- MCBands
    Anon = anonymous
    MaxMove = 2
    SessionUids = {1, 2}
    MaxStart = 2
    Savers = {"b1", "b2", "g"}
    ProcOf <- MCProcOf
    Known <- MCKnown
    Settings = {"k", "n"}
    Values = {1}
    MaxWrite = 2
    MaxAdmin = 3
    MaxEdit = 2
    Servers = {m, n}
    MaxText = 3
    MaxFault = 1
    Versions = {t1, t2, t3}
    None = None
SPECIFICATION Spec
INVARIANTS
    UidsAreApart
    
    
    FilesAreKept
    TreesAreWhole
    StoresKeepUpdates
 
CHECK_DEADLOCK FALSE
