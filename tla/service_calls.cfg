SPECIFICATION FairSpec
CONSTANTS
    Calls = {u, v}
    Conns = {c1}
    NoConn = NoConn
    NoInfo = NoInfo
    TTL = 1
    MaxTime = 1
    Stray = TRUE
CHECK_DEADLOCK FALSE
INVARIANTS
    OneAtATime
    FitsHost
    CancelHeeded
PROPERTIES
    ControlEnds
