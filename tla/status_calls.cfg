SPECIFICATION FairSpec
CONSTANTS
    Calls = {u, v}
    Conns = {c1, c2}
    NoConn = NoConn
    NoEntry = NoEntry
    Metrics = {"cpu", "memory", "disk", "process", "system"}
    TTL = 1
    MaxTime = 2
CHECK_DEADLOCK FALSE
INVARIANTS
    ProbesHold
    AnswersFit
PROPERTIES
    CancelHeeded
    StatusEnds
