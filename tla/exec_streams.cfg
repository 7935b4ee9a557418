SPECIFICATION Spec
CONSTANTS
    Calls = {u}
    Conns = {c1}
    NoConn = NoConn
    MaxAttempts = 1
CHECK_DEADLOCK FALSE
INVARIANTS
    FailedStreamsCleaned
