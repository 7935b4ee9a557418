SPECIFICATION FairSpec
CONSTANTS
    Calls = {u, v}
    Conns = {c1, c2}
    NoConn = NoConn
    MaxAttempts = 2
CHECK_DEADLOCK FALSE
INVARIANTS
    LeaseWhileRunning
    StartsBounded
    JobTruth
PROPERTIES
    JobStatusFinal
    TimeoutsHold
