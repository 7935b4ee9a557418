SPECIFICATION FairSpec
CONSTANTS
    N = 2
    Calls = {u, v}
    MaxAttempts = 2
CHECK_DEADLOCK FALSE
INVARIANTS
    QueuesFirst
    NoWorkerLost
    CleanEnd
PROPERTIES
    GracefulStop
    CallsAnswered
