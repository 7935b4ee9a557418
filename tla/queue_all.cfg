SPECIFICATION FairSpec
CONSTANTS
    Cmds = {a, b, c}
    Priorities = {2, 4}
    MaxAttempts = 2
    MaxResults = 2
    None = None
CHECK_DEADLOCK FALSE
INVARIANTS
    OnePlace
    Overtaken
    RunsBounded
PROPERTIES
    ImplementsQueue
    ClientsAnswered
