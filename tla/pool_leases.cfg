SPECIFICATION Spec
CONSTANTS
    Conns = {c1, c2}
    Users = {u1, u2}
    Sockets = {s1, s2, s3}
    NoConn = NoConn
    NoSock = NoSock
    MaxAttempts = 2
    SlowInit = TRUE
    CancelRelease = TRUE
SYMMETRY Symmetry
INVARIANTS
    ExclusiveLease
    LeaseIntact
    PoolKeepsOff
    NotStranded
    ShutdownIsFinal
PROPERTIES
    ImplementsLeases
