SPECIFICATION FairSpec
CONSTANTS
    Conns = {c1}
    Users = {u1, u2}
    Sockets = {s1, s2, s3}
    NoConn = NoConn
    NoSock = NoSock
    MaxAttempts = 2
    SlowInit = FALSE
    CancelRelease = FALSE
INVARIANTS
    BusyAccounted
    AllLinked
PROPERTIES
    Recovers
    GetAnswered
    ShutdownEnds
