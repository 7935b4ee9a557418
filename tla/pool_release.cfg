SPECIFICATION Spec
CONSTANTS
    Conns = {c1}
    Users = {u1}
    Sockets = {s1, s2}
    NoConn = NoConn
    NoSock = NoSock
    MaxAttempts = 1
    SlowInit = FALSE
    CancelRelease = FALSE
PROPERTIES
    ReleasedIsReady
