SPECIFICATION ReadSpec
CONSTANTS
    Writers = {w1, w2}
    Readers = {r}
    Old = Old
    None = None
CHECK_DEADLOCK FALSE
INVARIANTS
    NoTempLeft
PROPERTIES
    SuccessTruth
    LoneWriteSafe
    ReadsWhole
