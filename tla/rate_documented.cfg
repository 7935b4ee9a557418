SPECIFICATION Spec
CONSTANTS
    Period = 3
    Burst = 2
    MaxNow = 14
INVARIANTS
    DocumentedRate
