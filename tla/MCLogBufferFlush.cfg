SPECIFICATION Spec
CONSTANTS
    Threads = {p1, p2}
    LpCap = 2
    HpCap = 2
    OsCap = 1
    Blocks = 2
    Versions = 8
    FirstVersion = 7
    MaxWrites = 2
    MaxBig = 0
    MaxRare = 0
    MaxTrouble = 0
    MaxCrashes = 0
CHECK_DEADLOCK FALSE
INVARIANTS FlushReadsAll
