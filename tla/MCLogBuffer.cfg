SPECIFICATION Spec
CONSTANTS
    Threads = {p1, p2}
    LpCap = 2
    HpCap = 2
    OsCap = 1
    Blocks = 2
    Versions = 8
    FirstVersion = 7
    MaxWrites = 3
    MaxBig = 2
    MaxRare = 1
    MaxTrouble = 2
    MaxCrashes = 1
CHECK_DEADLOCK FALSE
INVARIANTS RecoveredAllRead EmptyMeansRead NothingTakenAway WalkEnds
PROPERTIES InOrder
