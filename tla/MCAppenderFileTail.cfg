SPECIFICATION Spec
CONSTANTS
    Target = 4
    Small = 2
    MaxFile = 4
    Recovers = TRUE
    MaxEntries = 3
    MaxFull = 2
    MaxErrors = 0
    MaxEnds = 0
    MaxDays = 0
    MaxTrouble = 2
INVARIANTS StaysInCache
CHECK_DEADLOCK FALSE
