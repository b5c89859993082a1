SPECIFICATION FairSpec
CONSTANTS
    Target = 4
    Small = 2
    MaxFile = 3
    Recovers = TRUE
    MaxEntries = 4
    MaxFull = 2
    MaxErrors = 1
    MaxEnds = 1
    MaxDays = 1
    MaxTrouble = 2
INVARIANTS NothingLost CacheBounded
PROPERTIES FullDiskPasses
CHECK_DEADLOCK FALSE
