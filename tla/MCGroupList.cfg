SPECIFICATION FairSpec
CONSTANTS
    Producers = {p1, p2}
    Reader = r
    B = 2
    Marks = 64
    MaxGroups = 3
    MaxAllocs = 3
    MaxCrashes = 1
    AllocsAfter = 1
INVARIANTS ListsSound
PROPERTIES UnreadSurvives AllocReturns
