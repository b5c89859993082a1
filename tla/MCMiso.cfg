SPECIFICATION FairSpec
CONSTANTS
    N = 8
    Laps = 8
    Producers = {p1, p2}
    Needs = {3, 5, 8}
    Start = 62
    MaxCalls = 3
    MaxCrashes = 1
    NoCache = NoCache
INVARIANTS ReservationsSound ChunksFound
PROPERTIES RecoveryExact Progress
