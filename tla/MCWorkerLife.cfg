SPECIFICATION FairSpec
CONSTANTS
    Logs = {a, i}
    Async = {a}
    Blocking = {a, i}
    Producers = {p1}
    Flushers = {f}
    Stoppers = {u1}
    Pub = pub
    None = None
    Cap = 1
    MaxWrites = 2
    MaxFlushes = 1
    MaxKills = 1
CHECK_DEADLOCK FALSE
INVARIANTS SingleConsumer NotifyComing WorkersSound
PROPERTIES NobodyStuck
