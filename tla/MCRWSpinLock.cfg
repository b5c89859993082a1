SPECIFICATION FairSpec
CONSTANTS
    Threads = {t1, t2, t3, t4}
    Triers = {t3, t4}
    Mark = 8
INVARIANTS Exclusion CounterExact
PROPERTIES UnlockReturns
