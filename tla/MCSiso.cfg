SPECIFICATION Spec
CONSTANTS
    N = 4
    Laps = 2
    Sizes = {0, 1, 2, 3}
    Payload = {p1, p2}
    Junk = Junk
    None = None
INVARIANTS
    CursorOrder
    ChunkChain
    NoClobber
PROPERTY
    IsFifo
