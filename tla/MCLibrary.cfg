SPECIFICATION Spec
CONSTANTS
    Paths = {p1, p2}
    Inodes = {i1, i2, i3}
    Handles = {x1, x2}
    Modes <- MCModes
    SeqWidth = 8
    FirstSeq = 6
    Lengths = {1}
    CopyChunk = 1
    MaxCalls = 4
    MaxLeaks = 1
    MaxFaults = 1
    Bufs = {y1, y2}
    Sizes = {1, 3}
    Page = 2
    Keys = {1, 2, 5, 9}
    Rates = {1, 3}
    MaxMapCalls = 6
    CacheKeys = {1, 2, 3, 4}
    Hashes <- MCHashes
    MinCapacity = 2
    MaxSizes = {2, 3}
    Divisor = 2
    MaxCacheCalls = 6
    MaxNoMemory = 1
    ByteBits = 4
    WordBytes = {1, 2, 4}
    Arguments <- MCArguments
    MaxArgs = 2
    FormatSizes = {0, 5}
    NameSizes = {0, 16}
    OffsetSizes = {1, 6}
    IndexSizes = {1, 4}
    Outputs = {y1, y2}
    Threads = {x1, x2}
    Names = {"a", "b"}
    Epochs = {1, 2}
    ZoneConfigs = {"absent", "bad", "UTC0"}
    FormatChars = {"c", "{", "}"}
    MaxFormat = 5
    ScanLimit = 3
    FieldArgs <- MCFieldArgs
    MaxLines = 3
    MaxResets = 2
    Loggers = {x1, x2}
    Fetchers = {y1, y2}
    MaxLogged = 2
    MaxNotes = 1
    MaxSwitches = 2
    MaxCallbacks = 2
    MaxRefused = 1
INVARIANTS HandlesExact FileExclusive TablesFind FormatsReadBack LayoutExact ConsoleExact
PROPERTY ResizeKeeps
SYMMETRY Symmetry
CHECK_DEADLOCK FALSE
