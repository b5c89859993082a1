SPECIFICATION Spec
CONSTANTS
    Formats = {f1, f2}
    Threads = {t1}
    Configs <- MCConfigs
    Cap = 3
    MaxFile = 9
    MaxEntries = 3
    MaxFull = 1
    MaxErrors = 1
    MaxEnds = 1
    MaxTrouble = 2
INVARIANTS FilesDecode TopologyValid 
CHECK_DEADLOCK FALSE
SYMMETRY Alike
