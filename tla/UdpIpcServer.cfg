SPECIFICATION FairLoops
CONSTANTS
    Served = {gps, mem}
    MaxLoop = 2
    Loop = {l1, l2}
    NoPort = NoPort
    MayFail = TRUE
INVARIANTS
    LoopTypeOK
    UniquePort
    NoOverrun
PROPERTIES
    StoppedLoopEnds
