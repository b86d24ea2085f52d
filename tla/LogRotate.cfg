SPECIFICATION LogSpec
CONSTANTS
    Writer = {w1, w2}
    Hole = Hole
    NoLog = NoLog
    MaxSize = 2
    Chunk = 1
    RecLens = {1}
    MaxLeft = 1
INVARIANTS
    LoneCallAppends
    OldLogSurvives
PROPERTIES
    CallEnds
