SPECIFICATION FairSpec
CONSTANTS
    Thread = {t1, t2}
    Node = {n1, n2}
    Data = {d1, d2}
    NULL = NULL
INVARIANTS
    TypeOK
    NoDanglingAccess
    QuietListIsQueue
    NoDoubleFree
PROPERTIES
    ImplementsQueue
    MutexIsReleased
