SPECIFICATION FairSpec
CONSTANTS
    a = a
    b = b
    Pin = {a, b}
    NoPin = NoPin
    NoFd = NoFd
    RawFd = RawFd
    MaxWatch = 2
    Requests <- MCRequests
    MaxStart = 2
INVARIANTS
    ReportIsNews
    NoEdgeLost
PROPERTIES
    ChangeIsTold
