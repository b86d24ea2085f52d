SPECIFICATION FairSpec
CONSTANTS
    Port = {1, 2}
    MaxSock = 2
    Fd = {1, 2}
    Server = {s1, s2}
    Wait = {3, 7}
    Buffer = 2
    None = None
INVARIANTS
    TypeOK
    SocketsAccounted
    AnswerFromAskedPort
PROPERTIES
    TimedWaitEnds
\* a send_recv on a socket made by broadcast_send blocks for ever when its requests are lost
CHECK_DEADLOCK FALSE
