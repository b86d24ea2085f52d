SPECIFICATION Spec
CONSTANTS
    Byte = {0, 37, 90, 219, 255}
    Char = {"A", "l", "/", "=", "*"}
    MaxByte = 4
    MaxChar = 5
    MaxBuff = 9
    NULL = NULL
    Keys <- MCKeys
    Iv0 <- MCIv
    Messages <- MCMessages
    Support = 32
    init_data = 8
    MaxBlocks = 3
    MaxCalls = 3
INVARIANTS
    EncodesAsDefined
    DecodesAsDefined
    RoundTrip
    EncryptsAsDefined
    DecryptsBack
    MessageComesBack
\* a program that has only decoded or encoded is over
CHECK_DEADLOCK FALSE
