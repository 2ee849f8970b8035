SPECIFICATION ItemsSpec
CONSTANTS
    Byte <- MCByte
    Junk = {0}
    Bases <- MCBases
    MaxSize = 63
    MaxBuf = 3
    Payload = 2
    W32 = 3
    W64 = 5
    MaxItems = 2
    BareBytes = {0, 1}
    BareSize = 4
CHECK_DEADLOCK FALSE
INVARIANTS
    ChunksConsistent
    OverrunIsRestOfChunk
    CrashesOnlyAtEnds
    ItemsReadBack
PROPERTIES
    EveryCallEnds
    ImplementsByteSeq
