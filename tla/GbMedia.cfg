SPECIFICATION MediaSpec
CONSTANTS
    SeqModulus = 32
    Window = 2
    MaxFragments = 3
    BufferSize = 6
    Bytes <- MCBytes
    FuHeader <- MCFuHeader
    FuLike <- MCFuLike
    KeptBits <- MCKept
    NaluTypes <- MCTypes
    FirstSeq = 30
    MaxPayload = 4
    SendFails = TRUE
    Stream <- MCStream
    Networks = {"fifo", "lossy", "repeat", "shuffle", "any"}
    MaxInFlight = 3
    MaxRepeats = 1
INVARIANTS
    MediaTypeOK
    OnlyWholeNalus
    LossIsIsolated
    InOrder
PROPERTY
    MediaImplementsFile
