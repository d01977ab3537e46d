SPECIFICATION MediaSpec
CONSTANTS
    SeqModulus = 32
    Window = 2
    MaxFragments = 4
    BufferSize = 9
    Bytes <- MCBytes
    FuHeader <- MCFuHeader
    FuLike <- MCFuLike
    KeptBits <- MCKept
    NaluTypes <- MCTypes
    FirstSeq = 30
    MaxPayload = 4
    SendFails = FALSE
    Stream <- MCTwoNalus
    Networks = {"gaps"}
    MaxInFlight = 3
    MaxRepeats = 1
INVARIANT GapIsIsolated
