SPECIFICATION FairSpec
CONSTANTS
    RegisterRetryMax = 3
    KeepaliveMissMax = 3
    RegisterTimeout = 3
    InviteTimeout = 3
    ByeTimeout = 3
    BackoffBase = 1
    BackoffMax = 4
    KeepaliveInterval = 2
    InviteAfter = 1
    StreamingHold = 3
    FrameInterval = 1
    BuiltinFrames = 2
    InviteCyclesMax = 2
    MediaFile = TRUE
    UseTcp = FALSE
    Faults = {"open", "send", "recv", "rtp", "file"}
    Inbound <- MCInbound
    PromptLoop = FALSE
    MaxCycles = 2
    MaxLost = 2
INVARIANTS
    TypeOK
    NoTimerIsMissed
    SocketFollowsState
    StreamingOwnsThePort
    StopsOnlyWhenDone
PROPERTIES
    BackoffOnlyResetByRegistration
    NoStateIsForEver
