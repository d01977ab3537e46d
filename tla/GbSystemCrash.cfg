SPECIFICATION FairSysSpec
CONSTANTS
    RegisterRetryMax = 2
    KeepaliveMissMax = 2
    RegisterTimeout = 2
    InviteTimeout = 2
    ByeTimeout = 2
    BackoffBase = 1
    BackoffMax = 2
    KeepaliveInterval = 1
    InviteAfter = 4
    StreamingHold = 2
    FrameInterval = 1
    BuiltinFrames = 1
    InviteCyclesMax = 2
    MediaFile = FALSE
    UseTcp = FALSE
    Faults = {"rtp"}
    Inbound = {}
    PromptLoop = TRUE
    MaxCycles = 2
    MaxLost = 1
    Networks = {"perfect"}
    Crashes = 1
    MaxInFlight = 8
INVARIANTS
    SessionReleased
PROPERTIES
    DeadPlatformDetected
    ForgottenDeviceReturns
