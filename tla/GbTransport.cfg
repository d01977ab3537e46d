SPECIFICATION Spec
CONSTANTS
    Base = 2
    BufSize = 6
    Payloads <- MCPayloads
    MaxPackets = 3
    MaxConns = 2
    Overlap = FALSE
INVARIANTS
    TransportTypeOK
    BufferHasRoom
    LossIsReal
    PortIsHeldBySession
PROPERTIES
    FramingImplementsQueue
    EverythingIsRead
    OnlyStopForgetsConnections
