SPECIFICATION FairSpec
CONSTANTS
    MaxReconnects <- MCMaxReconnects
    Versions = {1, 2}
    TsMod = 6
    MaxDelta = 3
    Interval = 1
INVARIANTS
    RtmpTypeOK
    ConfigAndKeyFirst
    ContextOutlivesThread
PROPERTIES
    TimestampsAdvance
    GivesUpOnlyAfterRow
    StopReturns
    PushResumes
