SPECIFICATION Spec
CONSTANTS
    Networks = {"in time", "late"}
    MaxLost = 3
    MaxRuns = 2
INVARIANTS
    ClientTypeOK
    TalksOnlyRegistered
    EndedCallIsOver
PROPERTIES
    CallIsAccepted
    ProgramEnds
CHECK_DEADLOCK FALSE
