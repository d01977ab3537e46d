SPECIFICATION Spec
CONSTANTS
    Networks = {"in time"}
    MaxLost = 0
    MaxRuns = 1
INVARIANT
    WholeScript
CHECK_DEADLOCK FALSE
