CONSTANTS
    Writers = {"frame", "worker"}
    Blocks = 2
    Together = TRUE
    MaxWrites = 3
    MaxFaults = 2
SPECIFICATION Spec
PROPERTY WritesAtOnce
CHECK_DEADLOCK FALSE
