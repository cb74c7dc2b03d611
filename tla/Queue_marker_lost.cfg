CONSTANTS
    People = {ann}
    Saves = {sav}
    States = {}
    Foreign = {}
    Lists = {}
    Parkable = {}
    Kept = 1
    MaxVer = 2
    MaxRuns = 1
    MaxOutages = 1
SPECIFICATION Spec
INVARIANT NothingForgotten
