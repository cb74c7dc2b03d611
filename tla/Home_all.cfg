CONSTANTS
    Games = {tetris}
    Minute = 2
    Unwatched = 3
    Batch = 1
    MaxSessions = 2
    MaxPlay = 4
    MaxRuns = 2
    Ids <- ThreeIds
    Titles <- ThreeTitles
    MaxPresses = 2
    MaxElsewhere = 1
    MaxCuts = 1
    ann = ann
    bob = bob
    cat = cat
    Nobody = Nobody
    MaxSaves = 2
    MaxPairings = 1
    MaxAccountPresses = 3
    Writers = {frame, worker}
    Blocks = 2
    MaxWrites = 3
    MaxFileFaults = 2
SPECIFICATION HomeSpec
INVARIANTS Types NoneLost EndsOnce CutLosesAMinute KnownExact
INVARIANTS OwedIsShown RommHeardLast ListShowsLast
INVARIANTS LoginsStand FoldersListed SignedOutIsEmpty RemoveAsks
PROPERTIES OrderKept WritesAtOnce
SYMMETRY Symmetry
CHECK_DEADLOCK FALSE
