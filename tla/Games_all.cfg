CONSTANTS
    ann = ann
    bob = bob
    tetris = tetris
    zelda = zelda
    People = {ann, bob}
    Games = {tetris, zelda}
    None = None
    Nobody = Nobody
    MaxJobs = 2
    MaxEvents = 3
    MaxChanges = 1
    MaxSaves = 1
    MaxFills = 2
    MaxRestarts = 1
SPECIFICATION GamesSpec
SYMMETRY Symmetry
INVARIANTS Types FailedIsNoPromise
PROPERTIES KeptCopyStays OneCopy GoneToEveryone TriedFirst
CHECK_DEADLOCK FALSE
