CONSTANTS
    ann = ann
    bob = bob
    tetris = tetris
    zelda = zelda
    People = {ann, bob}
    Games = {tetris, zelda}
    Programs = {zelda}
    None = None
    MaxPresses = 4
SPECIFICATION Spec
INVARIANTS TypeOK AsksGoWithTheirLaunch CurtainHasAnOwner OneGame
PROPERTY ScreenComesBack
CHECK_DEADLOCK FALSE
