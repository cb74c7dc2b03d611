CONSTANTS
    ann = ann
    bob = bob
    tetris = tetris
    zelda = zelda
    People = {ann, bob}
    Games = {tetris, zelda}
    Programs = {zelda}
    None = None
    MaxPresses = 4
SPECIFICATION Spec
INVARIANT PlayersOwnSaves
CHECK_DEADLOCK FALSE
