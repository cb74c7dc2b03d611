CONSTANTS
    Games = {g1, g2}
    Discs = {d1, d2}
    None = None
    Keep = 2
    MaxClock = 3
    MaxTurns = 3
SPECIFICATION Spec
INVARIANT StateOfThisGame
