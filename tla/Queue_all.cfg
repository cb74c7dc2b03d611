CONSTANTS
    ann = ann
    bob = bob
    cat = cat
    dan = dan
    sav = sav
    st1 = st1
    People = {ann, bob}
    Saves = {sav}
    States = {st1, st2, tv}
    Foreign = {tv}
    Lists = {}
    Parkable = {}
    Kept = 1
    MaxVer = 2
    MaxRuns = 2
    MaxOutages = 1
    Nobody = Nobody
    Torn = Torn
    Nothing = Nothing
    MaxMade = 2
    MaxFaults = 2
    Games = {g1, g2}
    d1 = d1
    Discs = {d1, d2}
    None = None
    Keep = 2
    MaxClock = 3
    MaxTurns = 2
    Own = {p1, p2, p3, p4}
    Streamed = {v1}
    Keyless = {p4}
    Seats = 3
SPECIFICATION QueuesSpec
SYMMETRY Symmetry
INVARIANTS
    Types SentAsOwner OwedKnown IndInv  WholeGoesUp
PROPERTIES LedgerKept RotationKeeps RewindsBack NumbersHold
