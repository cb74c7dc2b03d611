CONSTANTS
    People = {ann}
    Saves = {sav}
    States = {st1, st2}
    Foreign = {}
    Lists = {fav}
    Parkable = {fav}
    Kept = 1
    MaxVer = 1
    MaxRuns = 2
    MaxOutages = 1
SPECIFICATION SentSpec
PROPERTIES OwedIsSent DrainEnds
