------------------------------ MODULE MCQueues ------------------------------
(***************************************************************************)
(* Small instances of five parts that share nothing: the upload queue with *)
(* two people's saves, the same queue with one person's states, the saves  *)
(* of an emulator run as a program, going back in a game, and the players. *)
(* A behaviour is of one of them, the part; the others stand still.        *)
(***************************************************************************)
EXTENDS UploadQueue, TLC

CONSTANTS
    ann, bob, cat, dan, sav, st1,
    Nobody, Torn, Nothing, MaxMade, MaxFaults,   \* DriveSaves
    Games, Discs, d1, None, Keep, MaxClock, MaxTurns,   \* Rewind
    Own, Streamed, Keyless, Seats   \* Pads

VARIABLES
    part,
    drvKind, drvMe, drvKnown, drvDrive, drvNote, drvPlugged, drvFolder, drvFolderNote,
    drvZip, drvOwed, drvRomm, drvPc, drvTask, drvBase, drvFetched, drvStale, drvMade,
    drvJob, drvLoose, drvFaults, drvLapsed, drvMixed,
    rewChange, rewGame, rewClock, rewPast, rewDisc, rewInserting, rewSnaps,
    rewGeneration, rewPending, rewSaved, rewLoading, rewTurns, rewLate, rewSwapped,
    padOn, padSeats, padInGame, padStreaming, padAsk, padHad

drvVars == <<drvKind, drvMe, drvKnown, drvDrive, drvNote, drvPlugged, drvFolder,
             drvFolderNote, drvZip, drvOwed, drvRomm, drvPc, drvTask, drvBase,
             drvFetched, drvStale, drvJob, drvLoose, drvMade, drvFaults, drvLapsed,
             drvMixed>>
rewVars == <<rewChange, rewGame, rewClock, rewPast, rewDisc, rewInserting, rewSnaps,
             rewGeneration, rewPending, rewSaved, rewLoading, rewTurns, rewLate,
             rewSwapped>>
padVars == <<padOn, padSeats, padInGame, padStreaming, padAsk, padHad>>

Drive == INSTANCE DriveSavesProofs WITH
    People <- {cat, dan},
    kind <- drvKind, me <- drvMe, known <- drvKnown, drive <- drvDrive, driveNote <-
    drvNote, plugged <- drvPlugged, folder <- drvFolder, folderNote <- drvFolderNote,
    zip <- drvZip, owed <- drvOwed, romm <- drvRomm, pc <- drvPc, task <- drvTask, base
    <- drvBase, fetched <- drvFetched, stale <- drvStale, job <- drvJob, loose <-
    drvLoose, made <- drvMade, faults <- drvFaults, lapsed <- drvLapsed, mixed <- drvMixed

Back == INSTANCE Rewind WITH
    change <- rewChange, game <- rewGame, clock <- rewClock, past <- rewPast, disc <-
    rewDisc, inserting <- rewInserting, snaps <- rewSnaps, generation <- rewGeneration,
    pending <- rewPending, saved <- rewSaved, loading <- rewLoading, turns <- rewTurns,
    late <- rewLate, swapped <- rewSwapped

Pad == INSTANCE Pads WITH
    on <- padOn, seats <- padSeats, inGame <- padInGame, streaming <- padStreaming, ask
    <- padAsk, had <- padHad

\* What the proofs about these three assume of their constants.
ASSUME DriveNumbers == Drive!DriveAssumption
ASSUME RewindNumbers == Back!RewindAssumption
ASSUME PadNumbers == Pad!PadsAssumption

Symmetry == Permutations({ann, bob}) \cup Permutations({cat, dan})

\* The bounds of each part in the queue: the saves of two people, with RomM up
\* or away from the start; or one person's states and a single run.
PeopleBounds ==
    /\ outages' = 0
    /\ \A p \in People, s \in States : made'[p][s] = 0 /\ server'[p][s] = 0
StatesBounds ==
    /\ current' = current /\ ~stopping' /\ runs' = 1
    /\ \A p \in People, i \in Saves : made'[p][i] = 0

\* Of the saves of an emulator: the disk commits everything between two games
\* and what came off the drive before a game is put together; a drive is taken
\* away, and a person removed, only with a note on the drive; what
\* fails after something has, or is cut off, is in what a start, a launch or a
\* game's end does.
DriveBounds ==
    /\ drvFaults > 0 /\ drvFaults' > drvFaults => drvPc \notin {"idle", "run"}
    /\ drvPc' \in {"idle", "restore"} => drvLoose' = Drive!Committed
    /\ drvPc' \in {"starting", "run"} => drvLoose'.copies = {}
    /\ ~drvPlugged' \/ drvKnown' # drvKnown => drvNote' # Nobody

QueuesInit ==
    /\ part \in {"people", "states", "drive", "rewind", "pads"}
    /\ Init /\ (part # "people" => up)
    /\ {job.who, fjob.who} = {current}
    /\ {job.item, fjob.item} = {IF part = "states" THEN st1 ELSE sav}
    /\ Drive!Init /\ (part # "drive" => drvKind = "drive")
    /\ Back!Init /\ (part # "rewind" => rewChange = "insert" /\ rewDisc = d1)
    /\ Pad!Init

QueuesNext ==
    /\ UNCHANGED part
    /\ \/ /\ part \in {"people", "states"} /\ Next
          /\ part = "people" => PeopleBounds
          /\ part = "states" => StatesBounds
          /\ UNCHANGED <<drvVars, rewVars, padVars>>
       \/ part = "drive" /\ Drive!Next /\ DriveBounds /\ UNCHANGED <<vars, rewVars, padVars>>
       \/ part = "rewind" /\ Back!Next /\ UNCHANGED <<vars, drvVars, padVars>>
       \/ part = "pads" /\ Pad!Next /\ UNCHANGED <<vars, drvVars, rewVars>>

QueuesSpec == QueuesInit /\ [][QueuesNext]_<<part, vars, drvVars, rewVars, padVars>>

-----------------------------------------------------------------------------
(* The properties of the other parts, by the names that go with            *)
(* UploadQueue's own; each is stated and explained in its module.          *)

\* Every variable of every part holds what its declaration says.
Types ==
    /\ TypeOK
    /\ part = "drive" => Drive!TypeOK
    /\ part = "rewind" => Back!TypeOK
    /\ part = "pads" => Pad!TypeOK

\* Whoever made a save has it somewhere that is looked at.
Accounted == Drive!Accounted

\* What goes up is one save, never a mixture.
WholeGoesUp == Drive!WholeGoesUp

\* A step back goes to where this machine has been, with its disc in.
RewindsBack == Back!RewindsBack

\* In a game nobody's number changes, and it is theirs when they are back.
NumbersHold == Pad!NumbersHold
=============================================================================
