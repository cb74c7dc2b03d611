----------------------------- MODULE DriveSaves -----------------------------
(***************************************************************************)
(* The saves of a game whose emulator is a program of its own, around a    *)
(* power cut: startStandalone and finishStandalone (standalone_play.cpp),  *)
(* recoverPowerCutSaves and recoverDriveSaves (startup.cpp), syncDirSave   *)
(* and finishInterruptedSave (saves.cpp), and the notes of beforeStart,    *)
(* afterEnd and finished (standalone.cpp, standalone_xemu.cpp).            *)
(*                                                                         *)
(* One game. Its saves are written on the Xbox's drive in the game's       *)
(* folder, with a note there, or straight into the person's folder, with   *)
(* one in that. A save is the number of the game's save that it holds; a   *)
(* folder or a drive half written holds Torn.                              *)
(***************************************************************************)
EXTENDS Naturals

CONSTANTS
    People,
    Nobody,
    Torn,       \* a mixture of two saves
    Nothing,    \* no baseline: everything has changed
    MaxMade,    \* bound: saves made in all
    MaxFaults   \* bound: power cuts, and copies, zips, notes and markers that fail

\* A save's number is no mixture of two, and no baseline is no save.
DriveAssumption ==
    /\ Nobody \notin People
    /\ MaxMade \in Nat
    /\ Torn \notin Nat /\ Nothing \notin Nat \cup {Torn}

VARIABLES
    kind,       \* where the emulator writes: "drive" or "folder"
    me, known,  \* who is signed in; whose folders are here
    drive,      \* whose save the drive holds, and which
    driveNote,  \* whom its note names
    plugged,    \* the drive the game is on
    folder,     \* each person's folder of the game
    folderNote, \* the note in it
    zip, owed,  \* the zip beside it, and its marker
    romm,       \* what RomM has of each person's
    pc, task,   \* where the frame thread is, and what for
    base,       \* what the folder held when its changes began to count
    fetched, stale, \* the launch's fetch, or 0, and that an upload has landed since
    job,        \* what is queued of this person's with no marker, or 0
    loose,      \* what the disk has not committed: copies in whose folder, whose
                \* notes there, and of the drive its saves and its note
    made, faults, \* the newest save of each person; bounds the model
    \* history
    lapsed,     \* whose newest save is where nothing says it is owed
    mixed       \* whose folder was left half copied or half unpacked

game  == <<kind, made>>
place == <<drive, driveNote, plugged>>
own   == <<folder, folderNote, zip, owed>>
frame == <<pc, task, base>>
memory == <<fetched, stale, job, loose>>   \* what a power cut takes
history == <<lapsed, mixed>>
vars  == <<game, me, known, place, own, romm, frame, memory, faults, history>>

Of(p, v) == [of |-> p, ver |-> v]
Blank    == Of(Nobody, 0)

Go(to) == pc' = to /\ UNCHANGED <<task, base>>

Committed == [copies |-> {}, notes |-> {}, drive |-> {}]
Loose(what, of) == loose' = [loose EXCEPT ![what] = @ \cup {of}]

\* Where each of the two recoveries goes on: the start of the console looks at
\* the drive first, a launch at its person's own folder.
AfterDrive == IF task = "launch" THEN "restore" ELSE "interrupted"
AfterNote  == IF task = "launch" THEN "drive" ELSE "idle"

\* syncDirSave was finishInterruptedSave's or the end of a game's: the note goes.
AfterSync == IF task = "end" \/ base = Nothing THEN "unmark" ELSE AfterDrive

-----------------------------------------------------------------------------
(* recoverDriveSaves. *)

\* Their note first, then their saves.
MarksTheirs(p) == folderNote' = [folderNote EXCEPT ![p] = TRUE]

\* A note of anybody, on the console still or not.
HasFolder_Anybody(p) == p # Nobody

HasFolder(p) == p \in known

RecoverDrive ==
    /\ pc = "drive"
    /\ \/ /\ driveNote = Nobody \/ ~plugged
          /\ Go(AfterDrive) /\ UNCHANGED <<driveNote, folderNote, loose>>
       \/ /\ plugged /\ driveNote = me
          /\ pc' = "copy" /\ base' = folder[me]
          /\ UNCHANGED <<driveNote, folderNote, task, loose>>
       \/ /\ plugged /\ driveNote # me /\ HasFolder(driveNote)
          /\ MarksTheirs(driveNote) /\ Loose("notes", driveNote)
          /\ Go("copy") /\ UNCHANGED driveNote
       \/ /\ plugged /\ driveNote # Nobody /\ ~HasFolder(driveNote)
          /\ driveNote' = Nobody
          /\ Go(AfterDrive) /\ UNCHANGED <<folderNote, loose>>
    /\ UNCHANGED <<game, me, known, drive, plugged, folder, zip, owed, romm, fetched,
                   stale, job, faults, history>>

\* readSaves: only the files that differ are written, one after another, and
\* renamed without being committed.
CopyBegins ==
    /\ pc = "copy"
    /\ folder' = [folder EXCEPT ![driveNote] = IF @ = drive.ver THEN @ ELSE Torn]
    /\ Go("copying")
    /\ UNCHANGED <<game, me, known, place, folderNote, zip, owed, romm, memory, faults,
                   history>>

\* The last of them is renamed.  What the drive no longer has is taken away
\* after it, and that counts as no change (syncDirSave), so while it lasts the
\* folder is to a start what it is at "unnote".
CopyEnds ==
    /\ pc = "copying"
    /\ folder' = [folder EXCEPT ![driveNote] = drive.ver]
    /\ IF folder' = folder THEN UNCHANGED loose ELSE Loose("copies", driveNote)
    /\ Go("unnote")
    /\ UNCHANGED <<game, me, known, place, folderNote, zip, owed, romm, fetched, stale,
                   job, faults, history>>

\* The drive will not give them up: the note stays, and a launch is refused.
AfterFailedCopy ==
    CASE task = "boot" -> "interrupted" [] task = "launch" -> "idle" [] task = "end" -> "sync"

CopyFails ==
    /\ pc = "copying"
    /\ faults < MaxFaults /\ faults' = faults + 1
    /\ Go(AfterFailedCopy)
    /\ mixed' = IF folder[driveNote] = Torn THEN mixed \cup {driveNote} ELSE mixed
    /\ UNCHANGED <<game, me, known, place, own, romm, memory, lapsed>>

\* Theirs cannot be marked, or a game's drive or its note cannot be written: the
\* saves stay on the drive, and a launch is refused.
NoteFails ==
    /\ \/ pc = "drive" /\ plugged /\ driveNote # me /\ HasFolder(driveNote)
       \/ pc \in {"before", "loading", "note"}
    /\ faults < MaxFaults /\ faults' = faults + 1
    /\ Go(AfterFailedCopy)
    /\ UNCHANGED <<game, me, known, place, own, romm, memory, history>>

\* afterEnd: and only then the note.
Unnote ==
    /\ pc = "unnote"
    /\ driveNote' = Nobody
    /\ Go(IF driveNote = me THEN "sync" ELSE AfterDrive)
    /\ UNCHANGED <<game, me, known, drive, plugged, own, romm, memory, faults, history>>

-----------------------------------------------------------------------------
(* syncDirSave, and the two that call it. *)

Changed == folder[me] # base /\ folder[me] # 0

NothingToSync ==
    /\ pc = "sync" /\ ~Changed
    /\ Go(AfterSync)
    /\ UNCHANGED <<game, me, known, place, own, romm, memory, faults, history>>

WriteZip ==
    /\ pc = "sync" /\ Changed
    /\ zip' = [zip EXCEPT ![me] = folder[me]]
    /\ Go("owe")
    /\ UNCHANGED <<game, me, known, place, folder, folderNote, owed, romm, memory,
                   faults, history>>

\* A full disk: the caller does not hear of it.
ZipFails ==
    /\ pc = "sync" /\ Changed
    /\ faults < MaxFaults /\ faults' = faults + 1
    /\ lapsed' = lapsed \cup {me}
    /\ Go(AfterSync)
    /\ UNCHANGED <<game, me, known, place, own, romm, memory, mixed>>

\* push: the marker first of all.  A drive still noted is yet to come over it.
Owe ==
    /\ pc = "owe"
    /\ owed' = [owed EXCEPT ![me] = TRUE]
    /\ lapsed' = IF zip[me] = made[me] /\ driveNote # me THEN lapsed \ {me} ELSE lapsed
    /\ job' = 0
    /\ Go(AfterSync)
    /\ UNCHANGED <<game, me, known, place, folder, folderNote, zip, romm, fetched,
                   stale, loose, faults, mixed>>

\* It cannot be written, which is only logged (markPending): the zip is queued
\* all the same, and the note goes.  The marker of an earlier zip serves.
OweFails ==
    /\ pc = "owe"
    /\ faults < MaxFaults /\ faults' = faults + 1
    /\ IF owed[me]
       THEN UNCHANGED <<job, lapsed>>
       ELSE job' = zip[me] /\ lapsed' = lapsed \cup {me}
    /\ Go(AfterSync)
    /\ UNCHANGED <<game, me, known, place, own, romm, fetched, stale, loose, mixed>>

\* A note still in this person's folder: all of it goes up.
Interrupted ==
    /\ pc = "interrupted"
    /\ IF folderNote[me]
       THEN pc' = "sync" /\ base' = Nothing /\ UNCHANGED task
       ELSE Go(AfterNote)
    /\ UNCHANGED <<game, me, known, place, own, romm, memory, faults, history>>

\* finished: the note in the person's folder goes.
Unmark ==
    /\ pc = "unmark"
    /\ folderNote' = [folderNote EXCEPT ![me] = FALSE]
    /\ Go(AfterNote)
    /\ UNCHANGED <<game, me, known, place, folder, zip, owed, romm, memory, faults,
                   history>>

-----------------------------------------------------------------------------
(* A game: startStandalone, and finishStandalone from GameEnds on. *)

\* The launch worker has fetched what RomM has, or could not ask.
Launch ==
    /\ pc = "idle" /\ plugged
    /\ fetched' \in {0, romm[me]} /\ stale' = FALSE
    /\ pc' = "interrupted" /\ task' = "launch" /\ UNCHANGED base
    /\ UNCHANGED <<game, me, known, place, own, romm, job, loose, faults, history>>

\* A restore that does not ask what is owed.
Restorable_Always == fetched # 0

\* restoreDirSave: not over what is owed, nor from before an upload that landed.
Restorable == fetched # 0 /\ ~owed[me] /\ ~stale

Restore ==
    /\ pc = "restore"
    /\ IF Restorable
       THEN /\ folder' = [folder EXCEPT ![me] = IF @ = fetched THEN @ ELSE Torn]
            /\ Go("unpack") /\ UNCHANGED fetched
       ELSE Go("before") /\ fetched' = 0 /\ UNCHANGED folder
    /\ UNCHANGED <<game, me, known, place, folderNote, zip, owed, romm, stale, job, loose,
                   faults, history>>

Unpacked ==
    /\ pc = "unpack"
    /\ folder' = [folder EXCEPT ![me] = fetched]
    /\ IF folder' = folder THEN UNCHANGED loose ELSE Loose("copies", me)
    /\ fetched' = 0
    /\ Go("before")
    /\ UNCHANGED <<game, me, known, place, folderNote, zip, owed, romm, stale, job, faults,
                   history>>

\* beforeStart, for a program that writes in the person's folder.
MarkFolder ==
    /\ pc = "before" /\ kind = "folder"
    /\ folderNote' = [folderNote EXCEPT ![me] = TRUE] /\ Loose("notes", me)
    /\ pc' = "starting" /\ base' = folder[me] /\ UNCHANGED task
    /\ UNCHANGED <<game, me, known, place, folder, zip, owed, romm, fetched, stale, job,
                   faults, history>>

\* A drive whose note is written before the saves are on it.
LoadBegins_Noted ==
    /\ pc = "before" /\ kind = "drive"
    /\ drive' = Of(me, Torn)
    /\ driveNote' = me
    /\ Go("loading")
    /\ UNCHANGED <<game, me, known, plugged, own, romm, memory, faults, history>>

\* And for the Xbox: the person's saves onto the drive ...
LoadBegins ==
    /\ pc = "before" /\ kind = "drive"
    /\ drive' = Of(me, Torn)
    /\ Go("loading")
    /\ UNCHANGED <<game, me, known, driveNote, plugged, own, romm, memory, faults,
                   history>>

Loaded ==
    /\ pc = "loading"
    /\ drive' = Of(me, folder[me]) /\ Loose("drive", "saves")
    /\ Go("note")
    /\ UNCHANGED <<game, me, known, driveNote, plugged, own, romm, fetched, stale, job,
                   faults, history>>

\* ... and the note once they are on.
NoteDrive ==
    /\ pc = "note"
    /\ driveNote' = me /\ Loose("drive", "note")
    /\ pc' = "starting" /\ base' = folder[me] /\ UNCHANGED task
    /\ UNCHANGED <<game, me, known, drive, plugged, own, romm, fetched, stale, job, faults,
                   history>>

Started ==
    /\ pc = "starting"
    /\ Go("run")
    /\ UNCHANGED <<game, me, known, place, own, romm, memory, faults, history>>

\* It did not start: afterEnd, whose failure here is passed over, and finished.
StartFails ==
    /\ pc = "starting"
    /\ driveNote' \in {driveNote, Nobody}
    /\ folderNote' = [folderNote EXCEPT ![me] = FALSE]
    /\ Go("idle")
    /\ UNCHANGED <<game, me, known, drive, plugged, folder, zip, owed, romm, memory,
                   faults, history>>

\* A save the emulator has written is on the disk, which is for it to see to.
\* Saves are numbered over everybody's, so no two are the same.
Newest == CHOOSE v \in 0 .. MaxMade : /\ \E p \in People : made[p] = v
                                      /\ \A p \in People : made[p] <= v

SaveInGame ==
    /\ pc = "run" /\ Newest < MaxMade
    /\ made' = [made EXCEPT ![me] = Newest + 1]
    /\ IF kind = "drive"
       THEN drive' = Of(me, Newest + 1) /\ UNCHANGED folder
       ELSE folder' = [folder EXCEPT ![me] = Newest + 1] /\ UNCHANGED drive
    /\ lapsed' = lapsed \ {me}
    /\ UNCHANGED <<kind, me, known, driveNote, plugged, folderNote, zip, owed, romm,
                   frame, memory, faults, mixed>>

GameEnds ==
    /\ pc = "run"
    /\ pc' = IF kind = "drive" THEN "copy" ELSE "sync"
    /\ task' = "end" /\ UNCHANGED base
    /\ UNCHANGED <<game, me, known, place, own, romm, memory, faults, history>>

-----------------------------------------------------------------------------
(* Beside it. *)

\* The uploader sends what the signed-in person owes (UploadQueue).
Upload ==
    /\ owed[me]
    /\ romm' = [romm EXCEPT ![me] = zip[me]]
    /\ owed' = [owed EXCEPT ![me] = FALSE]
    /\ stale' = (fetched # 0)
    /\ UNCHANGED <<game, me, known, place, folder, folderNote, zip, frame, fetched,
                   job, loose, faults, history>>

\* What is queued with no marker is sent in its turn, or, when that fails, by
\* nothing any more.
SendUnmarked ==
    /\ job # 0 /\ job' = 0
    /\ \/ romm' = [romm EXCEPT ![me] = job] /\ stale' = (fetched # 0)
       \/ UNCHANGED <<romm, stale>>
    /\ UNCHANGED <<game, me, known, place, own, frame, fetched, loose, faults, history>>

\* The disk commits all that in its own time.
Flushed ==
    /\ loose # Committed /\ loose' = Committed
    /\ UNCHANGED <<game, me, known, place, own, romm, frame, fetched, stale, job,
                   faults, history>>

\* Not while anything of this person's is queued.
Switch(p) ==
    /\ pc = "idle" /\ p \in known \ {me} /\ job = 0
    /\ me' = p
    /\ UNCHANGED <<game, known, place, own, romm, frame, memory, faults, history>>

\* Another person is removed from the console, and their folder with them.
Remove(p) ==
    /\ pc = "idle" /\ p \in known \ {me}
    /\ known' = known \ {p}
    /\ folder' = [folder EXCEPT ![p] = 0] /\ folderNote' = [folderNote EXCEPT ![p] = FALSE]
    /\ zip' = [zip EXCEPT ![p] = 0] /\ owed' = [owed EXCEPT ![p] = FALSE]
    /\ loose' = [loose EXCEPT !.copies = @ \ {p}, !.notes = @ \ {p}]
    /\ UNCHANGED <<game, me, place, romm, frame, fetched, stale, job, faults, history>>

\* A folder with a note is no candidate (cache.cpp).
Evictable == pc = "idle" /\ plugged /\ driveNote = Nobody

Evict ==
    /\ Evictable /\ drive # Blank
    /\ drive' = Blank /\ driveNote' = Nobody
    /\ UNCHANGED <<game, me, known, plugged, own, romm, frame, memory, faults, history>>

Plug ==
    /\ pc = "idle" \/ (pc = "drive" /\ task = "boot")
    /\ plugged' = ~plugged
    /\ UNCHANGED <<game, me, known, drive, driveNote, own, romm, frame, memory, faults,
                   history>>

\* The saves are off the drive, with or without its note, and no marker is on
\* the disk yet: a start finds nothing that has changed since.
Unmarked ==
    /\ \/ pc = "unnote" /\ driveNote = me /\ Changed
       \/ pc = "sync" /\ Changed
       \/ pc = "owe"
    /\ ~folderNote[me]

\* Whose folder a cut leaves half done with nothing that does it again first.
HalfDone ==
    {p \in People : /\ folder[p] = Torn
                    /\ \/ pc = "unpack" /\ p = me
                       \/ pc \in {"copy", "copying"} /\ p = driveNote /\ folderNote[p]}

\* RomM has this person's newest save or will.
Safe(p) == romm[p] = made[p] \/ (owed[p] /\ zip[p] = made[p])

\* What is not committed may come back empty: a note names nobody then, and is
\* taken off by who finds it; a drive whose note stays is a mixture.
Spoils(copies, notes, ofDrive) ==
    LET unnoted == {p \in notes : folderNote[p]}
                      \cup {p \in People : p = driveNote /\ "note" \in ofDrive}
        torn    == copies \cup {p \in People : p = driveNote /\ ofDrive = {"saves"}}
    IN  /\ folder' = [p \in People |-> IF p \in copies THEN Torn ELSE folder[p]]
        /\ folderNote' = [p \in People |-> folderNote[p] /\ p \notin notes]
        /\ drive' = IF "saves" \in ofDrive THEN Of(drive.of, Torn) ELSE drive
        /\ driveNote' = IF "note" \in ofDrive THEN Nobody ELSE driveNote
        /\ lapsed' = lapsed \cup torn \cup {p \in {me} : Unmarked}
                            \cup {p \in unnoted : ~Safe(p)}
        /\ mixed' = mixed \cup torn \cup HalfDone
                          \cup {p \in unnoted : folder[p] = Torn}

PowerCut ==
    /\ faults < MaxFaults /\ faults' = faults + 1
    /\ pc' = "drive" /\ task' = "boot" /\ base' = Nothing
    /\ fetched' = 0 /\ stale' = FALSE /\ job' = 0 /\ loose' = Committed
    /\ \E copies \in SUBSET loose.copies, notes \in SUBSET loose.notes,
          ofDrive \in SUBSET loose.drive : Spoils(copies, notes, ofDrive)
    /\ UNCHANGED <<game, me, known, plugged, zip, owed, romm>>

Init ==
    /\ kind \in {"drive", "folder"}
    /\ me \in People /\ known = People
    /\ drive = Blank /\ driveNote = Nobody /\ plugged = TRUE
    /\ folder = [p \in People |-> 0] /\ folderNote = [p \in People |-> FALSE]
    /\ zip = [p \in People |-> 0] /\ owed = [p \in People |-> FALSE]
    /\ romm = [p \in People |-> 0]
    /\ pc = "idle" /\ task = "boot" /\ base = Nothing
    /\ fetched = 0 /\ stale = FALSE /\ job = 0 /\ loose = Committed
    /\ made = [p \in People |-> 0] /\ faults = 0
    /\ lapsed = {} /\ mixed = {}

Recovery ==
    \/ RecoverDrive \/ CopyBegins \/ CopyEnds \/ CopyFails \/ NoteFails \/ Unnote
    \/ NothingToSync \/ WriteZip \/ ZipFails \/ Owe \/ OweFails
    \/ Interrupted \/ Unmark

Game ==
    \/ Launch \/ Restore \/ Unpacked \/ MarkFolder \/ LoadBegins \/ Loaded \/ NoteDrive
    \/ Started \/ StartFails \/ SaveInGame \/ GameEnds

Beside ==
    \/ Upload \/ SendUnmarked \/ Flushed \/ Evict \/ Plug \/ PowerCut
    \/ \E p \in People : Switch(p) \/ Remove(p)

Next == Recovery \/ Game \/ Beside

Spec == Init /\ [][Next]_vars

-----------------------------------------------------------------------------
(* Properties. *)

Vers == 0 .. MaxMade \cup {Torn}

\* Every variable holds what its declaration says; saves come off for a person
\* who is still here.
TypeOK ==
    /\ kind \in {"drive", "folder"}
    /\ me \in known /\ known \subseteq People
    /\ drive \in [of : People \cup {Nobody}, ver : Vers]
    /\ driveNote \in People \cup {Nobody} /\ plugged \in BOOLEAN
    /\ folder \in [People -> Vers] /\ folderNote \in [People -> BOOLEAN]
    /\ zip \in [People -> Vers] /\ owed \in [People -> BOOLEAN]
    /\ romm \in [People -> Vers]
    /\ pc \in {"copy", "copying", "unnote"} => driveNote \in known
    /\ task \in {"boot", "launch", "end"} /\ base \in Vers \cup {Nothing}
    /\ fetched \in Vers /\ stale \in BOOLEAN
    /\ job \in Vers
    /\ loose \in [copies : SUBSET known, notes : SUBSET known, drive : SUBSET {"saves", "note"}]
    /\ made \in [People -> 0 .. MaxMade]
    /\ lapsed \subseteq People /\ mixed \subseteq People

\* A person's newest save is where a start, a launch or the queue will send it
\* from: on RomM, owed, or under a note.
Findable(p) ==
    \/ Safe(p)
    \/ folderNote[p] /\ folder[p] = made[p]
    \/ driveNote = p /\ drive = Of(p, made[p])
    \/ p = me /\ pc \in {"sync", "owe"} /\ folder[p] = made[p]

\* The note outlives a crash, a power cut and a copy that failed, so the save
\* the game made is sent (standalone.h, around a game), but for a zip that could
\* not be written, a marker that could not (the queue in memory may still send
\* that one), a cut between the copy off the drive and the marker, and a cut
\* before the disk had committed that copy, what was put on the drive, or the note.
Accounted == \A p \in known \ lapsed : Findable(p)

\* What goes up is one save, never a mixture of two that a power cut left on a
\* drive or in a folder (standalone_xemu.cpp, the note only once the saves are
\* on), but for a copy that failed, a restore or another person's recovery that was
\* cut short, and a cut before the disk had committed what was copied, or the note
\* that has it copied again.
WholeGoesUp == \A p \in People \ mixed : zip[p] # Torn
=============================================================================
