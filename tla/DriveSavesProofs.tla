--------------------------- MODULE DriveSavesProofs ---------------------------
(***************************************************************************)
(* Proofs about DriveSaves, for any people, any number of saves, power     *)
(* cuts and failures.                                                      *)
(***************************************************************************)
EXTENDS DriveSaves, TLAPS

\* Somebody has made the newest save, so Newest is its number.
SomeNewest == \E p \in People : \A q \in People : made[q] <= made[p]

\* Where the baseline is this person's.
Based ==
    \/ pc \in {"starting", "run", "sync"}
    \/ pc \in {"copy", "copying", "unnote"} /\ driveNote = me

\* A mixture takes a save to mix with, but where a cut has made one.
Upto(p) == {v \in 0 .. made[p] \cup {Torn} : made[p] = 0 /\ p \notin lapsed => v = 0}

\* What holds a save of a person holds none that is yet to be made.
Numbered ==
    /\ \A p \in People : folder[p] \in Upto(p) /\ zip[p] \in Upto(p) /\ romm[p] \in Upto(p)
    /\ drive.of \in People => drive.ver \in Upto(drive.of) \cup {Torn}
    /\ driveNote # Nobody => drive.ver \in Upto(driveNote)
    /\ Based => base \in Upto(me) \cup {Nothing}
    /\ task = "launch" /\ pc # "idle" => fetched \in Upto(me)
    /\ job \in Upto(me)

\* What has been done so far: of the drive's note,
Noting ==
    /\ driveNote # Nobody => kind = "drive" /\ drive.of = driveNote
    /\ pc \in {"copy", "copying", "unnote"} => driveNote = me \/ folderNote[driveNote]
    /\ task = "end" => pc # "drive" /\ (pc \in {"copy", "copying", "unnote"} => driveNote = me)
    /\ pc = "unnote" => folder[driveNote] = drive.ver
    /\ pc = "copying" => folder[driveNote] \in {Torn, drive.ver}
    /\ pc \in {"copy", "copying"} /\ driveNote = me => folder[me] = base \/ folder[me] = Torn

\* and of a launch, which sees to its person's own note, then to the drive's,
\* and has the drive plugged in all along.
PastNote ==
    /\ task = "launch"
    /\ \/ pc \in {"drive", "copy", "copying", "unnote",
                 "restore", "unpack", "before", "loading", "note"}
       \/ pc \in {"sync", "owe"} /\ base # Nothing

PastDrive ==
    /\ task = "launch"
    /\ \/ pc \in {"restore", "unpack", "before", "loading", "note"}
       \/ pc \in {"sync", "owe"} /\ base # Nothing

Stages ==
    /\ PastNote => ~folderNote[me]
    /\ PastDrive => driveNote = Nobody
    /\ pc \in {"restore", "unpack", "before", "loading", "note"} => task = "launch"
    /\ task = "launch" /\ pc # "idle" => plugged

Fetching == task = "launch" /\ pc # "idle" /\ ~stale => fetched \in {0, romm[me]}

Loading ==
    /\ pc \in {"loading", "note"} => kind = "drive"
    /\ pc = "note" \/ (pc = "starting" /\ kind = "drive") => drive = Of(me, folder[me])

\* A game starts under a note, from what the folder has, and goes on from there.
Playing ==
    /\ pc \in {"starting", "run"} =>
          /\ task = "launch" /\ base # Nothing
          /\ kind = "drive" => driveNote = me /\ ~folderNote[me]
          /\ kind = "folder" => folderNote[me]
    /\ pc = "starting" \/ (pc = "run" /\ kind = "drive") => base = folder[me]

Zipped == pc = "owe" => zip[me] = folder[me] /\ zip[me] # 0

\* The newest save is in the folder or, under its note, on the drive; and where
\* it is on the drive only, nothing else has it.
Here(p) == folder[p] = made[p] \/ (driveNote = p /\ drive.ver = made[p])

NewerOf(p) ==
    /\ Here(p)
    /\ folder[p] # made[p] => romm[p] # made[p] /\ zip[p] # made[p]
    /\ romm[p] = made[p] /\ owed[p] => zip[p] = made[p]

Newer ==
    /\ \A p \in known \ lapsed : NewerOf(p)
    /\ driveNote \in known \ lapsed =>
          drive.ver \in {folder[driveNote], made[driveNote]} \/ folder[driveNote] = Torn
    /\ pc = "unpack" /\ me \notin lapsed => fetched = made[me]

\* What is queued with no marker is no save that RomM has or will be sent.
Queued ==
    job # 0 =>
        /\ ~owed[me]
        /\ me \in lapsed \/ (romm[me] # made[me] /\ job # made[me])

\* Where no note says that a folder has a save to send, it has been sent or is
\* about to be;
SentFor(p) ==
    folder[p] = made[p] /\ ~folderNote[p] =>
        \/ Safe(p)
        \/ p = me /\ pc \in {"sync", "owe"}
        \/ p = me /\ pc = "unnote" /\ driveNote = me /\ Changed

\* a baseline that is the newest save has been sent, unless the game was cut
\* short before and its note is still there;
BaseSent ==
    Based /\ me \notin lapsed /\ base = made[me] =>
        Safe(me) \/ (folderNote[me] /\ kind = "drive" /\ task # "end")

\* and a note goes once what it is about has been sent.
UnmarkSent == me \notin lapsed /\ pc = "unmark" => Safe(me) \/ folder[me] # made[me]

Sent ==
    /\ \A p \in known \ lapsed : SentFor(p)
    /\ BaseSent /\ UnmarkSent

IInv ==
    /\ TypeOK /\ SomeNewest /\ Numbered /\ Noting /\ Stages /\ Fetching /\ Loading /\ Playing
    /\ Zipped /\ Newer /\ Queued /\ Sent

\* A folder half written is being written, or the drive's note has it done again.
Half ==
    \A p \in People \ mixed :
        folder[p] = Torn =>
            \/ pc = "unpack" /\ p = me
            \/ driveNote = p /\ (pc \in {"copy", "copying"} \/ ~folderNote[p])

\* Who has been removed has none.
Gone == \A p \in People \ known : folder[p] = 0

\* Neither RomM, nor a drive under a note, nor what a launch brought down, nor
\* a folder whose changes are about to be sent, holds a mixture.
WholeInv ==
    /\ Half /\ Gone /\ WholeGoesUp
    /\ \A p \in People \ mixed : romm[p] # Torn
    /\ drive.ver = Torn => driveNote \in mixed \cup {Nobody}
    /\ me \notin mixed /\ task = "launch" /\ pc # "idle" => fetched # Torn
    /\ me \notin mixed /\ pc = "sync" => folder[me] # Torn
    /\ me \notin mixed => job # Torn

-----------------------------------------------------------------------------
(* Lemmas. *)

\* Nobody has made a newer save than Newest.
LEMMA NewestIs ==
    ASSUME DriveAssumption, TypeOK, SomeNewest
    PROVE  Newest \in 0 .. MaxMade /\ \A p \in People : made[p] <= Newest
  <1>1. PICK p \in People : \A q \in People : made[q] <= made[p]
    BY DEF SomeNewest
  <1>2. made[p] \in 0 .. MaxMade
    BY DEF TypeOK
  <1>3. \E v \in 0 .. MaxMade : /\ \E q \in People : made[q] = v
                              /\ \A q \in People : made[q] <= v
    BY <1>1, <1>2
  <1> QED
    BY <1>3 DEF Newest

\* What a power cut does to the frame thread and what is in memory,
LEMMA CutTakes ==
    ASSUME PowerCut
    PROVE  /\ pc' = "drive" /\ task' = "boot" /\ base' = Nothing
           /\ fetched' = 0 /\ stale' = FALSE /\ job' = 0 /\ loose' = Committed
           /\ UNCHANGED <<kind, made, me, known, plugged, zip, owed, romm>>
  BY DEF PowerCut, game

\* to the drive and its note,
LEMMA CutDrive ==
    ASSUME DriveAssumption, TypeOK, PowerCut
    PROVE  /\ driveNote' \in {driveNote, Nobody}
           /\ drive' = drive \/ drive' = Of(drive.of, Torn)
           /\ drive' # drive /\ driveNote' # Nobody => driveNote \in lapsed' \cap mixed'
           /\ driveNote \in People /\ driveNote' = Nobody =>
                 /\ driveNote \in lapsed' \/ Safe(driveNote)
                 /\ driveNote \in mixed' \/ folder[driveNote] # Torn
  <1>1. PICK copies \in SUBSET loose.copies, notes \in SUBSET loose.notes,
             ofDrive \in SUBSET loose.drive : Spoils(copies, notes, ofDrive)
    BY DEF PowerCut
  <1>2. ofDrive \subseteq {"saves", "note"} /\ driveNote \in People \cup {Nobody} /\ Nobody \notin People
    BY DEF TypeOK, DriveAssumption
  <1>3. CASE "note" \in ofDrive
    BY <1>1, <1>2, <1>3 DEF Spoils
  <1>4. CASE "note" \notin ofDrive
    <2>1. "saves" \in ofDrive => ofDrive = {"saves"}
      BY <1>2, <1>4
    <2> QED
      BY <1>1, <1>2, <1>4, <2>1 DEF Spoils
  <1> QED
    BY <1>3, <1>4

\* and to everybody's folder.
LEMMA CutFolders ==
    ASSUME TypeOK, PowerCut
    PROVE  /\ folder' \in [People -> Vers] /\ folderNote' \in [People -> BOOLEAN]
           /\ lapsed \subseteq lapsed' /\ lapsed' \subseteq People
           /\ mixed \subseteq mixed' /\ mixed' \subseteq People /\ HalfDone \subseteq mixed'
           /\ Unmarked => me \in lapsed'
           /\ \A p \in People :
                 /\ folder'[p] = folder[p] \/ (folder'[p] = Torn /\ p \in lapsed' \cap mixed')
                 /\ folderNote'[p] => folderNote[p]
                 /\ folderNote[p] /\ ~folderNote'[p] =>
                       /\ p \in lapsed' \/ Safe(p)
                       /\ p \in mixed' \/ folder[p] # Torn
  <1>1. PICK copies \in SUBSET loose.copies, notes \in SUBSET loose.notes,
             ofDrive \in SUBSET loose.drive : Spoils(copies, notes, ofDrive)
    BY DEF PowerCut
  <1>2. /\ copies \subseteq People /\ notes \subseteq People /\ me \in People
        /\ lapsed \subseteq People /\ mixed \subseteq People /\ HalfDone \subseteq People
        /\ folder \in [People -> Vers] /\ folderNote \in [People -> BOOLEAN] /\ Torn \in Vers
    BY DEF TypeOK, HalfDone, Vers
  <1>3. folder' \in [People -> Vers] /\ folderNote' \in [People -> BOOLEAN]
    BY <1>1, <1>2 DEF Spoils
  <1>4. /\ lapsed \subseteq lapsed' /\ lapsed' \subseteq People
        /\ mixed \subseteq mixed' /\ mixed' \subseteq People /\ HalfDone \subseteq mixed'
        /\ Unmarked => me \in lapsed'
    BY <1>1, <1>2 DEF Spoils
  <1>5. ASSUME NEW p \in People
        PROVE  /\ folder'[p] = folder[p] \/ (folder'[p] = Torn /\ p \in lapsed' \cap mixed')
               /\ folderNote'[p] => folderNote[p]
               /\ folderNote[p] /\ ~folderNote'[p] =>
                     /\ p \in lapsed' \/ Safe(p)
                     /\ p \in mixed' \/ folder[p] # Torn
    BY <1>1, <1>2, <1>5 DEF Spoils
  <1> QED
    BY <1>3, <1>4, <1>5

-----------------------------------------------------------------------------
(* Types. *)

\* Only a game makes a save, and it numbers it above everybody's.
LEMMA SomeNewestStep ==
    ASSUME DriveAssumption, TypeOK, SomeNewest, Next
    PROVE  SomeNewest'
  <1> USE DEF game, place, own, frame, memory, history
  <1>1. CASE UNCHANGED made
    BY <1>1 DEF SomeNewest
  <1>2. CASE SaveInGame
    <2>0. Newest \in 0 .. MaxMade /\ \A p \in People : made[p] <= Newest
      BY NewestIs
    <2>1. \A p \in People : made[p] \in Nat /\ made[p] < Newest + 1
      <3> SUFFICES ASSUME NEW p \in People PROVE made[p] \in Nat /\ made[p] < Newest + 1
        OBVIOUS
      <3>1. made[p] \in 0 .. MaxMade /\ made[p] <= Newest /\ MaxMade \in Nat
        BY <2>0 DEF TypeOK, DriveAssumption
      <3> QED
        BY <2>0, <3>1
    <2>2. me \in People /\ made' = [made EXCEPT ![me] = Newest + 1] /\ Newest \in Nat
      BY <1>2, NewestIs DEF SaveInGame, TypeOK, DriveAssumption
    <2>3. \A q \in People : made'[q] <= made'[me]
      BY <2>1, <2>2 DEF TypeOK
    <2> QED
      BY <2>2, <2>3 DEF SomeNewest
  <1> QED
    BY <1>1, <1>2
       DEF Next, Recovery, Game, Beside, RecoverDrive, CopyBegins, CopyEnds,
           CopyFails, NoteFails, Unnote, NothingToSync, WriteZip, ZipFails, Owe, OweFails,
           Interrupted, Unmark, Launch, Restore, Unpacked, MarkFolder,
           LoadBegins, Loaded, NoteDrive, Started, StartFails, GameEnds,
           Upload, SendUnmarked, Flushed, Evict, Plug, PowerCut, Switch, Remove

\* Each step that moves a note, or goes on in the recovery of a drive, keeps what
\* Noting says of the note, the folder and the drive.
LEMMA NotingStep ==
    ASSUME DriveAssumption, TypeOK, Numbered, Noting,
           Stages, Loading, Playing, Next
    PROVE  Noting'
  <1> USE DEF game, place, own, frame, memory, history
  <1>1. CASE UNCHANGED <<driveNote, kind, drive, pc, folderNote, folder, base,
                          me, task>>
    BY <1>1 DEF Noting
  <1>2. CASE RecoverDrive
    BY <1>2 DEF RecoverDrive, Go, MarksTheirs, HasFolder, AfterDrive, Stages,
        PastDrive, Loading, Playing, Of, TypeOK, DriveAssumption, Noting
  <1>3. CASE CopyBegins
    BY <1>3 DEF CopyBegins, Go, Stages, PastDrive, Loading, Playing, Of,
        TypeOK, DriveAssumption, Noting
  <1>4. CASE CopyEnds
    BY <1>4 DEF CopyEnds, Go, Stages, PastDrive, Loading, Playing, Of, TypeOK,
        DriveAssumption, Noting
  <1>5. CASE CopyFails \/ NoteFails
    BY <1>5 DEF CopyFails, NoteFails, Go, AfterFailedCopy, Stages, PastDrive, Loading,
        Playing, Of, TypeOK, DriveAssumption, Noting
  <1>6. CASE Unnote
    BY <1>6 DEF Unnote, Go, AfterDrive, Stages, PastDrive, Loading, Playing,
        Of, TypeOK, DriveAssumption, Noting
  <1>7. CASE NothingToSync
    BY <1>7 DEF NothingToSync, Go, Changed, AfterSync, AfterDrive, Noting
  <1>8. CASE WriteZip
    BY <1>8 DEF WriteZip, Go, Changed, Noting
  <1>9. CASE ZipFails
    BY <1>9 DEF ZipFails, Go, Changed, AfterSync, AfterDrive, Noting
  <1>10. CASE Owe \/ OweFails
    BY <1>10 DEF Owe, OweFails, Go, AfterSync, AfterDrive, Noting
  <1>11. CASE Interrupted
    BY <1>11 DEF Interrupted, Go, AfterNote, Noting
  <1>12. CASE Unmark
    BY <1>12 DEF Unmark, Go, AfterNote, Stages, PastDrive, Loading, Playing,
        Of, TypeOK, DriveAssumption, Noting
  <1>13. CASE Launch
    BY <1>13 DEF Launch, Noting
  <1>14. CASE Restore
    BY <1>14 DEF Restore, Restorable, Go, Stages, PastDrive, Loading, Playing,
        Of, TypeOK, DriveAssumption, Noting
  <1>15. CASE Unpacked
    BY <1>15 DEF Unpacked, Go, Stages, PastDrive, Loading, Playing, Of,
        TypeOK, DriveAssumption, Noting
  <1>16. CASE MarkFolder
    BY <1>16 DEF MarkFolder, Stages, PastDrive, Loading, Playing, Of, TypeOK,
        DriveAssumption, Noting
  <1>17. CASE LoadBegins
    BY <1>17 DEF LoadBegins, Go, Of, Stages, PastDrive, Loading, Playing,
        TypeOK, DriveAssumption, Noting
  <1>18. CASE Loaded
    BY <1>18 DEF Loaded, Go, Of, Stages, PastDrive, Loading, Playing, TypeOK,
        DriveAssumption, Noting
  <1>19. CASE NoteDrive
    BY <1>19 DEF NoteDrive, Stages, PastDrive, Loading, Playing, Of, TypeOK,
        DriveAssumption, Noting
  <1>20. CASE Started
    BY <1>20 DEF Started, Go, Noting
  <1>21. CASE StartFails
    BY <1>21 DEF StartFails, Go, Stages, PastDrive, Loading, Playing, Of,
        TypeOK, DriveAssumption, Noting
  <1>22. CASE SaveInGame
    BY <1>22 DEF SaveInGame, Of, Stages, PastDrive, Loading, Playing, TypeOK,
        DriveAssumption, Noting
  <1>23. CASE GameEnds
    BY <1>23 DEF GameEnds, Stages, PastDrive, Loading, Playing, Of, TypeOK,
        DriveAssumption, Noting
  <1>24. CASE Evict
    BY <1>24 DEF Evict, Evictable, Blank, Of, Stages, PastDrive, Loading,
        Playing, TypeOK, DriveAssumption, Noting
  <1>25. CASE PowerCut
    BY <1>25, CutTakes, CutDrive DEF Of, TypeOK, DriveAssumption, Noting
  <1>26. CASE \E p \in People : Switch(p)
    BY <1>26 DEF Switch, Stages, PastDrive, Loading, Playing, Of, TypeOK,
        DriveAssumption, Noting
  <1>27. CASE \E p \in People : Remove(p)
    BY <1>27 DEF Remove, Stages, PastDrive, Loading, Playing, Of, TypeOK,
        DriveAssumption, Noting
  <1> QED
    BY <1>1, <1>2, <1>3, <1>4, <1>5, <1>6, <1>7, <1>8, <1>9, <1>10, <1>11,
       <1>12, <1>13, <1>14, <1>15, <1>16, <1>17, <1>18, <1>19, <1>20, <1>21,
       <1>22, <1>23, <1>24, <1>25, <1>26, <1>27
       DEF Next, Recovery, Game, Beside, Upload, SendUnmarked, Flushed, Plug, Go

\* A launch keeps to its order: its person's note, the drive's, the restore.
LEMMA StagesStep ==
    ASSUME DriveAssumption, TypeOK, Noting, Stages,
           Playing, Next
    PROVE  Stages'
  <1> USE DEF game, place, own, frame, memory, history
  <1>1. CASE UNCHANGED <<pc, task, base, folderNote, driveNote, plugged, me>>
    BY <1>1 DEF Stages, PastNote, PastDrive
  <1>2. CASE RecoverDrive
    BY <1>2 DEF RecoverDrive, Go, MarksTheirs, HasFolder, AfterDrive, Playing,
        TypeOK, DriveAssumption, Stages, PastNote, PastDrive
  <1>3. CASE CopyBegins
    BY <1>3 DEF CopyBegins, Go, Playing, TypeOK, DriveAssumption, Stages,
        PastNote, PastDrive
  <1>4. CASE CopyEnds
    BY <1>4 DEF CopyEnds, Go, Playing, TypeOK, DriveAssumption, Stages,
        PastNote, PastDrive
  <1>5. CASE CopyFails \/ NoteFails
    BY <1>5 DEF CopyFails, NoteFails, Go, AfterFailedCopy, Playing, TypeOK,
        DriveAssumption, Stages, PastNote, PastDrive
  <1>6. CASE Unnote
    BY <1>6 DEF Unnote, Go, AfterDrive, Playing, TypeOK, DriveAssumption,
        Stages, PastNote, PastDrive
  <1>7. CASE NothingToSync
    BY <1>7 DEF NothingToSync, Go, Changed, AfterSync, AfterDrive, Playing,
        TypeOK, DriveAssumption, Stages, PastNote, PastDrive
  <1>8. CASE WriteZip
    BY <1>8 DEF WriteZip, Go, Changed, Playing, TypeOK, DriveAssumption,
        Stages, PastNote, PastDrive
  <1>9. CASE ZipFails
    BY <1>9 DEF ZipFails, Go, Changed, AfterSync, AfterDrive, Playing, TypeOK,
        DriveAssumption, Stages, PastNote, PastDrive
  <1>10. CASE Owe \/ OweFails
    BY <1>10 DEF Owe, OweFails, Go, AfterSync, AfterDrive, Playing, TypeOK,
        DriveAssumption, Stages, PastNote, PastDrive
  <1>11. CASE Interrupted
    BY <1>11 DEF Interrupted, Go, AfterNote, Playing, TypeOK, DriveAssumption,
        Stages, PastNote, PastDrive
  <1>12. CASE Unmark
    BY <1>12 DEF Unmark, Go, AfterNote, Playing, TypeOK, DriveAssumption,
        Stages, PastNote, PastDrive
  <1>13. CASE Launch
    BY <1>13 DEF Launch, Stages, PastNote, PastDrive
  <1>14. CASE Restore
    BY <1>14 DEF Restore, Restorable, Go, Stages, PastNote, PastDrive
  <1>15. CASE Unpacked
    BY <1>15 DEF Unpacked, Go, Stages, PastNote, PastDrive
  <1>16. CASE MarkFolder
    BY <1>16 DEF MarkFolder, Playing, TypeOK, DriveAssumption, Stages,
        PastNote, PastDrive
  <1>17. CASE LoadBegins
    BY <1>17 DEF LoadBegins, Go, Of, Stages, PastNote, PastDrive
  <1>18. CASE Loaded
    BY <1>18 DEF Loaded, Go, Of, Stages, PastNote, PastDrive
  <1>19. CASE NoteDrive
    BY <1>19 DEF NoteDrive, Playing, TypeOK, DriveAssumption, Stages,
        PastNote, PastDrive
  <1>20. CASE Started
    BY <1>20 DEF Started, Go, Stages, PastNote, PastDrive
  <1>21. CASE StartFails
    BY <1>21 DEF StartFails, Go, Playing, TypeOK, DriveAssumption, Stages,
        PastNote, PastDrive
  <1>22. CASE GameEnds
    BY <1>22 DEF GameEnds, Stages, PastNote, PastDrive
  <1>23. CASE Evict
    BY <1>23 DEF Evict, Evictable, Blank, Of, Stages, PastNote, PastDrive
  <1>24. CASE Plug
    BY <1>24 DEF Plug, Stages, PastNote, PastDrive
  <1>25. CASE PowerCut
    BY <1>25 DEF PowerCut, Unmarked, Changed, HalfDone, Stages, PastNote,
        PastDrive
  <1>26. CASE \E p \in People : Switch(p)
    BY <1>26 DEF Switch, Stages, PastNote, PastDrive
  <1>27. CASE \E p \in People : Remove(p)
    BY <1>27 DEF Remove, Playing, TypeOK, DriveAssumption, Stages, PastNote,
        PastDrive
  <1> QED
    BY <1>1, <1>2, <1>3, <1>4, <1>5, <1>6, <1>7, <1>8, <1>9, <1>10, <1>11,
       <1>12, <1>13, <1>14, <1>15, <1>16, <1>17, <1>18, <1>19, <1>20, <1>21,
       <1>22, <1>23, <1>24, <1>25, <1>26, <1>27
       DEF Next, Recovery, Game, Beside, SaveInGame, Upload, SendUnmarked, Flushed, Go

\* What a launch fetched stays what RomM has until an upload lands.
LEMMA FetchingStep ==
    ASSUME Fetching, Playing, Next
    PROVE  Fetching'
  <1> USE DEF game, place, own, frame, memory, history
  <1>1. CASE UNCHANGED <<pc, task, fetched, stale, romm, me>>
    BY <1>1 DEF Fetching
  <1>2. CASE RecoverDrive
    BY <1>2 DEF RecoverDrive, Go, MarksTheirs, HasFolder, AfterDrive, Fetching
  <1>3. CASE CopyBegins
    BY <1>3 DEF CopyBegins, Go, Fetching
  <1>4. CASE CopyEnds
    BY <1>4 DEF CopyEnds, Go, Fetching
  <1>5. CASE CopyFails \/ NoteFails
    BY <1>5 DEF CopyFails, NoteFails, Go, AfterFailedCopy, Fetching
  <1>6. CASE Unnote
    BY <1>6 DEF Unnote, Go, AfterDrive, Fetching
  <1>7. CASE NothingToSync
    BY <1>7 DEF NothingToSync, Go, Changed, AfterSync, AfterDrive, Fetching
  <1>8. CASE WriteZip
    BY <1>8 DEF WriteZip, Go, Changed, Fetching
  <1>9. CASE ZipFails
    BY <1>9 DEF ZipFails, Go, Changed, AfterSync, AfterDrive, Fetching
  <1>10. CASE Owe \/ OweFails
    BY <1>10 DEF Owe, OweFails, Go, AfterSync, AfterDrive, Fetching
  <1>11. CASE Interrupted
    BY <1>11 DEF Interrupted, Go, AfterNote, Fetching
  <1>12. CASE Unmark
    BY <1>12 DEF Unmark, Go, AfterNote, Fetching
  <1>13. CASE Launch
    BY <1>13 DEF Launch, Fetching
  <1>14. CASE Restore
    BY <1>14 DEF Restore, Restorable, Go, Fetching
  <1>15. CASE Unpacked
    BY <1>15 DEF Unpacked, Go, Fetching
  <1>16. CASE MarkFolder
    BY <1>16 DEF MarkFolder, Fetching
  <1>17. CASE LoadBegins
    BY <1>17 DEF LoadBegins, Go, Of, Fetching
  <1>18. CASE Loaded
    BY <1>18 DEF Loaded, Go, Of, Fetching
  <1>19. CASE NoteDrive
    BY <1>19 DEF NoteDrive, Fetching
  <1>20. CASE Started
    BY <1>20 DEF Started, Go, Fetching
  <1>21. CASE StartFails
    BY <1>21 DEF StartFails, Go, Fetching
  <1>22. CASE GameEnds
    BY <1>22 DEF GameEnds, Fetching
  <1>23. CASE Upload \/ SendUnmarked
    BY <1>23 DEF Upload, SendUnmarked, Fetching
  <1>24. CASE PowerCut
    BY <1>24 DEF PowerCut, Unmarked, Changed, HalfDone, Fetching
  <1>25. CASE \E p \in People : Switch(p)
    BY <1>25 DEF Switch, Fetching
  <1> QED
    BY <1>1, <1>2, <1>3, <1>4, <1>5, <1>6, <1>7, <1>8, <1>9, <1>10, <1>11,
       <1>12, <1>13, <1>14, <1>15, <1>16, <1>17, <1>18, <1>19, <1>20, <1>21,
       <1>22, <1>23, <1>24, <1>25
       DEF Next, Recovery, Game, Beside, Flushed, SaveInGame, Evict, Plug, Remove, Go

\* The drive gets what the person's folder has.
LEMMA LoadingStep ==
    ASSUME TypeOK, Loading, Next
    PROVE  Loading'
  <1> USE DEF game, place, own, frame, memory, history
  <1>1. CASE UNCHANGED <<pc, kind, drive, me, folder>>
    BY <1>1 DEF Loading, Of
  <1>2. CASE RecoverDrive
    BY <1>2 DEF RecoverDrive, Go, MarksTheirs, HasFolder, AfterDrive, Loading,
        Of
  <1>3. CASE CopyBegins
    BY <1>3 DEF CopyBegins, Go, Loading, Of
  <1>4. CASE CopyEnds
    BY <1>4 DEF CopyEnds, Go, Loading, Of
  <1>5. CASE CopyFails \/ NoteFails
    BY <1>5 DEF CopyFails, NoteFails, Go, AfterFailedCopy, TypeOK, Loading, Of
  <1>6. CASE Unnote
    BY <1>6 DEF Unnote, Go, AfterDrive, Loading, Of
  <1>7. CASE NothingToSync
    BY <1>7 DEF NothingToSync, Go, Changed, AfterSync, AfterDrive, Loading, Of
  <1>8. CASE WriteZip
    BY <1>8 DEF WriteZip, Go, Changed, Loading, Of
  <1>9. CASE ZipFails
    BY <1>9 DEF ZipFails, Go, Changed, AfterSync, AfterDrive, Loading, Of
  <1>10. CASE Owe \/ OweFails
    BY <1>10 DEF Owe, OweFails, Go, AfterSync, AfterDrive, Loading, Of
  <1>11. CASE Interrupted
    BY <1>11 DEF Interrupted, Go, AfterNote, Loading, Of
  <1>12. CASE Unmark
    BY <1>12 DEF Unmark, Go, AfterNote, Loading, Of
  <1>13. CASE Launch
    BY <1>13 DEF Launch, Loading, Of
  <1>14. CASE Restore
    BY <1>14 DEF Restore, Restorable, Go, Loading, Of
  <1>15. CASE Unpacked
    BY <1>15 DEF Unpacked, Go, Loading, Of
  <1>16. CASE MarkFolder
    BY <1>16 DEF MarkFolder, TypeOK, Loading, Of
  <1>17. CASE LoadBegins
    BY <1>17 DEF LoadBegins, Go, Of, Loading
  <1>18. CASE Loaded
    BY <1>18 DEF Loaded, Go, Of, Loading
  <1>19. CASE NoteDrive
    BY <1>19 DEF NoteDrive, Loading, Of
  <1>20. CASE Started
    BY <1>20 DEF Started, Go, Loading, Of
  <1>21. CASE StartFails
    BY <1>21 DEF StartFails, Go, Loading, Of
  <1>22. CASE SaveInGame
    BY <1>22 DEF SaveInGame, Of, TypeOK, Loading
  <1>23. CASE GameEnds
    BY <1>23 DEF GameEnds, Loading, Of
  <1>24. CASE Evict
    BY <1>24 DEF Evict, Evictable, Blank, Of, Loading
  <1>25. CASE PowerCut
    BY <1>25 DEF PowerCut, Unmarked, Changed, HalfDone, Loading, Of
  <1>26. CASE \E p \in People : Switch(p)
    BY <1>26 DEF Switch, TypeOK, Loading, Of
  <1>27. CASE \E p \in People : Remove(p)
    BY <1>27 DEF Remove, TypeOK, Loading, Of
  <1> QED
    BY <1>1, <1>2, <1>3, <1>4, <1>5, <1>6, <1>7, <1>8, <1>9, <1>10, <1>11,
       <1>12, <1>13, <1>14, <1>15, <1>16, <1>17, <1>18, <1>19, <1>20, <1>21,
       <1>22, <1>23, <1>24, <1>25, <1>26, <1>27
       DEF Next, Recovery, Game, Beside, Upload, SendUnmarked, Flushed, Plug

\* A game keeps its note and what it started from.
LEMMA PlayingStep ==
    ASSUME DriveAssumption, TypeOK, Stages, Loading,
           Playing, Next
    PROVE  Playing'
  <1> USE DEF game, place, own, frame, memory, history
  <1>1. CASE UNCHANGED <<pc, task, base, kind, driveNote, folderNote, me,
                          folder>>
    BY <1>1 DEF Playing
  <1>2. CASE RecoverDrive
    BY <1>2 DEF RecoverDrive, Go, MarksTheirs, HasFolder, AfterDrive, Playing
  <1>3. CASE CopyBegins
    BY <1>3 DEF CopyBegins, Go, Playing
  <1>4. CASE CopyEnds
    BY <1>4 DEF CopyEnds, Go, Playing
  <1>5. CASE CopyFails \/ NoteFails
    BY <1>5 DEF CopyFails, NoteFails, Go, AfterFailedCopy, Loading, Stages, PastNote,
        Vers, TypeOK, DriveAssumption, Playing
  <1>6. CASE Unnote
    BY <1>6 DEF Unnote, Go, AfterDrive, Playing
  <1>7. CASE NothingToSync
    BY <1>7 DEF NothingToSync, Go, Changed, AfterSync, AfterDrive, Playing
  <1>8. CASE WriteZip
    BY <1>8 DEF WriteZip, Go, Changed, Playing
  <1>9. CASE ZipFails
    BY <1>9 DEF ZipFails, Go, Changed, AfterSync, AfterDrive, Playing
  <1>10. CASE Owe \/ OweFails
    BY <1>10 DEF Owe, OweFails, Go, AfterSync, AfterDrive, Playing
  <1>11. CASE Interrupted
    BY <1>11 DEF Interrupted, Go, AfterNote, Playing
  <1>12. CASE Unmark
    BY <1>12 DEF Unmark, Go, AfterNote, Playing
  <1>13. CASE Launch
    BY <1>13 DEF Launch, Playing
  <1>14. CASE Restore
    BY <1>14 DEF Restore, Restorable, Go, Playing
  <1>15. CASE Unpacked
    BY <1>15 DEF Unpacked, Go, Playing
  <1>16. CASE MarkFolder
    BY <1>16 DEF MarkFolder, Loading, Stages, PastNote, Vers, TypeOK,
        DriveAssumption, Playing
  <1>17. CASE LoadBegins
    BY <1>17 DEF LoadBegins, Go, Of, Playing
  <1>18. CASE Loaded
    BY <1>18 DEF Loaded, Go, Of, Loading, Stages, PastNote, Vers, TypeOK,
        DriveAssumption, Playing
  <1>19. CASE NoteDrive
    BY <1>19 DEF NoteDrive, Loading, Stages, PastNote, Vers, TypeOK,
        DriveAssumption, Playing
  <1>20. CASE Started
    BY <1>20 DEF Started, Go, Playing
  <1>21. CASE StartFails
    BY <1>21 DEF StartFails, Go, Playing
  <1>22. CASE SaveInGame
    BY <1>22 DEF SaveInGame, Of, Loading, Stages, PastNote, Vers, TypeOK,
        DriveAssumption, Playing
  <1>23. CASE GameEnds
    BY <1>23 DEF GameEnds, Playing
  <1>24. CASE Evict
    BY <1>24 DEF Evict, Evictable, Blank, Of, Playing
  <1>25. CASE PowerCut
    BY <1>25 DEF PowerCut, Unmarked, Changed, HalfDone, Playing
  <1>26. CASE \E p \in People : Switch(p)
    BY <1>26 DEF Switch, Playing
  <1>27. CASE \E p \in People : Remove(p)
    BY <1>27 DEF Remove, Playing
  <1> QED
    BY <1>1, <1>2, <1>3, <1>4, <1>5, <1>6, <1>7, <1>8, <1>9, <1>10, <1>11,
       <1>12, <1>13, <1>14, <1>15, <1>16, <1>17, <1>18, <1>19, <1>20, <1>21,
       <1>22, <1>23, <1>24, <1>25, <1>26, <1>27
       DEF Next, Recovery, Game, Beside, Upload, SendUnmarked, Flushed, Plug, Go

\* The zip is of the folder as it is.
LEMMA ZippedStep ==
    ASSUME TypeOK, Zipped, Next
    PROVE  Zipped'
  <1> USE DEF game, place, own, frame, memory, history
  <1>1. CASE UNCHANGED <<pc, zip, folder, me>>
    BY <1>1 DEF Zipped
  <1>2. CASE RecoverDrive
    BY <1>2 DEF RecoverDrive, Go, MarksTheirs, HasFolder, AfterDrive, Zipped
  <1>3. CASE CopyBegins
    BY <1>3 DEF CopyBegins, Go, Zipped
  <1>4. CASE CopyEnds
    BY <1>4 DEF CopyEnds, Go, Zipped
  <1>5. CASE CopyFails \/ NoteFails
    BY <1>5 DEF CopyFails, NoteFails, Go, AfterFailedCopy, TypeOK, Zipped
  <1>6. CASE Unnote
    BY <1>6 DEF Unnote, Go, AfterDrive, Zipped
  <1>7. CASE NothingToSync
    BY <1>7 DEF NothingToSync, Go, Changed, AfterSync, AfterDrive, Zipped
  <1>8. CASE WriteZip
    BY <1>8 DEF WriteZip, Go, Changed, TypeOK, Zipped
  <1>9. CASE ZipFails
    BY <1>9 DEF ZipFails, Go, Changed, AfterSync, AfterDrive, Zipped
  <1>10. CASE Owe \/ OweFails
    BY <1>10 DEF Owe, OweFails, Go, AfterSync, AfterDrive, Zipped
  <1>11. CASE Interrupted
    BY <1>11 DEF Interrupted, Go, AfterNote, Zipped
  <1>12. CASE Unmark
    BY <1>12 DEF Unmark, Go, AfterNote, Zipped
  <1>13. CASE Launch
    BY <1>13 DEF Launch, Zipped
  <1>14. CASE Restore
    BY <1>14 DEF Restore, Restorable, Go, Zipped
  <1>15. CASE Unpacked
    BY <1>15 DEF Unpacked, Go, Zipped
  <1>16. CASE MarkFolder
    BY <1>16 DEF MarkFolder, Zipped
  <1>17. CASE LoadBegins
    BY <1>17 DEF LoadBegins, Go, Of, Zipped
  <1>18. CASE Loaded
    BY <1>18 DEF Loaded, Go, Of, Zipped
  <1>19. CASE NoteDrive
    BY <1>19 DEF NoteDrive, Zipped
  <1>20. CASE Started
    BY <1>20 DEF Started, Go, Zipped
  <1>21. CASE StartFails
    BY <1>21 DEF StartFails, Go, Zipped
  <1>22. CASE SaveInGame
    BY <1>22 DEF SaveInGame, Of, TypeOK, Zipped
  <1>23. CASE GameEnds
    BY <1>23 DEF GameEnds, Zipped
  <1>24. CASE PowerCut
    BY <1>24 DEF PowerCut, Unmarked, Changed, HalfDone, Zipped
  <1>25. CASE \E p \in People : Switch(p)
    BY <1>25 DEF Switch, Zipped
  <1>26. CASE \E p \in People : Remove(p)
    BY <1>26 DEF Remove, Zipped
  <1> QED
    BY <1>1, <1>2, <1>3, <1>4, <1>5, <1>6, <1>7, <1>8, <1>9, <1>10, <1>11,
       <1>12, <1>13, <1>14, <1>15, <1>16, <1>17, <1>18, <1>19, <1>20, <1>21,
       <1>22, <1>23, <1>24, <1>25, <1>26
       DEF Next, Recovery, Game, Beside, Upload, SendUnmarked, Flushed, Evict, Plug

\* TypeOK, of the folders.
LEMMA FolderType ==
    ASSUME DriveAssumption, TypeOK, SomeNewest, Next
    PROVE  folder' \in [People -> Vers]
  <1> USE DEF game, place, own, frame, memory, history
  <1>1. me \in People /\ 0 \in Vers /\ driveNote \in People \cup {Nobody} /\ drive.ver \in Vers
          /\ known \subseteq People
    BY DEF TypeOK, Vers, DriveAssumption
  <1>2. CASE UNCHANGED folder
    BY <1>2 DEF TypeOK
  <1>3. CASE CopyBegins
    BY <1>1, <1>3 DEF CopyBegins, Go, Vers, TypeOK
  <1>4. CASE CopyEnds
    BY <1>1, <1>4 DEF CopyEnds, Go, Vers, TypeOK
  <1>5. CASE Restore
    BY <1>1, <1>5 DEF Restore, Restorable, Go, Vers, TypeOK
  <1>6. CASE Unpacked
    BY <1>1, <1>6 DEF Unpacked, Go, Vers, TypeOK
  <1>7. CASE SaveInGame
    <2>1. Newest + 1 \in 0 .. MaxMade
      <3>1. Newest \in 0 .. MaxMade /\ Newest < MaxMade /\ MaxMade \in Nat
        BY <1>7, NewestIs DEF SaveInGame, DriveAssumption
      <3> QED
        BY <3>1
    <2>2. Newest + 1 \in Vers
      BY <2>1 DEF Vers
    <2> QED
      BY <1>1, <1>7, <2>2 DEF SaveInGame, TypeOK
  <1>8. CASE \E p \in People : Remove(p)
    BY <1>1, <1>8 DEF Remove, Vers, TypeOK
  <1>9. CASE PowerCut
    BY <1>9, CutFolders
  <1> QED
    BY <1>2, <1>3, <1>4, <1>5, <1>6, <1>7, <1>8, <1>9
       DEF Next, Recovery, Game, Beside, RecoverDrive, CopyFails, NoteFails, Unnote,
           NothingToSync, WriteZip, ZipFails, Owe, OweFails, Interrupted, Unmark,
           Launch, MarkFolder, LoadBegins, Loaded, NoteDrive, Started,
           StartFails, GameEnds, Upload, SendUnmarked, Flushed, Evict, Plug, Switch

\* TypeOK, of the saves made.
LEMMA MadeType ==
    ASSUME DriveAssumption, TypeOK, SomeNewest, Next
    PROVE  made' \in [People -> 0 .. MaxMade]
  <1> USE DEF game, place, own, frame, memory, history
  <1>1. me \in People /\ 0 \in Vers /\ driveNote \in People \cup {Nobody} /\ drive.ver \in Vers
          /\ known \subseteq People
    BY DEF TypeOK, Vers, DriveAssumption
  <1>2. CASE UNCHANGED made
    BY <1>2 DEF TypeOK
  <1>3. CASE SaveInGame
    <2>1. Newest + 1 \in 0 .. MaxMade
      <3>1. Newest \in 0 .. MaxMade /\ Newest < MaxMade /\ MaxMade \in Nat
        BY <1>3, NewestIs DEF SaveInGame, DriveAssumption
      <3> QED
        BY <3>1
    <2>2. Newest + 1 \in Vers
      BY <2>1 DEF Vers
    <2> QED
      BY <1>1, <1>3, <2>1 DEF SaveInGame, TypeOK
  <1> QED
    BY <1>2, <1>3
       DEF Next, Recovery, Game, Beside, RecoverDrive, CopyBegins, CopyEnds,
           CopyFails, NoteFails, Unnote, NothingToSync, WriteZip, ZipFails, Owe, OweFails,
           Interrupted, Unmark, Launch, Restore, Unpacked, MarkFolder,
           LoadBegins, Loaded, NoteDrive, Started, StartFails, GameEnds,
           Upload, SendUnmarked, Flushed, Evict, Plug, PowerCut, Switch, Remove

\* TypeOK, of what else a person has.
LEMMA OwnTypes ==
    ASSUME DriveAssumption, TypeOK, SomeNewest, Next
    PROVE  folderNote' \in [People -> BOOLEAN] /\ zip' \in [People -> Vers]
           /\ owed' \in [People -> BOOLEAN] /\ romm' \in [People -> Vers]
  <1> USE DEF game, place, own, frame, memory, history
  <1>1. me \in People /\ 0 \in Vers /\ driveNote \in People \cup {Nobody} /\ drive.ver \in Vers
          /\ known \subseteq People
    BY DEF TypeOK, Vers, DriveAssumption
  <1>2. CASE UNCHANGED <<folderNote, zip, owed, romm>>
    BY <1>2 DEF TypeOK
  <1>3. CASE RecoverDrive
    BY <1>1, <1>3 DEF RecoverDrive, Go, MarksTheirs, HasFolder, AfterDrive,
        TypeOK
  <1>4. CASE WriteZip
    BY <1>1, <1>4 DEF WriteZip, Go, Changed, TypeOK
  <1>5. CASE Owe \/ OweFails
    BY <1>1, <1>5 DEF Owe, OweFails, Go, AfterSync, AfterDrive, TypeOK
  <1>6. CASE Unmark
    BY <1>1, <1>6 DEF Unmark, Go, AfterNote, TypeOK
  <1>7. CASE MarkFolder
    BY <1>1, <1>7 DEF MarkFolder, TypeOK
  <1>8. CASE StartFails
    BY <1>1, <1>8 DEF StartFails, Go, TypeOK
  <1>9. CASE Upload \/ SendUnmarked
    <2>1. romm' = [romm EXCEPT ![me] = zip[me]] \/ romm' = [romm EXCEPT ![me] = job]
          \/ UNCHANGED romm
      BY <1>9 DEF Upload, SendUnmarked
    <2>2. romm' \in [People -> Vers]
      BY <1>1, <2>1 DEF TypeOK
    <2> QED
      BY <1>1, <1>9, <2>2 DEF Upload, SendUnmarked, TypeOK
  <1>10. CASE \E p \in People : Remove(p)
    BY <1>1, <1>10 DEF Remove, TypeOK
  <1>11. CASE PowerCut
    BY <1>11, CutFolders, CutTakes DEF TypeOK
  <1> QED
    BY <1>2, <1>3, <1>4, <1>5, <1>6, <1>7, <1>8, <1>9, <1>10, <1>11
       DEF Next, Recovery, Game, Beside, Flushed, CopyBegins, CopyEnds, CopyFails, NoteFails,
           Unnote, NothingToSync, ZipFails, Interrupted, Launch, Restore,
           Unpacked, LoadBegins, Loaded, NoteDrive, Started, SaveInGame,
           GameEnds, Evict, Plug, Switch

\* TypeOK, of the drive.
LEMMA DriveTypes ==
    ASSUME DriveAssumption, TypeOK, SomeNewest, Next
    PROVE  drive' \in [of : People \cup {Nobody}, ver : Vers]
  <1> USE DEF game, place, own, frame, memory, history
  <1>1. me \in People /\ 0 \in Vers /\ driveNote \in People \cup {Nobody} /\ drive.ver \in Vers
          /\ known \subseteq People
    BY DEF TypeOK, Vers, DriveAssumption
  <1>2. CASE UNCHANGED drive
    BY <1>2 DEF TypeOK
  <1>3. CASE LoadBegins
    BY <1>1, <1>3 DEF LoadBegins, Go, Of, Vers, TypeOK
  <1>4. CASE Loaded
    BY <1>1, <1>4 DEF Loaded, Go, Of, Vers, TypeOK
  <1>5. CASE SaveInGame
    <2>1. Newest + 1 \in 0 .. MaxMade
      <3>1. Newest \in 0 .. MaxMade /\ Newest < MaxMade /\ MaxMade \in Nat
        BY <1>5, NewestIs DEF SaveInGame, DriveAssumption
      <3> QED
        BY <3>1
    <2>2. Newest + 1 \in Vers
      BY <2>1 DEF Vers
    <2> QED
      BY <1>1, <1>5, <2>2 DEF SaveInGame, TypeOK, Of
  <1>6. CASE Evict
    BY <1>1, <1>6 DEF Evict, Evictable, Blank, Of, Vers, TypeOK
  <1>7. CASE PowerCut
    BY <1>7, CutDrive DEF Of, Vers, TypeOK
  <1> QED
    BY <1>2, <1>3, <1>4, <1>5, <1>6, <1>7
       DEF Next, Recovery, Game, Beside, RecoverDrive, CopyBegins, CopyEnds,
           CopyFails, NoteFails, Unnote, NothingToSync, WriteZip, ZipFails, Owe, OweFails,
           Interrupted, Unmark, Launch, Restore, Unpacked, MarkFolder,
           NoteDrive, Started, StartFails, GameEnds, Upload, SendUnmarked, Flushed, Plug,
           Switch, Remove

\* TypeOK, of its note.
LEMMA NoteTypes ==
    ASSUME DriveAssumption, TypeOK, SomeNewest, Next
    PROVE  driveNote' \in People \cup {Nobody} /\ plugged' \in BOOLEAN
  <1> USE DEF game, place, own, frame, memory, history
  <1>1. me \in People /\ 0 \in Vers /\ driveNote \in People \cup {Nobody} /\ drive.ver \in Vers
          /\ known \subseteq People
    BY DEF TypeOK, Vers, DriveAssumption
  <1>2. CASE UNCHANGED <<driveNote, plugged>>
    BY <1>2 DEF TypeOK
  <1>3. CASE RecoverDrive
    BY <1>1, <1>3 DEF RecoverDrive, Go, MarksTheirs, HasFolder, AfterDrive,
        TypeOK
  <1>4. CASE Unnote
    BY <1>1, <1>4 DEF Unnote, Go, AfterDrive, TypeOK
  <1>5. CASE NoteDrive
    BY <1>1, <1>5 DEF NoteDrive, TypeOK
  <1>6. CASE StartFails
    BY <1>1, <1>6 DEF StartFails, Go, TypeOK
  <1>7. CASE Evict
    BY <1>1, <1>7 DEF Evict, Evictable, Blank, Of, TypeOK
  <1>8. CASE Plug
    BY <1>1, <1>8 DEF Plug, TypeOK
  <1>9. CASE PowerCut
    BY <1>1, <1>9, CutDrive, CutTakes DEF TypeOK
  <1> QED
    BY <1>2, <1>3, <1>4, <1>5, <1>6, <1>7, <1>8, <1>9
       DEF Next, Recovery, Game, Beside, CopyBegins, CopyEnds, CopyFails, NoteFails,
           NothingToSync, WriteZip, ZipFails, Owe, OweFails, Interrupted, Unmark,
           Launch, Restore, Unpacked, MarkFolder, LoadBegins, Loaded, Started,
           SaveInGame, GameEnds, Upload, SendUnmarked, Flushed, Switch, Remove

\* TypeOK, of the people and the history.
LEMMA PeopleTypes ==
    ASSUME DriveAssumption, TypeOK, SomeNewest, Next
    PROVE  /\ kind' \in {"drive", "folder"} /\ me' \in known' /\ known' \subseteq People
           /\ lapsed' \subseteq People /\ mixed' \subseteq People
  <1> USE DEF game, place, own, frame, memory, history
  <1>1. me \in People /\ 0 \in Vers /\ driveNote \in People \cup {Nobody} /\ drive.ver \in Vers
          /\ known \subseteq People
    BY DEF TypeOK, Vers, DriveAssumption
  <1>2. CASE UNCHANGED <<kind, me, known, lapsed, mixed>>
    BY <1>2 DEF TypeOK
  <1>3. CASE CopyFails \/ NoteFails
    BY <1>1, <1>3 DEF CopyFails, NoteFails, Go, AfterFailedCopy, TypeOK
  <1>4. CASE ZipFails
    BY <1>1, <1>4 DEF ZipFails, Go, Changed, AfterSync, AfterDrive, TypeOK
  <1>5. CASE Owe \/ OweFails
    BY <1>1, <1>5 DEF Owe, OweFails, Go, AfterSync, AfterDrive, TypeOK
  <1>6. CASE SaveInGame
    BY <1>1, <1>6 DEF SaveInGame, Of, TypeOK
  <1>7. CASE PowerCut
    BY <1>1, <1>7, CutTakes, CutFolders DEF TypeOK
  <1>8. CASE \E p \in People : Switch(p)
    BY <1>1, <1>8 DEF Switch, TypeOK
  <1>9. CASE \E p \in People : Remove(p)
    BY <1>1, <1>9 DEF Remove, TypeOK
  <1> QED
    BY <1>2, <1>3, <1>4, <1>5, <1>6, <1>7, <1>8, <1>9
       DEF Next, Recovery, Game, Beside, RecoverDrive, CopyBegins, CopyEnds,
           Unnote, NothingToSync, WriteZip, Interrupted, Unmark, Launch,
           Restore, Unpacked, MarkFolder, LoadBegins, Loaded, NoteDrive,
           Started, StartFails, GameEnds, Upload, SendUnmarked, Flushed, Evict, Plug

\* TypeOK, of the frame thread.
LEMMA FrameTypes ==
    ASSUME DriveAssumption, TypeOK, SomeNewest, Next
    PROVE  /\ task' \in {"boot", "launch", "end"} /\ base' \in Vers \cup {Nothing}
           /\ fetched' \in Vers /\ stale' \in BOOLEAN
  <1> USE DEF game, place, own, frame, memory, history
  <1>1. me \in People /\ 0 \in Vers /\ driveNote \in People \cup {Nobody} /\ drive.ver \in Vers
          /\ known \subseteq People
    BY DEF TypeOK, Vers, DriveAssumption
  <1>2. CASE UNCHANGED <<task, base, fetched, stale>>
    BY <1>2 DEF TypeOK
  <1>3. CASE RecoverDrive
    BY <1>1, <1>3 DEF RecoverDrive, Go, MarksTheirs, HasFolder, AfterDrive,
        TypeOK
  <1>4. CASE Interrupted
    BY <1>1, <1>4 DEF Interrupted, Go, AfterNote, TypeOK
  <1>5. CASE Launch
    <2>1. stale' \in BOOLEAN
      BY <1>5, Zenon DEF Launch
    <2>2. fetched' \in Vers
      BY <1>1, <1>5 DEF Launch, TypeOK
    <2> QED
      BY <1>5, <2>1, <2>2 DEF Launch, TypeOK
  <1>6. CASE MarkFolder
    BY <1>1, <1>6 DEF MarkFolder, TypeOK
  <1>7. CASE NoteDrive
    BY <1>1, <1>7 DEF NoteDrive, TypeOK
  <1>8. CASE GameEnds
    BY <1>1, <1>8 DEF GameEnds, TypeOK
  <1>9. CASE Upload \/ SendUnmarked
    BY <1>1, <1>9 DEF Upload, SendUnmarked, TypeOK
  <1>10. CASE PowerCut
    BY <1>1, <1>10, CutTakes DEF TypeOK
  <1>11. CASE Restore \/ Unpacked
    BY <1>1, <1>11 DEF Restore, Unpacked, Go, TypeOK
  <1> QED
    BY <1>2, <1>3, <1>4, <1>5, <1>6, <1>7, <1>8, <1>9, <1>10, <1>11
       DEF Next, Recovery, Game, Beside, Flushed, CopyBegins, CopyEnds, CopyFails, NoteFails,
           Unnote, NothingToSync, WriteZip, ZipFails, Owe, OweFails, Unmark,
           LoadBegins, Loaded, Started, StartFails, SaveInGame,
           Evict, Plug, Switch, Remove, Go

\* TypeOK, of what else a power cut takes.
LEMMA MemoryTypes ==
    ASSUME DriveAssumption, TypeOK, Next
    PROVE  /\ job' \in Vers
           /\ loose' \in [copies : SUBSET known', notes : SUBSET known',
                         drive : SUBSET {"saves", "note"}]
  <1> USE DEF game, place, own, frame, memory, history
  <1>1. 0 \in Vers /\ me \in People /\ me \in known /\ zip \in [People -> Vers]
    BY DEF TypeOK, Vers, DriveAssumption
  <1>2. CASE UNCHANGED <<job, loose, known>>
    BY <1>2 DEF TypeOK
  <1>3. CASE RecoverDrive
    BY <1>3 DEF RecoverDrive, HasFolder, Loose, TypeOK
  <1>4. CASE CopyEnds
    BY <1>4 DEF CopyEnds, Loose, TypeOK
  <1>5. CASE Owe \/ OweFails
    BY <1>1, <1>5 DEF Owe, OweFails, TypeOK
  <1>6. CASE Unpacked \/ MarkFolder
    BY <1>1, <1>6 DEF Unpacked, MarkFolder, Loose, TypeOK
  <1>7. CASE Loaded \/ NoteDrive
    BY <1>7 DEF Loaded, NoteDrive, Loose, TypeOK
  <1>8. CASE SendUnmarked \/ Flushed
    BY <1>1, <1>8 DEF SendUnmarked, Flushed, Committed, TypeOK
  <1>9. CASE PowerCut
    BY <1>1, <1>9, CutTakes DEF Committed, TypeOK
  <1>10. CASE \E p \in People : Remove(p)
    <2>1. PICK p \in People : Remove(p)
      BY <1>10
    <2>2. loose \in [copies : SUBSET known, notes : SUBSET known,
                     drive : SUBSET {"saves", "note"}]
      BY DEF TypeOK
    <2>3. /\ loose' = [loose EXCEPT !.copies = @ \ {p}, !.notes = @ \ {p}]
          /\ known' = known \ {p} /\ job' = job
      BY <2>1 DEF Remove
    <2>4. /\ loose'.copies = loose.copies \ {p} /\ loose'.notes = loose.notes \ {p}
          /\ loose'.drive = loose.drive
          /\ loose' = [copies |-> loose'.copies, notes |-> loose'.notes, drive |-> loose'.drive]
      BY <2>2, <2>3
    <2> QED
      BY <2>2, <2>3, <2>4 DEF TypeOK
  <1> QED
    BY <1>2, <1>3, <1>4, <1>5, <1>6, <1>7, <1>8, <1>9, <1>10
       DEF Next, Recovery, Game, Beside, CopyBegins,
           CopyFails, NoteFails, Unnote, NothingToSync, WriteZip, ZipFails, Interrupted, Unmark,
           Launch, Restore, LoadBegins,
           Started, StartFails, SaveInGame, GameEnds, Upload, Evict, Plug, Switch

\* Saves come off the drive for somebody on the console.
LEMMA CopyTypes ==
    ASSUME DriveAssumption, TypeOK, SomeNewest, Playing,
           Next
    PROVE  pc' \in {"copy", "copying", "unnote"} => driveNote' \in known'
  <1> USE DEF game, place, own, frame, memory, history
  <1>1. me \in People /\ 0 \in Vers /\ driveNote \in People \cup {Nobody} /\ drive.ver \in Vers
          /\ known \subseteq People
    BY DEF TypeOK, Vers, DriveAssumption
  <1>2. CASE UNCHANGED <<pc, driveNote, known>>
    BY <1>2 DEF TypeOK
  <1>3. CASE RecoverDrive
    BY <1>1, <1>3 DEF RecoverDrive, Go, MarksTheirs, HasFolder, AfterDrive,
        TypeOK
  <1>4. CASE CopyBegins
    BY <1>1, <1>4 DEF CopyBegins, Go, TypeOK
  <1>5. CASE CopyEnds
    BY <1>1, <1>5 DEF CopyEnds, Go, TypeOK
  <1>6. CASE CopyFails \/ NoteFails
    BY <1>1, <1>6 DEF CopyFails, NoteFails, Go, AfterFailedCopy, TypeOK
  <1>7. CASE Unnote
    BY <1>1, <1>7 DEF Unnote, Go, AfterDrive, TypeOK
  <1>8. CASE NothingToSync
    BY <1>1, <1>8 DEF NothingToSync, Go, Changed, AfterSync, AfterDrive,
        TypeOK
  <1>9. CASE WriteZip
    BY <1>1, <1>9 DEF WriteZip, Go, Changed, TypeOK
  <1>10. CASE ZipFails
    BY <1>1, <1>10 DEF ZipFails, Go, Changed, AfterSync, AfterDrive, TypeOK
  <1>11. CASE Owe \/ OweFails
    BY <1>1, <1>11 DEF Owe, OweFails, Go, AfterSync, AfterDrive, TypeOK
  <1>12. CASE Interrupted
    BY <1>1, <1>12 DEF Interrupted, Go, AfterNote, TypeOK
  <1>13. CASE Unmark
    BY <1>1, <1>13 DEF Unmark, Go, AfterNote, TypeOK
  <1>14. CASE Launch
    BY <1>1, <1>14 DEF Launch, TypeOK
  <1>15. CASE Restore
    BY <1>1, <1>15 DEF Restore, Restorable, Go, TypeOK
  <1>16. CASE Unpacked
    BY <1>1, <1>16 DEF Unpacked, Go, TypeOK
  <1>17. CASE MarkFolder
    BY <1>1, <1>17 DEF MarkFolder, TypeOK
  <1>18. CASE LoadBegins
    BY <1>1, <1>18 DEF LoadBegins, Go, Of, TypeOK
  <1>19. CASE Loaded
    BY <1>1, <1>19 DEF Loaded, Go, Of, TypeOK
  <1>20. CASE NoteDrive
    BY <1>1, <1>20 DEF NoteDrive, TypeOK
  <1>21. CASE Started
    BY <1>1, <1>21 DEF Started, Go, TypeOK
  <1>22. CASE StartFails
    BY <1>1, <1>22 DEF StartFails, Go, TypeOK
  <1>23. CASE GameEnds
    BY <1>1, <1>23 DEF GameEnds, Playing, TypeOK
  <1>24. CASE Evict
    BY <1>1, <1>24 DEF Evict, Evictable, Blank, Of, TypeOK
  <1>25. CASE PowerCut
    BY <1>25, CutTakes
  <1>26. CASE \E p \in People : Remove(p)
    BY <1>1, <1>26 DEF Remove, TypeOK
  <1> QED
    BY <1>2, <1>3, <1>4, <1>5, <1>6, <1>7, <1>8, <1>9, <1>10, <1>11, <1>12,
       <1>13, <1>14, <1>15, <1>16, <1>17, <1>18, <1>19, <1>20, <1>21, <1>22,
       <1>23, <1>24, <1>25, <1>26
       DEF Next, Recovery, Game, Beside, SaveInGame, Upload, SendUnmarked, Flushed, Plug, Switch

\* Every step keeps the types.
LEMMA TypeStep == ASSUME DriveAssumption, TypeOK, SomeNewest, Playing, Next PROVE TypeOK'
  BY FolderType, MadeType, OwnTypes, DriveTypes, NoteTypes, PeopleTypes, FrameTypes,
     MemoryTypes, CopyTypes
     DEF TypeOK

\* Saves made are no fewer for what is made now.
LEMMA UptoGrows ==
    ASSUME DriveAssumption, TypeOK, SomeNewest, SaveInGame
    PROVE  /\ made' = [made EXCEPT ![me] = Newest + 1] /\ me \in People
           /\ Newest + 1 \in Nat /\ made'[me] = Newest + 1
           /\ \A p \in People : Upto(p) \subseteq Upto(p)' /\ Newest + 1 \notin Upto(p)
  <1>1. made' = [made EXCEPT ![me] = Newest + 1] /\ me \in People
    BY DEF SaveInGame, TypeOK
  <1>2. Newest \in Nat /\ \A p \in People : made[p] \in Nat /\ made[p] <= Newest
    <2>1. Newest \in 0 .. MaxMade /\ \A p \in People : made[p] <= Newest
      BY NewestIs
    <2> QED
      BY <2>1 DEF TypeOK, DriveAssumption
  <1>3. \A p \in People : made'[p] \in Nat /\ made[p] <= made'[p]
    BY <1>1, <1>2 DEF TypeOK
  <1>4. \A p \in People : Upto(p) \subseteq Upto(p)'
    <2>1. lapsed' = lapsed \ {me} /\ made'[me] # 0
      BY <1>1, <1>2 DEF SaveInGame, TypeOK
    <2>2. \A p \in People : p # me => made'[p] = made[p]
      BY <1>1 DEF TypeOK
    <2> QED
      BY <1>2, <1>3, <2>1, <2>2 DEF Upto
  <1>5. ASSUME NEW p \in People PROVE Newest + 1 \notin Upto(p)
    <2>1. made[p] \in Nat /\ made[p] <= Newest /\ Newest \in Nat
      BY <1>2
    <2>2. Newest + 1 \notin 0 .. made[p] /\ Newest + 1 \in Nat
      BY <2>1
    <2> QED
      BY <2>2 DEF Upto, DriveAssumption
  <1> QED
    BY <1>1, <1>2, <1>4, <1>5 DEF TypeOK

\* Every step keeps the numbers of the saves in what their person has made.
LEMMA NumberedStep ==
    ASSUME DriveAssumption, TypeOK, SomeNewest,
           Numbered, Noting, Stages, Loading, Playing, Zipped, Next
    PROVE  Numbered'
  <1> USE DEF game, place, own, frame, memory, history
  <1>1. me \in People /\ driveNote \in People \cup {Nobody} /\ known \subseteq People
    BY DEF TypeOK
  <1>2. CASE /\ UNCHANGED <<made, folder, zip, romm, drive, base, pc, driveNote,
                            me, task, fetched, job>>
             /\ lapsed \subseteq lapsed'
    BY <1>2 DEF Numbered, Upto, Based
  <1>3. CASE RecoverDrive
    BY <1>1, <1>3 DEF RecoverDrive, Go, MarksTheirs, HasFolder, AfterDrive,
        TypeOK, DriveAssumption, Noting, Stages, PastDrive, Loading, Playing,
        Of, Blank, Numbered, Upto, Based
  <1>4. CASE CopyBegins
    BY <1>1, <1>4 DEF CopyBegins, Go, TypeOK, DriveAssumption, Noting, Stages,
        PastDrive, Loading, Playing, Of, Blank, Numbered, Upto, Based
  <1>5. CASE CopyEnds
    BY <1>1, <1>5 DEF CopyEnds, Go, TypeOK, DriveAssumption, Noting, Stages,
        PastDrive, Loading, Playing, Of, Blank, Numbered, Upto, Based
  <1>6. CASE CopyFails \/ NoteFails
    BY <1>1, <1>6 DEF CopyFails, NoteFails, Go, AfterFailedCopy, TypeOK, DriveAssumption,
        Noting, Stages, PastDrive, Loading, Playing, Of, Blank, Numbered,
        Upto, Based
  <1>7. CASE Unnote
    BY <1>1, <1>7 DEF Unnote, Go, AfterDrive, TypeOK, DriveAssumption, Noting,
        Stages, PastDrive, Loading, Playing, Of, Blank, Numbered, Upto, Based
  <1>8. CASE NothingToSync
    BY <1>1, <1>8 DEF NothingToSync, Go, Changed, AfterSync, AfterDrive,
        Numbered, Upto, Based
  <1>9. CASE WriteZip
    BY <1>1, <1>9 DEF WriteZip, Go, Changed, TypeOK, DriveAssumption, Noting,
        Stages, PastDrive, Loading, Playing, Of, Blank, Numbered, Upto, Based
  <1>10. CASE ZipFails
    BY <1>1, <1>10 DEF ZipFails, Go, Changed, AfterSync, AfterDrive, Numbered,
        Upto, Based
  <1>11. CASE Owe \/ OweFails
    <2>1. pc' # "sync" /\ ~Based' /\ UNCHANGED <<made, folder, zip, romm, drive, driveNote,
                                                 me, fetched>>
      BY <1>11 DEF Owe, OweFails, Go, AfterSync, AfterDrive, Based
    <2>0. \A p \in People : Upto(p)' = Upto(p) \/ Upto(p) \subseteq Upto(p)'
      <3>1. \A p \in People : p \in lapsed /\ p \notin lapsed' => made[p] # 0
        BY <1>1, <1>11 DEF Owe, OweFails, Zipped
      <3>2. UNCHANGED made
        BY <2>1
      <3> QED
        BY <3>1, <3>2 DEF Upto
    <2>2. task' = task /\ pc # "idle" /\ job' \in {0, job, zip[me]}
      BY <1>11 DEF Owe, OweFails, Go
    <2>3. job' \in Upto(me)
      BY <1>1, <2>2 DEF Numbered, Upto, TypeOK
    <2> QED
      BY <1>1, <2>0, <2>1, <2>2, <2>3 DEF Numbered
  <1>12. CASE Interrupted
    BY <1>1, <1>12 DEF Interrupted, Go, AfterNote, Numbered, Upto, Based
  <1>13. CASE Unmark
    BY <1>1, <1>13 DEF Unmark, Go, AfterNote, Numbered, Upto, Based
  <1>14. CASE Launch
    BY <1>1, <1>14 DEF Launch, TypeOK, DriveAssumption, Noting, Stages,
        PastDrive, Loading, Playing, Of, Blank, Numbered, Upto, Based
  <1>15. CASE Restore
    BY <1>1, <1>15 DEF Restore, Restorable, Go, TypeOK, DriveAssumption,
        Noting, Stages, PastDrive, Loading, Playing, Of, Blank, Numbered,
        Upto, Based
  <1>16. CASE Unpacked
    BY <1>1, <1>16 DEF Unpacked, Go, TypeOK, DriveAssumption, Noting, Stages,
        PastDrive, Loading, Playing, Of, Blank, Numbered, Upto, Based
  <1>17. CASE MarkFolder
    BY <1>1, <1>17 DEF MarkFolder, TypeOK, DriveAssumption, Noting, Stages,
        PastDrive, Loading, Playing, Of, Blank, Numbered, Upto, Based
  <1>18. CASE LoadBegins
    BY <1>1, <1>18 DEF LoadBegins, Go, Of, TypeOK, DriveAssumption, Noting,
        Stages, PastDrive, Loading, Playing, Blank, Numbered, Upto, Based
  <1>19. CASE Loaded
    BY <1>1, <1>19 DEF Loaded, Go, Of, TypeOK, DriveAssumption, Noting,
        Stages, PastDrive, Loading, Playing, Blank, Numbered, Upto, Based
  <1>20. CASE NoteDrive
    BY <1>1, <1>20 DEF NoteDrive, TypeOK, DriveAssumption, Noting, Stages,
        PastDrive, Loading, Playing, Of, Blank, Numbered, Upto, Based
  <1>21. CASE Started
    BY <1>1, <1>21 DEF Started, Go, Numbered, Upto, Based
  <1>22. CASE StartFails
    BY <1>1, <1>22 DEF StartFails, Go, Numbered, Upto, Based
  <1>23. CASE SaveInGame
    <2> HIDE DEF game, place, own, frame, memory, history
    <2>0. job \in Upto(me)'
      BY <1>1, <1>23, UptoGrows DEF Numbered, SaveInGame
    <2>1. CASE kind = "drive"
      <3>1. drive' = Of(me, Newest + 1) /\ UNCHANGED <<folder, zip, romm, base, pc, driveNote, me, task, fetched, job, loose>>
        BY <1>23, <2>1 DEF SaveInGame, frame, memory, own
      <3>2. drive'.ver \in Upto(me)' /\ drive'.of = me
        BY <1>23, <3>1, UptoGrows DEF Of, Upto
      <3> QED
        BY <1>1, <1>23, <2>0, <2>1, <3>1, <3>2, UptoGrows
           DEF Numbered, Based, Playing, SaveInGame
    <2>2. CASE kind # "drive"
      <3>1. folder' = [folder EXCEPT ![me] = Newest + 1] /\ UNCHANGED <<drive, zip, romm, base, pc, driveNote, me, task, fetched, job, loose>>
        BY <1>23, <2>2 DEF SaveInGame, frame, memory, own
      <3>2. \A p \in People : folder'[p] \in Upto(p)'
        <4>1. folder'[me] \in Upto(me)'
          BY <1>1, <1>23, <3>1, UptoGrows DEF Upto, TypeOK
        <4> QED
          BY <1>1, <1>23, <3>1, <4>1, UptoGrows DEF Numbered, TypeOK
      <3> QED
        BY <1>1, <1>23, <2>0, <3>1, <3>2, UptoGrows DEF Numbered, Based
    <2> QED
      BY <2>1, <2>2
  <1>24. CASE GameEnds
    BY <1>1, <1>24 DEF GameEnds, TypeOK, DriveAssumption, Noting, Stages,
        PastDrive, Loading, Playing, Of, Blank, Numbered, Upto, Based
  <1>25. CASE Upload \/ SendUnmarked
    BY <1>1, <1>25 DEF Upload, SendUnmarked, TypeOK, DriveAssumption, Noting, Stages,
        PastDrive, Loading, Playing, Of, Blank, Numbered, Upto, Based
  <1>26. CASE Evict
    BY <1>1, <1>26 DEF Evict, Evictable, Blank, Of, TypeOK, DriveAssumption,
        Noting, Stages, PastDrive, Loading, Playing, Numbered, Upto, Based
  <1>27. CASE PowerCut
    <2>1. /\ pc' = "drive" /\ task' = "boot" /\ job' = 0
          /\ UNCHANGED <<made, zip, romm, me>>
      BY <1>27, CutTakes
    <2>2. \A p \in People :
             /\ Upto(p) \subseteq Upto(p)' /\ 0 \in Upto(p)'
             /\ p \in lapsed' => Torn \in Upto(p)'
      BY <1>1, <1>27, <2>1, CutFolders DEF Upto, TypeOK
    <2>3. \A p \in People : folder'[p] \in Upto(p)'
      BY <1>27, <2>2, CutFolders DEF Numbered
    <2>4. /\ drive'.of = drive.of /\ driveNote' \in {driveNote, Nobody}
          /\ drive' = drive \/ drive'.ver = Torn
          /\ driveNote' # Nobody => drive' = drive \/ driveNote' \in lapsed'
      BY <1>27, CutDrive DEF Of, TypeOK
    <2>5. ASSUME NEW p \in People, drive'.of = p PROVE drive'.ver \in Upto(p)' \cup {Torn}
      BY <2>2, <2>4, <2>5 DEF Numbered
    <2>6. ASSUME NEW p \in People, driveNote' = p PROVE drive'.ver \in Upto(p)'
      BY <1>1, <2>2, <2>4, <2>6 DEF Numbered, DriveAssumption
    <2>7. /\ \A p \in People : zip'[p] \in Upto(p)' /\ romm'[p] \in Upto(p)'
          /\ job' \in Upto(me)'
      BY <1>1, <2>1, <2>2 DEF Numbered
    <2>8. driveNote' \in People \cup {Nobody}
      BY <1>1, <2>4
    <2> QED
      BY <1>1, <2>1, <2>3, <2>5, <2>6, <2>7, <2>8 DEF Numbered, Upto, Based
  <1>28. CASE \E p \in People : Switch(p)
    BY <1>1, <1>28 DEF Switch, TypeOK, DriveAssumption, Noting, Stages,
        PastDrive, Loading, Playing, Of, Blank, Numbered, Upto, Based
  <1>29. CASE \E p \in People : Remove(p)
    BY <1>1, <1>29 DEF Remove, TypeOK, DriveAssumption, Noting, Stages,
        PastDrive, Loading, Playing, Of, Blank, Numbered, Upto, Based
  <1> QED
    BY <1>2, <1>3, <1>4, <1>5, <1>6, <1>7, <1>8, <1>9, <1>10, <1>11, <1>12,
       <1>13, <1>14, <1>15, <1>16, <1>17, <1>18, <1>19, <1>20, <1>21, <1>22,
       <1>23, <1>24, <1>25, <1>26, <1>27, <1>28, <1>29
       DEF Next, Recovery, Game, Beside, Flushed, Plug, Go

\* Every step keeps the newest save in the folder or on the drive.
LEMMA NewerStep ==
    ASSUME DriveAssumption, TypeOK, SomeNewest, Numbered,
           Noting, Stages, Fetching, Loading, Playing, Zipped, Newer, Queued, Sent,
           Next
    PROVE  Newer'
  <1> USE DEF game, place, own, frame, memory, history
  <1>1. /\ me \in known /\ me \in People /\ driveNote \in People \cup {Nobody} /\ known \subseteq People
          /\ folder \in [People -> Vers] /\ made \in [People -> 0 .. MaxMade]
          /\ zip \in [People -> Vers] /\ owed \in [People -> BOOLEAN] /\ romm \in [People -> Vers]
          /\ Nobody \notin People
    BY DEF TypeOK, DriveAssumption
  <1>2. CASE UNCHANGED <<folder, made, driveNote, drive, romm, zip, owed,
                          known, lapsed, pc, fetched, me>>
    BY <1>2 DEF Newer, NewerOf, Here
  <1>3. CASE RecoverDrive
    BY <1>1, <1>3 DEF RecoverDrive, Go, MarksTheirs, HasFolder, AfterDrive,
        Noting, Playing, Loading, Stages, PastDrive, Of, Blank, Newer,
        NewerOf, Here
  <1>4. CASE CopyBegins
    BY <1>1, <1>4 DEF CopyBegins, Go, Noting, Playing, Loading, Stages,
        PastDrive, Of, Blank, Newer, NewerOf, Here
  <1>5. CASE CopyEnds
    <2>1. driveNote \in known /\ folder' = [folder EXCEPT ![driveNote] = drive.ver]
          /\ UNCHANGED <<made, driveNote, drive, romm, zip, owed, known, lapsed>>
          /\ pc' = "unnote" /\ made[driveNote] # Torn
      BY <1>1, <1>5 DEF CopyEnds, Go, TypeOK, DriveAssumption
    <2>2. driveNote \notin lapsed => drive.ver = made[driveNote]
      BY <2>1 DEF Newer, NewerOf, Here
    <2>3. \A p \in People : folder'[p] = IF p = driveNote THEN drive.ver ELSE folder[p]
      BY <1>1, <2>1 DEF TypeOK
    <2>4. \A p \in known \ lapsed : NewerOf(p)'
      BY <1>1, <2>1, <2>2, <2>3 DEF Newer, NewerOf, Here
    <2> QED
      BY <1>1, <2>1, <2>3, <2>4 DEF Newer
  <1>6. CASE CopyFails \/ NoteFails
    BY <1>1, <1>6 DEF CopyFails, NoteFails, Go, AfterFailedCopy, TypeOK, Newer, NewerOf,
        Here
  <1>7. CASE Unnote
    BY <1>1, <1>7 DEF Unnote, Go, AfterDrive, Noting, Playing, Loading,
        Stages, PastDrive, Of, Blank, Newer, NewerOf, Here
  <1>8. CASE NothingToSync
    BY <1>1, <1>8 DEF NothingToSync, Go, Changed, AfterSync, AfterDrive,
        Zipped, Newer, NewerOf, Here
  <1>9. CASE WriteZip
    BY <1>1, <1>9 DEF WriteZip, Go, Changed, Zipped, Newer, NewerOf, Here
  <1>10. CASE ZipFails
    BY <1>1, <1>10 DEF ZipFails, Go, Changed, AfterSync, AfterDrive, Zipped,
        Newer, NewerOf, Here
  <1>11. CASE Owe \/ OweFails
    BY <1>1, <1>11 DEF Owe, OweFails, Go, AfterSync, AfterDrive, Zipped, Newer, NewerOf,
        Here
  <1>12. CASE Interrupted
    BY <1>1, <1>12 DEF Interrupted, Go, AfterNote, Newer, NewerOf, Here
  <1>13. CASE Unmark
    BY <1>1, <1>13 DEF Unmark, Go, AfterNote, Zipped, Newer, NewerOf, Here
  <1>14. CASE Launch
    BY <1>1, <1>14 DEF Launch, Newer, NewerOf, Here
  <1>15. CASE Restore
    BY <1>1, <1>15 DEF Restore, Restorable, Go, Stages, PastDrive, PastNote,
        Fetching, Sent, SentFor, Safe, Newer, NewerOf, Here
  <1>16. CASE Unpacked
    BY <1>1, <1>16 DEF Unpacked, Go, Stages, PastDrive, PastNote, Fetching,
        Sent, SentFor, Safe, Newer, NewerOf, Here
  <1>17. CASE MarkFolder
    BY <1>1, <1>17 DEF MarkFolder, Newer, NewerOf, Here
  <1>18. CASE LoadBegins
    BY <1>1, <1>18 DEF LoadBegins, Go, Of, Noting, Playing, Loading, Stages,
        PastDrive, Blank, Newer, NewerOf, Here
  <1>19. CASE Loaded
    BY <1>1, <1>19 DEF Loaded, Go, Of, Noting, Playing, Loading, Stages,
        PastDrive, Blank, Newer, NewerOf, Here
  <1>20. CASE NoteDrive
    BY <1>1, <1>20 DEF NoteDrive, Noting, Playing, Loading, Stages, PastDrive,
        Of, Blank, Newer, NewerOf, Here
  <1>21. CASE Started
    BY <1>1, <1>21 DEF Started, Go, Newer, NewerOf, Here
  <1>22. CASE StartFails
    BY <1>1, <1>22 DEF StartFails, Go, Playing, Noting, Loading, Of, Newer,
        NewerOf, Here
  <1>23. CASE SaveInGame
    <2>1. \A p \in People : made'[p] = IF p = me THEN Newest + 1 ELSE made[p]
      BY <1>1, <1>23, UptoGrows
    <2>2. ASSUME NEW p \in known \ lapsed, p # me PROVE NewerOf(p)'
      <3>1. UNCHANGED <<made[p], folder[p], romm[p], zip[p], owed[p], driveNote>>
        BY <1>1, <1>23, <2>1, <2>2 DEF SaveInGame
      <3>2. driveNote = p => UNCHANGED drive
        BY <1>1, <1>23, <2>2 DEF SaveInGame, Playing
      <3> QED
        BY <2>2, <3>1, <3>2 DEF Newer, NewerOf, Here
    <2>3. romm'[me] # made'[me] /\ zip'[me] # made'[me]
      BY <1>1, <1>23, <2>1, UptoGrows DEF SaveInGame, Numbered
    <2>4. Here(me)'
      BY <1>1, <1>23, <2>1 DEF SaveInGame, Of, Here, Playing, TypeOK
    <2>5. NewerOf(me)'
      BY <1>23, <2>3, <2>4 DEF SaveInGame, NewerOf
    <2>6. driveNote' \in known' \ lapsed' => drive'.ver \in {folder'[driveNote'], made'[driveNote']}
      <3>1. CASE kind = "drive"
        BY <1>1, <1>23, <2>1, <3>1 DEF SaveInGame, Of, Playing
      <3>2. CASE kind # "drive"
        BY <1>1, <1>23, <2>1, <3>2 DEF SaveInGame, Noting
      <3> QED
        BY <3>1, <3>2
    <2> QED
      BY <1>1, <1>23, <2>2, <2>5, <2>6 DEF SaveInGame, Newer
  <1>24. CASE GameEnds
    BY <1>1, <1>24 DEF GameEnds, Newer, NewerOf, Here
  <1>25. CASE Upload \/ SendUnmarked
    BY <1>1, <1>25 DEF Upload, SendUnmarked, Safe, Queued, Newer, NewerOf, Here
  <1>26. CASE Evict
    BY <1>1, <1>26 DEF Evict, Evictable, Blank, Of, Noting, Playing, Loading,
        Stages, PastDrive, Newer, NewerOf, Here
  <1>27. CASE PowerCut
    <2>1. pc' = "drive" /\ UNCHANGED <<made, zip, romm, owed, known, me>>
      BY <1>27, CutTakes
    <2>2. /\ lapsed \subseteq lapsed'
          /\ \A p \in People \ lapsed' : folder'[p] = folder[p]
      BY <1>27, CutFolders
    <2>3. \A p \in People \ lapsed' :
             /\ driveNote' = p => driveNote = p /\ drive' = drive
             /\ driveNote = p => driveNote' = p \/ Safe(p)
      BY <1>1, <1>27, CutDrive
    <2>4. \A p \in known' \ lapsed' : NewerOf(p)'
      BY <1>1, <2>1, <2>2, <2>3 DEF Newer, NewerOf, Here, Safe
    <2>5. driveNote' \in known' \ lapsed' =>
             drive'.ver \in {folder'[driveNote'], made'[driveNote']} \/ folder'[driveNote'] = Torn
      BY <1>1, <2>1, <2>2, <2>3 DEF Newer
    <2> QED
      BY <2>1, <2>4, <2>5 DEF Newer
  <1>28. CASE \E p \in People : Switch(p)
    BY <1>1, <1>28 DEF Switch, Noting, Playing, Loading, Stages, PastDrive,
        Of, Blank, Newer, NewerOf, Here
  <1>29. CASE \E p \in People : Remove(p)
    BY <1>1, <1>29 DEF Remove, Noting, Playing, Loading, Stages, PastDrive,
        Of, Blank, Newer, NewerOf, Here
  <1> QED
    BY <1>2, <1>3, <1>4, <1>5, <1>6, <1>7, <1>8, <1>9, <1>10, <1>11, <1>12,
       <1>13, <1>14, <1>15, <1>16, <1>17, <1>18, <1>19, <1>20, <1>21, <1>22,
       <1>23, <1>24, <1>25, <1>26, <1>27, <1>28, <1>29
       DEF Next, Recovery, Game, Beside, Flushed, Plug

\* What is queued with no marker goes with the next zip's marker, or lapses.
LEMMA QueuedStep ==
    ASSUME DriveAssumption, TypeOK, SomeNewest, Numbered, Queued, Next
    PROVE  Queued'
  <1> USE DEF game, place, own, frame, memory, history
  <1>1. me \in People /\ owed \in [People -> BOOLEAN] /\ romm \in [People -> Vers]
    BY DEF TypeOK
  <1>2. CASE UNCHANGED <<job, owed, me, romm, made>> /\ lapsed \subseteq lapsed'
    BY <1>2 DEF Queued
  <1>3. CASE Owe \/ OweFails
    BY <1>1, <1>3 DEF Owe, OweFails, Queued
  <1>4. CASE SaveInGame
    BY <1>1, <1>4, UptoGrows DEF SaveInGame, Numbered, Queued
  <1>5. CASE Upload \/ SendUnmarked
    BY <1>1, <1>5 DEF Upload, SendUnmarked, Queued
  <1>6. CASE PowerCut \/ \E p \in People : Switch(p)
    BY <1>6, CutTakes DEF Switch, Queued
  <1>7. CASE \E p \in People : Remove(p)
    BY <1>1, <1>7 DEF Remove, Queued
  <1> QED
    BY <1>2, <1>3, <1>4, <1>5, <1>6, <1>7
       DEF Next, Recovery, Game, Beside, RecoverDrive, CopyBegins, CopyEnds,
           CopyFails, NoteFails, Unnote, NothingToSync, WriteZip, ZipFails, Interrupted, Unmark,
           Launch, Restore, Unpacked, MarkFolder, LoadBegins, Loaded, NoteDrive,
           Started, StartFails, GameEnds, Flushed, Evict, Plug

\* Every step sends a save before its note goes.
LEMMA SentStep ==
    ASSUME DriveAssumption, TypeOK, SomeNewest, Numbered,
           Noting, Stages, Fetching, Loading, Playing, Zipped, Newer, Queued, Sent,
           Next
    PROVE  Sent'
  <1> USE DEF game, place, own, frame, memory, history
  <1>1. /\ me \in known /\ me \in People /\ driveNote \in People \cup {Nobody} /\ known \subseteq People
          /\ folder \in [People -> Vers] /\ made \in [People -> 0 .. MaxMade]
          /\ zip \in [People -> Vers] /\ owed \in [People -> BOOLEAN] /\ romm \in [People -> Vers]
          /\ Nobody \notin People
    BY DEF TypeOK, DriveAssumption
  <1>2. CASE UNCHANGED <<folder, made, driveNote, folderNote, romm, zip, owed,
                          known, lapsed, pc, task, me, base, kind>>
    BY <1>2 DEF Sent, SentFor, BaseSent, UnmarkSent, Safe, Based, Changed
  <1>3. CASE RecoverDrive
    <2>1. ASSUME NEW p \in known' \ lapsed', p # me PROVE SentFor(p)'
      BY <1>1, <1>3, <2>1 DEF RecoverDrive, Go, MarksTheirs, HasFolder,
          AfterDrive, TypeOK, Sent, SentFor, Safe, Changed
    <2>2. ASSUME me \notin lapsed' PROVE SentFor(me)'
      BY <1>1, <1>3, <2>2 DEF RecoverDrive, Go, MarksTheirs, HasFolder,
          AfterDrive, TypeOK, Sent, SentFor, Safe, Changed
    <2>3. BaseSent'
      BY <1>1, <1>3 DEF RecoverDrive, Go, MarksTheirs, HasFolder, AfterDrive,
          TypeOK, Sent, BaseSent, Based, Safe, SentFor, Noting
    <2>4. UnmarkSent'
      BY <1>1, <1>3 DEF RecoverDrive, Go, MarksTheirs, HasFolder, AfterDrive,
          TypeOK, Sent, UnmarkSent, Safe
    <2> QED
      BY <1>1, <1>3, <2>1, <2>2, <2>3, <2>4 DEF Sent, RecoverDrive
  <1>4. CASE CopyBegins
    <2>1. ASSUME NEW p \in known' \ lapsed', p # me PROVE SentFor(p)'
      BY <1>1, <1>4, <2>1 DEF CopyBegins, Go, TypeOK, DriveAssumption, Sent,
          SentFor, Safe, Changed, Noting
    <2>2. ASSUME me \notin lapsed' PROVE SentFor(me)'
      BY <1>1, <1>4, <2>2 DEF CopyBegins, Go, TypeOK, DriveAssumption, Sent,
          SentFor, Safe, Changed, Noting
    <2>3. BaseSent'
      BY <1>1, <1>4 DEF CopyBegins, Go, TypeOK, DriveAssumption, Sent, BaseSent,
          Based, Safe, Noting
    <2>4. UnmarkSent'
      BY <1>1, <1>4 DEF CopyBegins, Go, TypeOK, DriveAssumption, Sent, UnmarkSent,
          Safe
    <2> QED
      BY <1>1, <1>4, <2>1, <2>2, <2>3, <2>4 DEF Sent, CopyBegins
  <1>5. CASE CopyEnds
    <2>1. ASSUME NEW p \in known' \ lapsed', p # me PROVE SentFor(p)'
      BY <1>1, <1>5, <2>1 DEF CopyEnds, Go, TypeOK, DriveAssumption, Sent,
          SentFor, Safe, Changed, Noting
    <2>2. ASSUME me \notin lapsed' PROVE SentFor(me)'
      <3> SUFFICES ASSUME folder'[me] = made[me], ~folderNote[me],
                          ~(driveNote = me /\ Changed')
                   PROVE  Safe(me)
        BY <1>1, <1>5, <2>2 DEF CopyEnds, Go, SentFor, Safe
      <3>1. CASE driveNote # me
        BY <1>1, <1>5, <2>2, <3>1 DEF CopyEnds, Go, Sent, SentFor
      <3>2. CASE driveNote = me /\ folder'[me] = base
        BY <1>1, <1>5, <2>2, <3>2 DEF CopyEnds, Go, Sent, BaseSent, Based
      <3>3. CASE folder'[me] = 0
        BY <1>1, <1>5, <2>2, <3>3 DEF CopyEnds, Numbered, Upto, Safe
      <3> QED
        BY <1>1, <1>5, <3>1, <3>2, <3>3 DEF CopyEnds, Go, Changed
    <2>3. BaseSent'
      BY <1>1, <1>5 DEF CopyEnds, Go, TypeOK, DriveAssumption, Sent, BaseSent,
          Based, Safe, Noting
    <2>4. UnmarkSent'
      BY <1>1, <1>5 DEF CopyEnds, Go, TypeOK, DriveAssumption, Sent, UnmarkSent,
          Safe
    <2> QED
      BY <1>1, <1>5, <2>1, <2>2, <2>3, <2>4 DEF Sent, CopyEnds
  <1>6. CASE CopyFails
    BY <1>1, <1>6 DEF CopyFails, Go, AfterFailedCopy, TypeOK, Noting, Newer,
        NewerOf, Here, Sent, SentFor, BaseSent, UnmarkSent, Safe, Based,
        Changed
  <1>7. CASE Unnote
    BY <1>1, <1>7 DEF Unnote, Go, AfterDrive, Noting, Playing, Loading,
        Stages, PastDrive, PastNote, Newer, NewerOf, Here, Sent, SentFor,
        BaseSent, UnmarkSent, Safe, Based, Changed
  <1>8. CASE NothingToSync
    <2>1. ASSUME NEW p \in known' \ lapsed', p # me PROVE SentFor(p)'
      BY <1>1, <1>8, <2>1 DEF NothingToSync, Go, AfterSync, AfterDrive, Sent,
          SentFor, Safe, Changed
    <2>2. ASSUME me \notin lapsed' PROVE SentFor(me)'
      <3>1. CASE folder[me] # made[me]
        BY <1>1, <1>8, <3>1 DEF NothingToSync, Go, SentFor
      <3>2. CASE folder[me] = base /\ base = made[me]
        BY <1>1, <1>8, <2>2, <3>2 DEF NothingToSync, Go, Sent, BaseSent, Based, SentFor, Safe
      <3>3. CASE folder[me] = 0 /\ made[me] = 0
        BY <1>1, <1>8, <2>2, <3>3 DEF NothingToSync, Go, Numbered, Upto, SentFor, Safe
      <3> QED
        BY <1>8, <3>1, <3>2, <3>3 DEF NothingToSync, Changed
    <2>3. BaseSent'
      BY <1>1, <1>8 DEF NothingToSync, Go, AfterSync, AfterDrive, Sent, BaseSent,
          Based, Safe
    <2>4. UnmarkSent'
      <3>1. CASE folder[me] # made[me]
        BY <1>1, <1>8, <3>1 DEF NothingToSync, Go, UnmarkSent
      <3>2. CASE folder[me] = base /\ base = made[me]
        BY <1>1, <1>8, <3>2 DEF NothingToSync, Go, AfterSync, AfterDrive, Sent, BaseSent, Based,
                            UnmarkSent, Safe, DriveAssumption, TypeOK
      <3>3. CASE folder[me] = 0 /\ made[me] = 0
        <4>1. CASE me \in lapsed
          BY <1>8, <4>1 DEF NothingToSync, Go, UnmarkSent
        <4>2. CASE me \notin lapsed
          BY <1>1, <1>8, <3>3, <4>2 DEF NothingToSync, Go, Numbered, Upto, UnmarkSent, Safe
        <4> QED
          BY <4>1, <4>2
      <3> QED
        BY <1>8, <3>1, <3>2, <3>3 DEF NothingToSync, Changed
    <2> QED
      BY <1>1, <1>8, <2>1, <2>2, <2>3, <2>4 DEF Sent, NothingToSync
  <1>9. CASE WriteZip
    BY <1>1, <1>9 DEF WriteZip, Go, Changed, Zipped, Newer, NewerOf, Here,
        Noting, Stages, PastDrive, PastNote, Sent, SentFor, BaseSent,
        UnmarkSent, Safe, Based
  <1>10. CASE ZipFails
    BY <1>1, <1>10 DEF ZipFails, Go, Changed, AfterSync, AfterDrive, Zipped,
        Newer, NewerOf, Here, Noting, Stages, PastDrive, PastNote, Sent,
        SentFor, BaseSent, UnmarkSent, Safe, Based
  <1>11. CASE Owe \/ OweFails
    BY <1>1, <1>11 DEF Owe, OweFails, Go, AfterSync, AfterDrive, Zipped, Newer, NewerOf,
        Here, Noting, Stages, PastDrive, PastNote, Sent, SentFor, BaseSent,
        UnmarkSent, Safe, Based, Changed
  <1>12. CASE Interrupted
    <2>1. ASSUME NEW p \in known' \ lapsed', p # me PROVE SentFor(p)'
      BY <1>1, <1>12, <2>1 DEF Interrupted, Go, AfterNote, TypeOK, DriveAssumption,
          Sent, SentFor, Safe, Changed
    <2>2. ASSUME me \notin lapsed' PROVE SentFor(me)'
      BY <1>1, <1>12, <2>2 DEF Interrupted, Go, AfterNote, TypeOK, DriveAssumption,
          Sent, SentFor, Safe, Changed
    <2>3. BaseSent'
      BY <1>1, <1>12 DEF Interrupted, Go, AfterNote, TypeOK, DriveAssumption, Sent,
          BaseSent, Based, Safe
    <2>4. UnmarkSent'
      BY <1>1, <1>12 DEF Interrupted, Go, AfterNote, TypeOK, DriveAssumption, Sent,
          UnmarkSent, Safe
    <2> QED
      BY <1>1, <1>12, <2>1, <2>2, <2>3, <2>4 DEF Sent, Interrupted
  <1>13. CASE Unmark
    BY <1>1, <1>13 DEF Unmark, Go, AfterNote, Zipped, Newer, NewerOf, Here,
        Noting, Stages, PastDrive, PastNote, Sent, SentFor, BaseSent,
        UnmarkSent, Safe, Based, Changed
  <1>14. CASE Launch
    BY <1>1, <1>14 DEF Launch, Sent, SentFor, BaseSent, UnmarkSent, Safe,
        Based, Changed
  <1>15. CASE Restore
    BY <1>1, <1>15 DEF Restore, Restorable, Go, Stages, PastDrive, PastNote,
        Newer, NewerOf, Here, Fetching, Loading, Sent, SentFor, BaseSent,
        UnmarkSent, Safe, Based, Changed
  <1>16. CASE Unpacked
    BY <1>1, <1>16 DEF Unpacked, Go, Stages, PastDrive, PastNote, Newer,
        NewerOf, Here, Fetching, Loading, Sent, SentFor, BaseSent, UnmarkSent,
        Safe, Based, Changed
  <1>17. CASE MarkFolder
    BY <1>1, <1>17 DEF MarkFolder, Stages, PastDrive, PastNote, Newer,
        NewerOf, Here, Fetching, Loading, Sent, SentFor, BaseSent, UnmarkSent,
        Safe, Based, Changed
  <1>18. CASE LoadBegins
    BY <1>1, <1>18 DEF LoadBegins, Go, Of, Noting, Playing, Loading, Stages,
        PastDrive, PastNote, Newer, NewerOf, Here, Sent, SentFor, BaseSent,
        UnmarkSent, Safe, Based, Changed
  <1>19. CASE Loaded
    BY <1>1, <1>19 DEF Loaded, Go, Of, Noting, Playing, Loading, Stages,
        PastDrive, PastNote, Newer, NewerOf, Here, Sent, SentFor, BaseSent,
        UnmarkSent, Safe, Based, Changed
  <1>20. CASE NoteDrive
    BY <1>1, <1>20 DEF NoteDrive, Noting, Playing, Loading, Stages, PastDrive,
        PastNote, Newer, NewerOf, Here, Sent, SentFor, BaseSent, UnmarkSent,
        Safe, Based, Changed
  <1>21. CASE Started
    BY <1>1, <1>21 DEF Started, Go, Sent, SentFor, BaseSent, UnmarkSent, Safe,
        Based, Changed
  <1>22. CASE StartFails
    BY <1>1, <1>22 DEF StartFails, Go, Playing, Noting, Loading, Of, Newer,
        NewerOf, Here, Sent, SentFor, BaseSent, UnmarkSent, Safe, Based,
        Changed
  <1>23. CASE SaveInGame
    <2>1. ASSUME NEW p \in known' \ lapsed', p # me PROVE SentFor(p)'
      BY <1>1, <1>23, <2>1 DEF SaveInGame, Sent, SentFor, Safe, Changed
    <2>2. ASSUME me \notin lapsed' PROVE SentFor(me)'
      <3>1. CASE kind = "drive"
        <4>1. folder'[me] # made'[me]
          BY <1>1, <1>23, <3>1, UptoGrows DEF SaveInGame, Numbered
        <4> QED
          BY <1>23, <4>1 DEF SaveInGame, SentFor
      <3>2. CASE kind # "drive"
        <4>1. folderNote'[me]
          BY <1>1, <1>23, <3>2 DEF SaveInGame, Playing, TypeOK
        <4> QED
          BY <1>23, <4>1 DEF SaveInGame, SentFor
      <3> QED
        BY <3>1, <3>2
    <2>3. BaseSent'
      <3>1. base' # made'[me]
        BY <1>1, <1>23, UptoGrows DEF SaveInGame, Numbered, Based, DriveAssumption
      <3> QED
        BY <1>23, <3>1 DEF SaveInGame, BaseSent
    <2>4. UnmarkSent'
      BY <1>1, <1>23 DEF SaveInGame, Sent, UnmarkSent, Safe
    <2> QED
      BY <1>1, <1>23, <2>1, <2>2, <2>3, <2>4 DEF Sent, SaveInGame
  <1>24. CASE GameEnds
    BY <1>1, <1>24 DEF GameEnds, Playing, Noting, Newer, Sent, SentFor,
        BaseSent, UnmarkSent, Safe, Based, Changed
  <1>25. CASE Upload \/ SendUnmarked
    BY <1>1, <1>25 DEF Upload, SendUnmarked, Queued, Newer, NewerOf, Here, Sent, SentFor,
        BaseSent, UnmarkSent, Safe, Based, Changed
  <1>26. CASE Evict
    BY <1>1, <1>26 DEF Evict, Evictable, Blank, Of, Noting, Playing, Loading,
        Stages, PastDrive, PastNote, Newer, NewerOf, Here, Sent, SentFor,
        BaseSent, UnmarkSent, Safe, Based, Changed
  <1>27. CASE PowerCut
    <2>0. /\ pc' = "drive" /\ task' = "boot" /\ base' = Nothing
          /\ UNCHANGED <<made, zip, romm, owed, known, me, kind>>
      BY <1>27, CutTakes
    <2>1. ASSUME NEW p \in known \ lapsed', folder'[p] = made[p], ~folderNote'[p]
          PROVE  Safe(p)
      <3>1. /\ p \notin lapsed /\ p \in People
            /\ folder[p] = made[p] /\ (folderNote[p] => Safe(p))
            /\ p = me => ~Unmarked
        BY <1>1, <1>27, <2>1, CutFolders
      <3>2. CASE p # me \/ folderNote[p]
        BY <2>1, <3>1, <3>2 DEF Sent, SentFor
      <3>3. CASE p = me /\ ~folderNote[p]
        <4>1. Safe(me) \/ (pc = "sync" /\ ~Changed)
          BY <2>1, <3>1, <3>3 DEF Sent, SentFor, Unmarked
        <4>2. CASE pc = "sync" /\ folder[me] = base
          BY <1>1, <3>1, <3>3, <4>2 DEF Sent, BaseSent, Based
        <4>3. CASE folder[me] = 0
          BY <1>1, <3>1, <3>3, <4>3 DEF Numbered, Upto, Safe
        <4> QED
          BY <3>3, <4>1, <4>2, <4>3 DEF Changed
      <3> QED
        BY <3>2, <3>3
    <2>2. \A p \in known' \ lapsed' : SentFor(p)'
      BY <2>0, <2>1 DEF SentFor, Safe
    <2>3. BaseSent'
      BY <1>1, <2>0 DEF BaseSent, Based, DriveAssumption, TypeOK
    <2>4. UnmarkSent'
      BY <2>0 DEF UnmarkSent
    <2> QED
      BY <2>2, <2>3, <2>4 DEF Sent
  <1>28. CASE \E p \in People : Switch(p)
    BY <1>1, <1>28 DEF Switch, Noting, Playing, Loading, Stages, PastDrive,
        PastNote, Newer, NewerOf, Here, Sent, SentFor, BaseSent, UnmarkSent,
        Safe, Based, Changed
  <1>29. CASE \E p \in People : Remove(p)
    BY <1>1, <1>29 DEF Remove, Noting, Playing, Loading, Stages, PastDrive,
        PastNote, Newer, NewerOf, Here, Sent, SentFor, BaseSent, UnmarkSent,
        Safe, Based, Changed
  <1>30. CASE NoteFails
    <2>1. /\ pc' \in {"idle", "interrupted"}
          /\ UNCHANGED <<folder, made, driveNote, folderNote, romm, zip, owed, known,
                         lapsed, task, me, base, kind>>
      BY <1>30 DEF NoteFails, Go, AfterFailedCopy, Stages, Noting, TypeOK
    <2>2. ~(pc \in {"sync", "owe", "unnote"})
      BY <1>30 DEF NoteFails
    <2> QED
      BY <2>1, <2>2 DEF Sent, SentFor, BaseSent, UnmarkSent, Safe, Based
  <1> QED
    BY <1>2, <1>3, <1>4, <1>5, <1>6, <1>7, <1>8, <1>9, <1>10, <1>11, <1>12,
       <1>13, <1>14, <1>15, <1>16, <1>17, <1>18, <1>19, <1>20, <1>21, <1>22,
       <1>23, <1>24, <1>25, <1>26, <1>27, <1>28, <1>29, <1>30
       DEF Next, Recovery, Game, Beside, Flushed, Plug, Go

\* Every step that leaves a folder half written leaves what does it again.
LEMMA HalfStep ==
    ASSUME DriveAssumption, TypeOK, SomeNewest, Noting,
           Stages, Loading, Playing, WholeInv, Next
    PROVE  Half' /\ Gone'
  <1> USE DEF game, place, own, frame, memory, history
  <1>1. /\ me \in known /\ me \in People /\ driveNote \in People \cup {Nobody} /\ known \subseteq People
          /\ folder \in [People -> Vers] /\ zip \in [People -> Vers] /\ romm \in [People -> Vers]
          /\ Nobody \notin People /\ 0 # Torn
    BY DEF TypeOK, DriveAssumption
  <1>2. CASE UNCHANGED <<folder, mixed, pc, me, driveNote, folderNote, known>>
    BY <1>2 DEF WholeInv, Half, Gone
  <1>3. CASE RecoverDrive
    BY <1>1, <1>3 DEF RecoverDrive, Go, MarksTheirs, HasFolder, AfterDrive,
        Noting, Stages, PastDrive, Loading, Playing, Of, TypeOK, WholeInv,
        Half, Gone
  <1>4. CASE CopyBegins
    BY <1>1, <1>4 DEF CopyBegins, Go, Noting, Stages, PastDrive, Loading,
        Playing, Of, TypeOK, WholeInv, Half, Gone
  <1>5. CASE CopyEnds
    BY <1>1, <1>5 DEF CopyEnds, Go, Noting, Stages, PastDrive, Loading,
        Playing, Of, TypeOK, WholeInv, Half, Gone
  <1>6. CASE CopyFails \/ NoteFails
    BY <1>1, <1>6 DEF CopyFails, NoteFails, Go, AfterFailedCopy, Noting, Stages,
        PastDrive, Loading, Playing, Of, TypeOK, WholeInv, Half, Gone
  <1>7. CASE Unnote
    BY <1>1, <1>7 DEF Unnote, Go, AfterDrive, Noting, Stages, PastDrive,
        Loading, Playing, Of, TypeOK, WholeInv, Half, Gone
  <1>8. CASE NothingToSync
    BY <1>1, <1>8 DEF NothingToSync, Go, Changed, AfterSync, AfterDrive,
        WholeInv, Half, Gone
  <1>9. CASE WriteZip
    BY <1>1, <1>9 DEF WriteZip, Go, Changed, WholeInv, Half, Gone
  <1>10. CASE ZipFails
    BY <1>1, <1>10 DEF ZipFails, Go, Changed, AfterSync, AfterDrive, WholeInv,
        Half, Gone
  <1>11. CASE Owe \/ OweFails
    BY <1>1, <1>11 DEF Owe, OweFails, Go, AfterSync, AfterDrive, WholeInv, Half, Gone
  <1>12. CASE Interrupted
    BY <1>1, <1>12 DEF Interrupted, Go, AfterNote, Noting, Stages, PastDrive,
        Loading, Playing, Of, TypeOK, WholeInv, Half, Gone
  <1>13. CASE Unmark
    BY <1>1, <1>13 DEF Unmark, Go, AfterNote, WholeInv, Half, Gone
  <1>14. CASE Launch
    BY <1>1, <1>14 DEF Launch, WholeInv, Half, Gone
  <1>15. CASE Restore
    BY <1>1, <1>15 DEF Restore, Restorable, Go, WholeInv, Half, Gone
  <1>16. CASE Unpacked
    BY <1>1, <1>16 DEF Unpacked, Go, Noting, Stages, PastDrive, Loading,
        Playing, Of, TypeOK, WholeInv, Half, Gone
  <1>17. CASE MarkFolder
    BY <1>1, <1>17 DEF MarkFolder, Noting, Stages, PastDrive, Loading,
        Playing, Of, TypeOK, WholeInv, Half, Gone
  <1>18. CASE LoadBegins
    BY <1>1, <1>18 DEF LoadBegins, Go, Of, WholeInv, Half, Gone
  <1>19. CASE Loaded
    BY <1>1, <1>19 DEF Loaded, Go, Of, WholeInv, Half, Gone
  <1>20. CASE NoteDrive
    BY <1>1, <1>20 DEF NoteDrive, Noting, Stages, PastDrive, Loading, Playing,
        Of, TypeOK, WholeInv, Half, Gone
  <1>21. CASE Started
    BY <1>1, <1>21 DEF Started, Go, WholeInv, Half, Gone
  <1>22. CASE StartFails
    BY <1>1, <1>22 DEF StartFails, Go, Noting, Stages, PastDrive, Loading,
        Playing, Of, TypeOK, WholeInv, Half, Gone
  <1>23. CASE SaveInGame
    <2>1. Newest + 1 # Torn
      BY <1>23, UptoGrows DEF DriveAssumption
    <2> QED
      BY <1>1, <1>23, <2>1 DEF SaveInGame, Of, WholeInv, Half, Gone
  <1>24. CASE GameEnds
    BY <1>1, <1>24 DEF GameEnds, WholeInv, Half, Gone
  <1>25. CASE Evict
    BY <1>1, <1>25 DEF Evict, Evictable, Blank, Of, Noting, Stages, PastDrive,
        Loading, Playing, TypeOK, WholeInv, Half, Gone
  <1>26. CASE PowerCut
    <2>1. pc' = "drive" /\ UNCHANGED <<known, me>> /\ mixed \subseteq mixed'
      BY <1>26, CutTakes, CutFolders
    <2>2. \A p \in People \ mixed' :
             /\ folder'[p] = folder[p] /\ p \notin HalfDone
             /\ folderNote'[p] => folderNote[p]
             /\ folderNote[p] /\ ~folderNote'[p] => folder[p] # Torn
             /\ driveNote = p => driveNote' = p \/ folder[p] # Torn
      BY <1>1, <1>26, CutFolders, CutDrive
    <2>3. Half'
      BY <1>1, <2>1, <2>2 DEF WholeInv, Half, HalfDone
    <2>4. \A p \in People \ known : folder'[p] = 0
      <3>1. \A p \in People \ known : p \notin loose.copies
        BY DEF TypeOK
      <3> QED
        BY <1>26, <3>1 DEF PowerCut, Spoils, WholeInv, Gone
    <2> QED
      BY <2>1, <2>3, <2>4 DEF Gone
  <1>27. CASE \E p \in People : Switch(p)
    BY <1>1, <1>27 DEF Switch, WholeInv, Half, Gone
  <1>28. CASE \E p \in People : Remove(p)
    BY <1>1, <1>28 DEF Remove, Noting, Stages, PastDrive, Loading, Playing,
        Of, TypeOK, WholeInv, Half, Gone
  <1> QED
    BY <1>2, <1>3, <1>4, <1>5, <1>6, <1>7, <1>8, <1>9, <1>10, <1>11, <1>12,
       <1>13, <1>14, <1>15, <1>16, <1>17, <1>18, <1>19, <1>20, <1>21, <1>22,
       <1>23, <1>24, <1>25, <1>26, <1>27, <1>28
       DEF Next, Recovery, Game, Beside, Upload, SendUnmarked, Flushed, Plug

\* Every step keeps mixtures out of what goes up.
LEMMA WholeStep ==
    ASSUME DriveAssumption, TypeOK, SomeNewest, Noting,
           Stages, Loading, Playing, WholeInv, Next
    PROVE  WholeInv'
  <1> USE DEF game, place, own, frame, memory, history
  <1>1. /\ me \in known /\ me \in People /\ driveNote \in People \cup {Nobody} /\ known \subseteq People
          /\ folder \in [People -> Vers] /\ zip \in [People -> Vers] /\ romm \in [People -> Vers]
          /\ Nobody \notin People /\ 0 # Torn
          /\ Half' /\ Gone'
    BY HalfStep DEF TypeOK, DriveAssumption
  <1>2. CASE UNCHANGED <<zip, mixed, romm, drive, driveNote, me, task, pc, job,
                          fetched, folder, known>>
    BY <1>1, <1>2 DEF WholeInv, WholeGoesUp
  <1>3. CASE RecoverDrive
    BY <1>1, <1>3 DEF RecoverDrive, Go, MarksTheirs, HasFolder, AfterDrive,
        Half, Gone, Noting, Stages, PastDrive, Loading, Playing, Of, Blank,
        TypeOK, WholeInv, WholeGoesUp
  <1>4. CASE CopyBegins
    BY <1>1, <1>4 DEF CopyBegins, Go, Half, Gone, Noting, Stages, PastDrive,
        Loading, Playing, Of, Blank, TypeOK, WholeInv, WholeGoesUp
  <1>5. CASE CopyEnds
    BY <1>1, <1>5 DEF CopyEnds, Go, Half, Gone, Noting, Stages, PastDrive,
        Loading, Playing, Of, Blank, TypeOK, WholeInv, WholeGoesUp
  <1>6. CASE CopyFails \/ NoteFails
    BY <1>1, <1>6 DEF CopyFails, NoteFails, Go, AfterFailedCopy, Half, Gone, Noting,
        Stages, PastDrive, Loading, Playing, Of, Blank, TypeOK, WholeInv,
        WholeGoesUp
  <1>7. CASE Unnote
    BY <1>1, <1>7 DEF Unnote, Go, AfterDrive, Half, Gone, Noting, Stages,
        PastDrive, Loading, Playing, Of, Blank, TypeOK, WholeInv, WholeGoesUp
  <1>8. CASE NothingToSync
    BY <1>1, <1>8 DEF NothingToSync, Go, Changed, AfterSync, AfterDrive,
        WholeInv, WholeGoesUp
  <1>9. CASE WriteZip
    BY <1>1, <1>9 DEF WriteZip, Go, Changed, WholeInv, WholeGoesUp
  <1>10. CASE ZipFails
    BY <1>1, <1>10 DEF ZipFails, Go, Changed, AfterSync, AfterDrive, WholeInv,
        WholeGoesUp
  <1>11. CASE Owe \/ OweFails
    BY <1>1, <1>11 DEF Owe, OweFails, Go, AfterSync, AfterDrive, WholeInv, WholeGoesUp
  <1>12. CASE Interrupted
    BY <1>1, <1>12 DEF Interrupted, Go, AfterNote, Half, Gone, Noting, Stages,
        PastDrive, Loading, Playing, Of, Blank, TypeOK, WholeInv, WholeGoesUp
  <1>13. CASE Unmark
    BY <1>1, <1>13 DEF Unmark, Go, AfterNote, WholeInv, WholeGoesUp
  <1>14. CASE Launch
    BY <1>1, <1>14 DEF Launch, Half, Gone, Noting, Stages, PastDrive, Loading,
        Playing, Of, Blank, TypeOK, WholeInv, WholeGoesUp
  <1>15. CASE Restore
    BY <1>1, <1>15 DEF Restore, Restorable, Go, WholeInv, WholeGoesUp
  <1>16. CASE Unpacked
    BY <1>1, <1>16 DEF Unpacked, Go, Half, Gone, Noting, Stages, PastDrive,
        Loading, Playing, Of, Blank, TypeOK, WholeInv, WholeGoesUp
  <1>17. CASE MarkFolder
    BY <1>1, <1>17 DEF MarkFolder, Half, Gone, Noting, Stages, PastDrive,
        Loading, Playing, Of, Blank, TypeOK, WholeInv, WholeGoesUp
  <1>18. CASE LoadBegins
    BY <1>1, <1>18 DEF LoadBegins, Go, Of, Half, Gone, Noting, Stages,
        PastDrive, Loading, Playing, Blank, TypeOK, WholeInv, WholeGoesUp
  <1>19. CASE Loaded
    BY <1>1, <1>19 DEF Loaded, Go, Of, Half, Gone, Noting, Stages, PastDrive,
        Loading, Playing, Blank, TypeOK, WholeInv, WholeGoesUp
  <1>20. CASE NoteDrive
    BY <1>1, <1>20 DEF NoteDrive, Half, Gone, Noting, Stages, PastDrive,
        Loading, Playing, Of, Blank, TypeOK, WholeInv, WholeGoesUp
  <1>21. CASE Started
    BY <1>1, <1>21 DEF Started, Go, WholeInv, WholeGoesUp
  <1>22. CASE StartFails
    BY <1>1, <1>22 DEF StartFails, Go, Half, Gone, Noting, Stages, PastDrive,
        Loading, Playing, Of, Blank, TypeOK, WholeInv, WholeGoesUp
  <1>23. CASE SaveInGame
    <2>1. Newest + 1 # Torn
      BY <1>23, UptoGrows DEF DriveAssumption
    <2> QED
      BY <1>1, <1>23, <2>1 DEF SaveInGame, Of, WholeInv, WholeGoesUp, Playing, TypeOK
  <1>24. CASE GameEnds
    BY <1>1, <1>24 DEF GameEnds, Half, Gone, Noting, Stages, PastDrive,
        Loading, Playing, Of, Blank, TypeOK, WholeInv, WholeGoesUp
  <1>25. CASE Upload \/ SendUnmarked
    BY <1>1, <1>25 DEF Upload, SendUnmarked, WholeInv, WholeGoesUp
  <1>26. CASE Evict
    BY <1>1, <1>26 DEF Evict, Evictable, Blank, Of, Half, Gone, Noting,
        Stages, PastDrive, Loading, Playing, TypeOK, WholeInv, WholeGoesUp
  <1>27. CASE PowerCut
    <2>1. /\ pc' = "drive" /\ task' = "boot" /\ job' = 0 /\ mixed \subseteq mixed'
          /\ UNCHANGED <<zip, romm, me>>
      BY <1>27, CutTakes, CutFolders
    <2>2. drive'.ver = Torn => driveNote' \in mixed' \cup {Nobody}
      BY <1>1, <1>27, <2>1, CutDrive DEF WholeInv, Of
    <2> QED
      BY <1>1, <2>1, <2>2 DEF WholeInv, WholeGoesUp
  <1>28. CASE \E p \in People : Switch(p)
    BY <1>1, <1>28 DEF Switch, WholeInv, WholeGoesUp
  <1>29. CASE \E p \in People : Remove(p)
    BY <1>1, <1>29 DEF Remove, Half, Gone, Noting, Stages, PastDrive, Loading,
        Playing, Of, Blank, TypeOK, WholeInv, WholeGoesUp
  <1> QED
    BY <1>2, <1>3, <1>4, <1>5, <1>6, <1>7, <1>8, <1>9, <1>10, <1>11, <1>12,
       <1>13, <1>14, <1>15, <1>16, <1>17, <1>18, <1>19, <1>20, <1>21, <1>22,
       <1>23, <1>24, <1>25, <1>26, <1>27, <1>28, <1>29
       DEF Next, Recovery, Game, Beside, Flushed, Plug, Go

\* The newest save is found where Newer and Sent say it is.
LEMMA Finds == ASSUME DriveAssumption, TypeOK, Noting, Newer, Sent PROVE Accounted
  <1> SUFFICES ASSUME NEW p \in known \ lapsed PROVE Findable(p)
    BY DEF Accounted
  <1>1. CASE driveNote = p /\ drive.ver = made[p]
    BY <1>1 DEF DriveAssumption, TypeOK, Noting, Of, Findable
  <1>2. CASE folder[p] = made[p] /\ folderNote[p]
    BY <1>2 DEF Findable
  <1>3. CASE folder[p] = made[p] /\ ~folderNote[p]
    BY <1>1, <1>3 DEF Sent, SentFor, Safe, Noting, Findable
  <1> QED
    BY <1>1, <1>2, <1>3 DEF Newer, NewerOf, Here

\* The first states.
LEMMA Start == ASSUME DriveAssumption, Init PROVE IInv /\ WholeInv
  <1> USE DEF Init, Blank, Of
  <1>1. TypeOK
    <2>1. 0 \in 0 .. MaxMade /\ 0 \in Vers
      BY DEF Vers, DriveAssumption
    <2>2. drive \in [of : People \cup {Nobody}, ver : Vers]
      BY <2>1
    <2>3. plugged \in BOOLEAN /\ stale \in BOOLEAN
      BY Zenon
    <2>4. folderNote \in [People -> BOOLEAN] /\ owed \in [People -> BOOLEAN]
      OBVIOUS
    <2> QED
      BY <2>1, <2>2, <2>3, <2>4 DEF TypeOK, Committed
  <1>2. SomeNewest /\ Numbered
    BY <1>1 DEF TypeOK, DriveAssumption, SomeNewest, Numbered, Upto, Based
  <1>3. Noting /\ Stages /\ Fetching /\ Loading /\ Playing /\ Zipped
    BY DEF Noting, Stages, PastNote, PastDrive, Fetching, Loading, Playing, Zipped
  <1>4. Newer /\ Queued
    BY <1>1 DEF TypeOK, DriveAssumption, Newer, NewerOf, Here, Queued
  <1>5. Sent
    BY <1>1 DEF TypeOK, DriveAssumption, Sent, SentFor, BaseSent, Based, UnmarkSent, Safe
  <1>6. WholeInv
    BY <1>1 DEF TypeOK, DriveAssumption, WholeInv, Half, Gone, WholeGoesUp
  <1> QED
    BY <1>1, <1>2, <1>3, <1>4, <1>5, <1>6 DEF IInv

\* Every step, and a step of another part.
LEMMA Step == ASSUME DriveAssumption, IInv, WholeInv, [Next]_vars PROVE IInv' /\ WholeInv'
  <1>1. CASE Next
    BY <1>1, TypeStep, SomeNewestStep, NumberedStep, NotingStep, StagesStep, FetchingStep,
       LoadingStep, PlayingStep, ZippedStep, NewerStep, QueuedStep, SentStep, WholeStep
       DEF IInv
  <1>2. CASE UNCHANGED vars
    <2> USE <1>2 DEF vars, game, place, own, frame, memory, history, IInv
    <2>1. TypeOK' /\ SomeNewest'
      BY DEF TypeOK, SomeNewest, Vers
    <2>2. Numbered' /\ Noting'
      BY DEF Numbered, Upto, Based, Noting
    <2>3. Stages' /\ Fetching' /\ Loading' /\ Playing' /\ Zipped'
      BY DEF Stages, PastNote, PastDrive, Fetching, Loading, Playing, Zipped, Of
    <2>4. Newer' /\ Queued'
      BY DEF Newer, NewerOf, Here, Queued
    <2>5. Sent'
      BY DEF Sent, SentFor, BaseSent, Based, UnmarkSent, Safe, Changed
    <2>6. WholeInv'
      BY DEF WholeInv, Half, Gone, WholeGoesUp
    <2> QED
      BY <2>1, <2>2, <2>3, <2>4, <2>5, <2>6
  <1> QED
    BY <1>1, <1>2

-----------------------------------------------------------------------------
(* Theorems. *)

\* The inductive invariant holds of every state of the recovery of a game's
\* saves around power cuts.
THEOREM DriveSavesInvariant == ASSUME DriveAssumption PROVE Spec => [](IInv /\ WholeInv)
  BY Start, Step, PTL DEF Spec

\* Every variable holds what its declaration says; saves come off the drive for
\* a person whose folder is still on the console.
THEOREM DriveSavesTypes == ASSUME DriveAssumption PROVE Spec => []TypeOK
  <1>1. IInv => TypeOK
    BY DEF IInv
  <1> QED
    BY <1>1, DriveSavesInvariant, PTL

\* The newest save of everybody on the console is on RomM, owed, under a note, or
\* being sent, whatever power cuts and failed copies there were, but for the four
\* lapses the model names.
THEOREM NewestIsFound == ASSUME DriveAssumption PROVE Spec => []Accounted
  <1>1. IInv => Accounted
    BY Finds DEF IInv
  <1> QED
    BY <1>1, DriveSavesInvariant, PTL

\* No zip that goes up holds a mixture of two saves, but for those of a folder
\* that was left half done.
THEOREM NoMixtureGoesUp == ASSUME DriveAssumption PROVE Spec => []WholeGoesUp
  <1>1. WholeInv => WholeGoesUp
    BY DEF WholeInv
  <1> QED
    BY <1>1, DriveSavesInvariant, PTL
=============================================================================
