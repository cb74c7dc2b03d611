------------------------- MODULE SaveRestoreProofs -------------------------
(***************************************************************************)
(* Proofs about SaveRestore, for any of the kinds of save and any number   *)
(* of saves, made here and elsewhere.                                      *)
(*                                                                         *)
(* Once the console's newest save has landed and is not owed (Settled),    *)
(* RomM has nothing older under the tag, and what is older of the copy and *)
(* of the fetches under way is dropped: by the mark that Forget takes from *)
(* a fetch, by Unlink, or by the second look of a restore.  The exceptions *)
(* of MirrorFresh and StartsFromNewest are where one of the three misses.  *)
(***************************************************************************)
EXTENDS SaveRestore, TLAPS

\* No game runs during a launch, and one does while its save is pushed; the fetch offers when it is ready, and only
\* then are there checks to make; a folder's or a battery's first was of owed.
Launching ==
    /\ playing => lpc = "idle"
    /\ pushing => playing
    /\ lpc # "ready" => offer = 0 /\ rpc = 1
    /\ kind # "file" /\ rpc = 2 => ~owed

\* The jobs: the one waiting is the newest save, or is replaced by the push of the
\* newest, and the one in flight is none newer; what is owed, or is being pushed,
\* is the console's own copy.
Jobs ==
    /\ next <= own /\ uver <= own /\ (upc = "idle") = (uver = 0)
    /\ ~pushing \/ uver = own => next \in {0, own}
    /\ owed \/ pushing => mine = own /\ own > 0
    /\ upc = "reply" => server >= uver

Rows == {server, lrow, brow, urow, listed}

\* Nothing is newer than the newest; rows are of saves RomM has had.
Numbered ==
    /\ own <= saves /\ \A r \in Rows : r <= saves
    /\ \A k \in kept : k[1] <= saves
    /\ (\E r \in Rows : r > 0) => server > 0

\* A row of the newest save was listed after it was delivered.
Delivered ==
    own > 0 /\ (own \in Rows \/ \E k \in kept : k[1] = own)
        => server >= own /\ uver \in {0, own} /\ next \in {0, own}

\* The newest save is on RomM, and nothing of this console's but itself goes up
\* over it.
Settled == ~owed /\ ~forgot /\ ~pushing

Landed ==
    Settled => next \in {0, own} /\ uver \in {0, own} /\ server >= own

\* Its landing has told every fetch, and left no old copy.
Told == Settled /\ ~oldCopy /\ upc # "forget"

\* Rows that will be put in the mirror are not older.
PutsNew ==
    Told => /\ lpc = "put" \/ (lpc = "check" /\ "list" \in marks) => lrow >= own
            /\ bpc = "put" \/ (bpc = "check" /\ "backfill" \in marks) => brow >= own
            /\ upc = "putlist" => urow >= own

\* Bytes of such a row are not older either.
Fresh(row) == \A k \in kept : k[1] = row => k[2] >= own

BytesFresh ==
    /\ Told /\ upc # "unlink" => \A k \in kept : k[1] >= own => k[2] >= own
    /\ \A k \in kept : k[1] >= own /\ k[2] < own => k[1] > own /\ k[1] # server

\* Nor is what a launch that began since has fetched, or offers.
FetchFresh ==
    Told /\ ~landing /\ "fetch" \in marks =>
        /\ lpc \in {"check", "put", "bytes"} => lrow >= own /\ Fresh(lrow)
        /\ lpc = "ready" => offer = 0 \/ offer >= own

\* A file's restore that has looked whether the fetch is stale.
SecondLook ==
    kind = "file" /\ rpc = 2 =>
        /\ upc = "forget" => landing
        /\ Settled /\ ~oldCopy /\ ~landing => offer = 0 \/ offer >= own

\* The console's own copy is not older, but after a start from an old copy, and
\* then it is not owed.
OwnCopy ==
    ~forgot /\ ~landing => mine >= own \/ (oldCopy /\ ~owed)

IInv ==
    /\ TypeOK /\ Launching /\ Jobs /\ Numbered /\ Delivered /\ Landed
    /\ PutsNew /\ BytesFresh /\ FetchFresh /\ SecondLook /\ OwnCopy /\ MirrorFresh

-----------------------------------------------------------------------------
(* Types, and the plain facts about who does what when.                    *)

LEMMA PutListType ==
    ASSUME NEW row, PutList(row), kept \subseteq Made \X Made
    PROVE  kept' \subseteq kept /\ kept' \subseteq Made \X Made /\ listed' = row
  BY DEF PutList

LEMMA PutBytesType ==
    ASSUME NEW row \in Made, NEW save \in Made, PutBytes(row, save),
           kept \subseteq Made \X Made
    PROVE  kept' \subseteq Made \X Made
  BY DEF PutBytes

LEMMA GetBytesType ==
    ASSUME NEW row, kept \subseteq Made \X Made
    PROVE  GetBytes(row) \subseteq Made
  BY DEF GetBytes

\* Rows and saves are ordered, and the mirror's bytes are of saves made.
Numbers ==
    /\ MaxSaves \in Nat \ {0} /\ NoList \in Int /\ NoList < 0
    /\ server \in Nat /\ lrow \in Nat /\ brow \in Nat /\ urow \in Nat /\ listed \in Int
    /\ own \in Nat /\ saves \in Nat /\ uver \in Nat /\ next \in Nat /\ mine \in Nat
    /\ offer \in Nat /\ start \in Nat
    /\ \A k \in kept : k[1] \in Nat \ {0} /\ k[2] \in Nat \ {0}

LEMMA RowsType == ASSUME ConstAssumption, TypeOK PROVE Numbers
  BY DEF Numbers, TypeOK, ConstAssumption, Save, Made, NoList

LEMMA TypeLaunch == ASSUME ConstAssumption, TypeOK, Numbered, LaunchWorker PROVE TypeOK'
  <1> USE DEF LaunchUnchanged, uploader, backfill, restore, game
  <1>1a. CASE Launch
    BY <1>1a DEF Launch, Mark, Fetches, TypeOK
  <1>1b. CASE AskList
    BY <1>1b DEF AskList, Mark, Fetches, TypeOK
  <1>1c. CASE ListAnswer
    <2>1. away' \in BOOLEAN
      BY <1>1c, Zenon DEF ListAnswer, TypeOK
    <2> QED
      BY <1>1c, <2>1 DEF ListAnswer, TypeOK
  <1>1d. CASE ListCheck
    BY <1>1d DEF ListCheck, ForgottenSince, TypeOK
  <1>1e. CASE ListUnreached
    BY <1>1e DEF ListUnreached, TypeOK
  <1>2. CASE PutAnswer
    BY <1>2, PutListType DEF PutAnswer, TypeOK
  <1>3. CASE ListOffline
    BY <1>3 DEF ListOffline, TypeOK, NoList
  <1>4. CASE BytesOnline
    <2>1. PICK save \in {lrow, server} : offer' = save /\ PutBytes(lrow, save)
      BY <1>4 DEF BytesOnline
    <2>2. lrow \in Made /\ save \in Made
      BY <1>4, RowsType DEF BytesOnline, Numbers, Numbered, Rows, TypeOK, Save, Made
    <2>3. kept' \subseteq Made \X Made /\ offer' \in Save
      BY <2>1, <2>2, PutBytesType DEF TypeOK, Save, Made
    <2> QED
      BY <1>4, <2>3 DEF BytesOnline, TypeOK, Save, ConstAssumption
  <1>5. CASE BytesOffline
    <2>1. GetBytes(lrow) # {} => (CHOOSE b \in GetBytes(lrow) : TRUE) \in Made
      BY GetBytesType DEF TypeOK
    <2>2. offer' \in Save
      BY <1>5, <2>1 DEF BytesOffline, Save, Made, ConstAssumption
    <2> QED
      BY <1>5, <2>2 DEF BytesOffline, TypeOK, Save, ConstAssumption
  <1>0. 0 \in Save
    BY DEF Save, ConstAssumption
  <1>6a. CASE NothingOffered
    <2>1. away' \in BOOLEAN
      BY <1>6a, Zenon DEF NothingOffered, TypeOK
    <2> QED
      BY <1>0, <1>6a, <2>1 DEF NothingOffered, TypeOK
  <1>6b. CASE Cancel
    BY <1>0, <1>6b DEF Cancel, TypeOK
  <1> QED
    BY <1>1a, <1>1b, <1>1c, <1>1d, <1>1e, <1>2, <1>3, <1>4, <1>5, <1>6a, <1>6b DEF LaunchWorker

LEMMA TypeFrame == ASSUME ConstAssumption, TypeOK, FrameThread PROVE TypeOK'
  <1>0. 0 \in Save
    BY DEF Save, ConstAssumption
  <1>1. CASE WriteSave
    <2>1. saves + 1 \in Save
      BY <1>1 DEF WriteSave, TypeOK, Save, ConstAssumption
    <2>2. pushing' \in BOOLEAN /\ landing' \in BOOLEAN
      BY <1>1, Zenon DEF WriteSave
    <2> QED
      BY <1>1, <2>1, <2>2 DEF WriteSave, TypeOK, uploader, launch, backfill, restore
  <1>4. CASE PushSave
    <2>1. pushing' \in BOOLEAN /\ owed' \in BOOLEAN /\ forgot' \in BOOLEAN
      BY <1>4 DEF PushSave, TypeOK
    <2>2. next' \in Save
      BY <1>4 DEF PushSave, TypeOK
    <2> QED
      BY <1>4, <2>1, <2>2 DEF PushSave, TypeOK, launch, backfill, restore
  <1>2. CASE Exit
    <2>1. playing' \in BOOLEAN
      BY <1>2, Zenon DEF Exit, TypeOK
    <2> QED
      BY <1>0, <1>2, <2>1 DEF Exit, TypeOK, disk, uploader, launch, backfill, restore, history
  <1>3. CASE RestoreCheck
    <2>1. landing' \in BOOLEAN
      BY <1>3 DEF RestoreCheck, TypeOK
    <2>2. ASSUME NEW save \in Save, StartFrom(save) PROVE TypeOK'
      BY <1>0, <1>3, <2>1, <2>2
         DEF RestoreCheck, RestoreUnchanged, StartFrom, TypeOK, uploader, backfill
    <2>3. CASE rpc' = 2 /\ UNCHANGED <<mine, marks, lpc, offer, game>>
      BY <1>3, <2>1, <2>3
         DEF RestoreCheck, RestoreUnchanged, TypeOK, uploader, backfill, game
    <2>4. mine \in Save /\ (IF offer = 0 THEN mine ELSE offer) \in Save
      BY DEF TypeOK
    <2> QED
      BY <1>3, <2>2, <2>3, <2>4 DEF RestoreCheck
  <1> QED
    BY <1>1, <1>2, <1>3, <1>4 DEF FrameThread

LEMMA TypeUploader == ASSUME ConstAssumption, TypeOK, Jobs, UploadWorker PROVE TypeOK'
  <1> USE DEF UploadUnchanged, launch, backfill, restore, game
  <1>0. 0 \in Save
    BY DEF Save, ConstAssumption
  <1>1a. CASE Resend
    BY <1>0, <1>1a DEF Resend, TypeOK
  <1>1b. CASE TakeJob
    BY <1>0, <1>1b DEF TakeJob, TypeOK
  <1>1c. CASE Deliver
    BY <1>0, <1>1c DEF Deliver, TypeOK
  <1>1d. CASE UploadFails
    <2>1. away' \in BOOLEAN
      BY <1>1d, Zenon DEF UploadFails, TypeOK
    <2>2. CASE upc = "send"
      BY <1>0, <1>1d, <2>1, <2>2 DEF UploadFails, TypeOK
    <2>3. CASE upc = "reply"
      BY <1>0, <1>1d, <2>1, <2>3 DEF UploadFails, TypeOK
    <2> QED
      BY <1>1d, <2>2, <2>3 DEF UploadFails
  <1>1e. CASE ClearPending
    BY <1>0, <1>1e DEF ClearPending, TypeOK
  <1>1f. CASE Forget
    BY <1>0, <1>1f DEF Forget, TypeOK
  <1>1g. CASE Unlink
    BY <1>0, <1>1g DEF Unlink, TypeOK
  <1>1h. CASE Refetch
    <2>1. away' \in BOOLEAN
      BY <1>1h, Zenon DEF Refetch, TypeOK
    <2> QED
      BY <1>0, <1>1h, <2>1 DEF Refetch, TypeOK
  <1>3. CASE PutRefetched
    BY <1>3, PutListType DEF PutRefetched, TypeOK
  <1>4. CASE PutSent
    <2>1. uver \in Made
      BY <1>4 DEF PutSent, Jobs, TypeOK, Save, Made
    <2>2. kept' \subseteq Made \X Made
      BY <1>4, <2>1, PutBytesType DEF PutSent, TypeOK
    <2> QED
      BY <1>0, <1>4, <2>2 DEF PutSent, TypeOK
  <1> QED
    BY <1>1a, <1>1b, <1>1c, <1>1d, <1>1e, <1>1f, <1>1g, <1>1h, <1>3, <1>4 DEF UploadWorker

LEMMA TypeBackfill == ASSUME ConstAssumption, TypeOK, Numbered, Backfill PROVE TypeOK'
  <1> USE DEF BackfillUnchanged, uploader, launch, restore, game, history
  <1>0. 0 \in Save
    BY DEF Save, ConstAssumption
  <1>1a. CASE BackfillMark
    BY <1>0, <1>1a DEF BackfillMark, Mark, Fetches, TypeOK
  <1>1b. CASE BackfillAnswer
    <2>1. away' \in BOOLEAN
      BY <1>1b, Zenon DEF BackfillAnswer, TypeOK
    <2> QED
      BY <1>0, <1>1b, <2>1 DEF BackfillAnswer, TypeOK
  <1>1c. CASE BackfillCheck
    BY <1>0, <1>1c DEF BackfillCheck, ForgottenSince, TypeOK
  <1>2. CASE BackfillPut
    BY <1>2, PutListType DEF BackfillPut, TypeOK
  <1>3. CASE BackfillBytes
    <2>1. kept' \subseteq Made \X Made /\ away' \in BOOLEAN
      <3>1. CASE UNCHANGED <<kept, away>> \/ (away' = TRUE /\ UNCHANGED kept)
        BY <3>1 DEF TypeOK
      <3>2. ASSUME NEW save \in {brow, server}, brow # 0, away' = FALSE, PutBytes(brow, save)
            PROVE  kept' \subseteq Made \X Made /\ away' \in BOOLEAN
        <4>1. brow \in Made /\ save \in Made
          BY <3>2, RowsType DEF Numbers, Numbered, Rows, TypeOK, Save, Made
        <4> QED
          BY <3>2, <4>1, PutBytesType DEF TypeOK
      <3> QED
        BY <1>3, <3>1, <3>2 DEF BackfillBytes
    <2> QED
      BY <1>0, <1>3, <2>1 DEF BackfillBytes, TypeOK
  <1> QED
    BY <1>1a, <1>1b, <1>1c, <1>2, <1>3 DEF Backfill

LEMMA TypeOutside == ASSUME ConstAssumption, TypeOK, Environment PROVE TypeOK'
  <1>0. 0 \in Save
    BY DEF Save, ConstAssumption
  <1>1. CASE OtherDevice
    <2>1. saves' \in Save
      BY <1>1 DEF OtherDevice, TypeOK, Save, ConstAssumption
    <2> QED
      BY <1>1, <2>1 DEF OtherDevice, TypeOK, disk, uploader, launch, backfill, restore, game
  <1>2. CASE Reconnect
    BY <1>2 DEF Reconnect, TypeOK, disk, uploader, launch, backfill, restore, game, history
  <1>3. CASE Crash
    BY <1>0, <1>3 DEF Crash, TypeOK, disk
  <1> QED
    BY <1>1, <1>2, <1>3 DEF Environment

LEMMA TypeStep == ASSUME ConstAssumption, TypeOK, Jobs, Numbered, Next PROVE TypeOK'
  BY TypeLaunch, TypeFrame, TypeUploader, TypeBackfill, TypeOutside DEF Next

-----------------------------------------------------------------------------
(* One lemma for each part of IInv: the first step of each is that nothing   *)
(* the part speaks of changes, then one step per action that changes some.   *)

\* A save is marked, or has no marker: its landing is still to come.
LEMMA PushUnsettled ==
    ASSUME TypeOK, PushSave
    PROVE  (owed' \/ forgot') /\ ~Settled' /\ ~Told'
  <1>1. CASE owed' = TRUE
    BY <1>1 DEF Settled, Told
  <1>2. CASE owed' = owed /\ forgot' = (forgot \/ ~owed)
    <2>1. owed' \/ forgot'
      BY <1>2, Zenon DEF TypeOK
    <2> QED
      BY <2>1 DEF Settled, Told
  <1> QED
    BY <1>1, <1>2 DEF PushSave

\* StartFrom ends a launch and its checks; only ~playing begins another.
LEMMA LaunchingStep ==
    ASSUME TypeOK, Launching, Next
    PROVE  Launching'
  <1> USE DEF Numbers, LaunchUnchanged, RestoreUnchanged, UploadUnchanged,
          BackfillUnchanged, disk, uploader, launch, backfill, restore, game, history
  <1>1. CASE UNCHANGED <<playing, pushing, lpc, offer, rpc, kind, owed>>
    BY <1>1 DEF Launching
  <1>2. CASE Launch
    BY <1>2 DEF Launch, Mark, Launching
  <1>3. CASE AskList
    BY <1>3 DEF AskList, Mark, Launching
  <1>4. CASE ListAnswer
    BY <1>4 DEF ListAnswer, Launching
  <1>5. CASE ListCheck
    BY <1>5 DEF ListCheck, ForgottenSince, Launching
  <1>6. CASE PutAnswer
    BY <1>6 DEF PutAnswer, PutList, Launching
  <1>7. CASE ListUnreached
    BY <1>7 DEF ListUnreached, Launching
  <1>8. CASE ListOffline
    BY <1>8 DEF ListOffline, Launching
  <1>9. CASE BytesOnline
    BY <1>9 DEF BytesOnline, PutBytes, Launching
  <1>10. CASE BytesOffline
    BY <1>10 DEF BytesOffline, Launching
  <1>11. CASE NothingOffered
    BY <1>11 DEF NothingOffered, Launching
  <1>12. CASE Cancel
    BY <1>12 DEF Cancel, Launching
  <1>13. CASE WriteSave
    BY <1>13 DEF WriteSave, Launching
  <1>13p. CASE PushSave
    BY <1>13p DEF PushSave, Launching
  <1>14. CASE Exit
    BY <1>14 DEF Exit, Launching
  <1>15. CASE RestoreCheck
    BY <1>15 DEF RestoreCheck, StartFrom, Stands, Checks, Launching
  <1>16. CASE ClearPending
    BY <1>16 DEF ClearPending, Launching
  <1>17. CASE Crash
    BY <1>17 DEF Crash, Launching
  <1> QED
    BY <1>1, <1>2, <1>3, <1>4, <1>5, <1>6, <1>7, <1>8, <1>9, <1>10, <1>11,
       <1>12, <1>13, <1>13p, <1>14, <1>15, <1>16, <1>17
       DEF Next, LaunchWorker, FrameThread, UploadWorker, Backfill,
           Environment, Resend, TakeJob, Deliver, UploadFails, Forget, Unlink,
           Refetch, PutRefetched, PutSent, BackfillMark, BackfillAnswer,
           BackfillCheck, BackfillPut, BackfillBytes, OtherDevice, Reconnect

\* WriteSave needs a game, so no restore is on its way to write over the copy it
\* marks; a restore writes over the copy only when it is not owed.
LEMMA JobsStep ==
    ASSUME ConstAssumption, TypeOK, Launching, Jobs, Numbered, Next
    PROVE  Jobs'
  <1> USE DEF Numbers, LaunchUnchanged, RestoreUnchanged, UploadUnchanged,
          BackfillUnchanged, disk, uploader, launch, backfill, restore, game, history
  <1>1. Numbers
    BY RowsType
  <1>2. CASE UNCHANGED <<next, own, uver, upc, owed, mine, server, pushing>>
    BY <1>2 DEF Jobs
  <1>3. CASE WriteSave
    BY <1>1, <1>3 DEF WriteSave, Launching, Numbered, Jobs
  <1>3p. CASE PushSave
    BY <1>1, <1>3p DEF PushSave, Launching, Numbered, Jobs
  <1>4. CASE RestoreCheck
    BY <1>1, <1>4 DEF RestoreCheck, StartFrom, Stands, Checks, Launching, Jobs
  <1>5. CASE Resend
    BY <1>1, <1>5 DEF Resend, Jobs
  <1>6. CASE TakeJob
    BY <1>1, <1>6 DEF TakeJob, Jobs
  <1>7. CASE Deliver
    BY <1>1, <1>7 DEF Deliver, Jobs
  <1>8. CASE UploadFails
    BY <1>1, <1>8 DEF UploadFails, Jobs
  <1>9. CASE ClearPending
    BY <1>1, <1>9 DEF ClearPending, Jobs
  <1>10. CASE Forget
    BY <1>1, <1>10 DEF Forget, Jobs
  <1>11. CASE Unlink
    BY <1>1, <1>11 DEF Unlink, Jobs
  <1>12. CASE Refetch
    BY <1>1, <1>12 DEF Refetch, Jobs
  <1>13. CASE PutRefetched
    BY <1>1, <1>13 DEF PutRefetched, PutList, Jobs
  <1>14. CASE PutSent
    BY <1>1, <1>14 DEF PutSent, PutBytes, Jobs
  <1>15. CASE OtherDevice
    BY <1>1, <1>15 DEF OtherDevice, Numbered, Jobs
  <1>16. CASE Crash
    BY <1>1, <1>16 DEF Crash, Jobs
  <1> QED
    BY <1>2, <1>3, <1>3p, <1>4, <1>5, <1>6, <1>7, <1>8, <1>9, <1>10, <1>11, <1>12,
       <1>13, <1>14, <1>15, <1>16
       DEF Next, LaunchWorker, FrameThread, UploadWorker, Backfill,
           Environment, Launch, AskList, ListAnswer, ListCheck, PutAnswer,
           ListUnreached, ListOffline, BytesOnline, BytesOffline,
           NothingOffered, Cancel, Exit, BackfillMark, BackfillAnswer,
           BackfillCheck, BackfillPut, BackfillBytes, Reconnect

\* WriteSave and OtherDevice take the next number; rows are read from server.
LEMMA NumberedStep ==
    ASSUME ConstAssumption, TypeOK, Jobs, Numbered, Next
    PROVE  Numbered'
  <1> USE DEF Numbers, LaunchUnchanged, RestoreUnchanged, UploadUnchanged,
          BackfillUnchanged, disk, uploader, launch, backfill, restore, game, history
  <1>1. Numbers
    BY RowsType
  <1>2. CASE UNCHANGED <<own, saves, server, lrow, brow, urow, listed, kept>>
    BY <1>2 DEF Numbered, Rows
  <1>3. CASE ListAnswer
    BY <1>1, <1>3 DEF ListAnswer, Numbered, Rows
  <1>4. CASE PutAnswer
    BY <1>1, <1>4 DEF PutAnswer, PutList, Numbered, Rows
  <1>5. CASE ListOffline
    BY <1>1, <1>5 DEF ListOffline, Numbered, Rows
  <1>6. CASE BytesOnline
    BY <1>1, <1>6 DEF BytesOnline, PutBytes, Numbered, Rows
  <1>7. CASE BytesOffline
    BY <1>1, <1>7 DEF BytesOffline, Numbered, Rows
  <1>8. CASE NothingOffered
    BY <1>1, <1>8 DEF NothingOffered, Numbered, Rows
  <1>9. CASE Cancel
    BY <1>1, <1>9 DEF Cancel, Numbered, Rows
  <1>10. CASE WriteSave
    BY <1>1, <1>10 DEF WriteSave, Numbered, Rows
  <1>10p. CASE PushSave
    BY <1>1, <1>10p DEF PushSave, Numbered, Rows
  <1>11. CASE Deliver
    BY <1>1, <1>11 DEF Deliver, Jobs, Numbered, Rows
  <1>12. CASE Unlink
    BY <1>1, <1>12 DEF Unlink, Numbered, Rows
  <1>13. CASE Refetch
    BY <1>1, <1>13 DEF Refetch, Numbered, Rows
  <1>14. CASE PutRefetched
    BY <1>1, <1>14 DEF PutRefetched, PutList, Numbered, Rows
  <1>15. CASE PutSent
    BY <1>1, <1>15 DEF PutSent, PutBytes, Numbered, Rows
  <1>16. CASE BackfillAnswer
    BY <1>1, <1>16 DEF BackfillAnswer, Numbered, Rows
  <1>17. CASE BackfillCheck
    BY <1>1, <1>17 DEF BackfillCheck, ForgottenSince, Numbered, Rows
  <1>18. CASE BackfillPut
    BY <1>1, <1>18 DEF BackfillPut, PutList, Numbered, Rows
  <1>19. CASE BackfillBytes
    BY <1>1, <1>19 DEF BackfillBytes, PutBytes, Numbered, Rows
  <1>20. CASE OtherDevice
    BY <1>1, <1>20 DEF OtherDevice, Numbered, Rows
  <1>21. CASE Crash
    BY <1>1, <1>21 DEF Crash, Numbered, Rows
  <1> QED
    BY <1>2, <1>3, <1>4, <1>5, <1>6, <1>7, <1>8, <1>9, <1>10, <1>10p, <1>11, <1>12,
       <1>13, <1>14, <1>15, <1>16, <1>17, <1>18, <1>19, <1>20, <1>21
       DEF Next, LaunchWorker, FrameThread, UploadWorker, Backfill,
           Environment, Launch, AskList, ListCheck, ListUnreached, Exit,
           RestoreCheck, Resend, TakeJob, UploadFails, ClearPending, Forget,
           BackfillMark, Reconnect

\* A newer save of this console is in no row until Deliver.
LEMMA DeliveredStep ==
    ASSUME ConstAssumption, TypeOK, Jobs, Numbered, Delivered, Next
    PROVE  Delivered'
  <1> USE DEF Numbers, LaunchUnchanged, RestoreUnchanged, UploadUnchanged,
          BackfillUnchanged, disk, uploader, launch, backfill, restore, game, history
  <1>1. Numbers
    BY RowsType
  <1>2. CASE UNCHANGED <<own, server, lrow, brow, urow, listed, kept, uver, next>>
    BY <1>2 DEF Delivered, Rows
  <1>3. CASE ListAnswer
    BY <1>1, <1>3 DEF ListAnswer, Delivered, Rows
  <1>4. CASE PutAnswer
    BY <1>1, <1>4 DEF PutAnswer, PutList, Delivered, Rows
  <1>5. CASE ListOffline
    BY <1>1, <1>5 DEF ListOffline, Delivered, Rows
  <1>6. CASE BytesOnline
    BY <1>1, <1>6 DEF BytesOnline, PutBytes, Delivered, Rows
  <1>7. CASE BytesOffline
    BY <1>1, <1>7 DEF BytesOffline, Delivered, Rows
  <1>8. CASE NothingOffered
    BY <1>1, <1>8 DEF NothingOffered, Delivered, Rows
  <1>9. CASE Cancel
    BY <1>1, <1>9 DEF Cancel, Delivered, Rows
  <1>10. CASE WriteSave
    BY <1>1, <1>10 DEF WriteSave, Numbered, Jobs, Delivered, Rows
  <1>10p. CASE PushSave
    BY <1>1, <1>10p DEF PushSave, Numbered, Jobs, Delivered, Rows
  <1>24. CASE Resend
    BY <1>1, <1>24 DEF Resend, Jobs, Delivered, Rows
  <1>11. CASE TakeJob
    BY <1>1, <1>11 DEF TakeJob, Jobs, Delivered, Rows
  <1>12. CASE Deliver
    BY <1>1, <1>12 DEF Deliver, Jobs, Delivered, Rows
  <1>13. CASE UploadFails
    BY <1>1, <1>13 DEF UploadFails, Delivered, Rows
  <1>14. CASE Unlink
    BY <1>1, <1>14 DEF Unlink, Delivered, Rows
  <1>15. CASE Refetch
    BY <1>1, <1>15 DEF Refetch, Delivered, Rows
  <1>16. CASE PutRefetched
    BY <1>1, <1>16 DEF PutRefetched, PutList, Delivered, Rows
  <1>17. CASE PutSent
    BY <1>1, <1>17 DEF PutSent, PutBytes, Delivered, Rows
  <1>18. CASE BackfillAnswer
    BY <1>1, <1>18 DEF BackfillAnswer, Delivered, Rows
  <1>19. CASE BackfillCheck
    BY <1>1, <1>19 DEF BackfillCheck, ForgottenSince, Delivered, Rows
  <1>20. CASE BackfillPut
    BY <1>1, <1>20 DEF BackfillPut, PutList, Delivered, Rows
  <1>21. CASE BackfillBytes
    BY <1>1, <1>21 DEF BackfillBytes, PutBytes, Delivered, Rows
  <1>22. CASE OtherDevice
    BY <1>1, <1>22 DEF OtherDevice, Numbered, Delivered, Rows
  <1>23. CASE Crash
    BY <1>1, <1>23 DEF Crash, Delivered, Rows
  <1> QED
    BY <1>2, <1>3, <1>4, <1>5, <1>6, <1>7, <1>8, <1>9, <1>10, <1>10p, <1>11, <1>12,
       <1>13, <1>14, <1>15, <1>16, <1>17, <1>18, <1>19, <1>20, <1>21, <1>22,
       <1>23, <1>24
       DEF Next, LaunchWorker, FrameThread, UploadWorker, Backfill,
           Environment, Launch, AskList, ListCheck, ListUnreached, Exit,
           RestoreCheck, ClearPending, Forget, BackfillMark, Reconnect

\* It settles at ClearPending, for the newest save, which Deliver put on RomM.
LEMMA LandedStep ==
    ASSUME ConstAssumption, TypeOK, Jobs, Numbered, Landed, Next
    PROVE  Landed'
  <1> USE DEF Numbers, LaunchUnchanged, RestoreUnchanged, UploadUnchanged,
          BackfillUnchanged, disk, uploader, launch, backfill, restore, game, history
  <1>1. Numbers
    BY RowsType
  <1>2. CASE UNCHANGED <<owed, forgot, pushing, next, upc, uver, server, own>>
    BY <1>2 DEF Landed, Settled
  <1>3. CASE WriteSave
    BY <1>1, <1>3 DEF WriteSave, Landed, Settled
  <1>3p. CASE PushSave
    BY <1>3p, PushUnsettled DEF Landed
  <1>4. CASE Resend
    BY <1>1, <1>4 DEF Resend, Landed, Settled
  <1>5. CASE TakeJob
    BY <1>1, <1>5 DEF TakeJob, Jobs, Landed, Settled
  <1>6. CASE Deliver
    BY <1>1, <1>6 DEF Deliver, Jobs, Landed, Settled
  <1>7. CASE UploadFails
    BY <1>1, <1>7 DEF UploadFails, Landed, Settled
  <1>8. CASE ClearPending
    <2>1. ~forgot' => ~(uver < own)
      BY <1>8 DEF ClearPending
    <2>2. ~(uver < own) => uver = own /\ next \in {0, own}
      BY <1>1 DEF Jobs
    <2>3. (next' \in {0, own'} /\ uver' = own' /\ server' >= own') \/ forgot'
      BY <1>1, <1>8, <2>1, <2>2 DEF ClearPending, Jobs
    <2> QED
      BY <1>1, <1>8, <2>3 DEF Landed, Settled
  <1>9. CASE Forget
    BY <1>1, <1>9 DEF Forget, Landed, Settled
  <1>10. CASE Unlink
    BY <1>1, <1>10 DEF Unlink, Landed, Settled
  <1>11. CASE Refetch
    BY <1>1, <1>11 DEF Refetch, Landed, Settled
  <1>12. CASE PutRefetched
    BY <1>1, <1>12 DEF PutRefetched, PutList, Landed, Settled
  <1>13. CASE PutSent
    BY <1>1, <1>13 DEF PutSent, PutBytes, Landed, Settled
  <1>14. CASE OtherDevice
    BY <1>1, <1>14 DEF OtherDevice, Numbered, Landed, Settled
  <1>15. CASE Crash
    BY <1>1, <1>15 DEF Crash, Landed, Settled
  <1> QED
    BY <1>2, <1>3, <1>3p, <1>4, <1>5, <1>6, <1>7, <1>8, <1>9, <1>10, <1>11, <1>12,
       <1>13, <1>14, <1>15
       DEF Next, LaunchWorker, FrameThread, UploadWorker, Backfill,
           Environment, Launch, AskList, ListAnswer, ListCheck, PutAnswer,
           ListUnreached, ListOffline, BytesOnline, BytesOffline,
           NothingOffered, Cancel, Exit, RestoreCheck, BackfillMark,
           BackfillAnswer, BackfillCheck, BackfillPut, BackfillBytes,
           Reconnect

\* Forget takes every mark, so what may be put is what is asked for later.
LEMMA PutsNewStep ==
    ASSUME ConstAssumption, TypeOK, Jobs, Numbered, Landed, PutsNew, Next
    PROVE  PutsNew'
  <1> USE DEF Numbers, LaunchUnchanged, RestoreUnchanged, UploadUnchanged,
          BackfillUnchanged, disk, uploader, launch, backfill, restore, game, history
  <1>1. Numbers
    BY RowsType
  <1>2. CASE UNCHANGED <<owed, forgot, pushing, oldCopy, upc, lpc, marks, lrow, own, bpc, brow, urow>>
    BY <1>2 DEF PutsNew, Told, Settled
  <1>3. CASE Launch
    BY <1>1, <1>3 DEF Launch, Mark, PutsNew, Told, Settled
  <1>4. CASE AskList
    BY <1>1, <1>4 DEF AskList, Mark, PutsNew, Told, Settled
  <1>5. CASE ListAnswer
    BY <1>1, <1>5 DEF ListAnswer, Landed, Jobs, PutsNew, Told, Settled
  <1>6. CASE ListCheck
    BY <1>1, <1>6 DEF ListCheck, ForgottenSince, PutsNew, Told, Settled
  <1>7. CASE PutAnswer
    BY <1>1, <1>7 DEF PutAnswer, PutList, PutsNew, Told, Settled
  <1>8. CASE ListUnreached
    BY <1>1, <1>8 DEF ListUnreached, PutsNew, Told, Settled
  <1>9. CASE ListOffline
    BY <1>1, <1>9 DEF ListOffline, PutsNew, Told, Settled
  <1>10. CASE BytesOnline
    BY <1>1, <1>10 DEF BytesOnline, PutBytes, PutsNew, Told, Settled
  <1>11. CASE BytesOffline
    BY <1>1, <1>11 DEF BytesOffline, PutsNew, Told, Settled
  <1>12. CASE NothingOffered
    BY <1>1, <1>12 DEF NothingOffered, PutsNew, Told, Settled
  <1>13. CASE Cancel
    BY <1>1, <1>13 DEF Cancel, PutsNew, Told, Settled
  <1>14. CASE WriteSave
    BY <1>1, <1>14 DEF WriteSave, Landed, Jobs, PutsNew, Told, Settled
  <1>14p. CASE PushSave
    BY <1>14p, PushUnsettled DEF PutsNew
  <1>15. CASE RestoreCheck
    BY <1>1, <1>15 DEF RestoreCheck, StartFrom, PutsNew, Told, Settled
  <1>16. CASE TakeJob
    BY <1>1, <1>16 DEF TakeJob, PutsNew, Told, Settled
  <1>17. CASE Deliver
    BY <1>1, <1>17 DEF Deliver, PutsNew, Told, Settled
  <1>18. CASE UploadFails
    BY <1>1, <1>18 DEF UploadFails, PutsNew, Told, Settled
  <1>19. CASE ClearPending
    BY <1>1, <1>19 DEF ClearPending, Landed, Jobs, PutsNew, Told, Settled
  <1>20. CASE Forget
    BY <1>1, <1>20 DEF Forget, Landed, Jobs, PutsNew, Told, Settled
  <1>21. CASE Unlink
    BY <1>1, <1>21 DEF Unlink, PutsNew, Told, Settled
  <1>22. CASE Refetch
    BY <1>1, <1>22 DEF Refetch, Landed, Jobs, PutsNew, Told, Settled
  <1>23. CASE PutRefetched
    BY <1>1, <1>23 DEF PutRefetched, PutList, PutsNew, Told, Settled
  <1>24. CASE PutSent
    BY <1>1, <1>24 DEF PutSent, PutBytes, PutsNew, Told, Settled
  <1>25. CASE BackfillMark
    BY <1>1, <1>25 DEF BackfillMark, Mark, PutsNew, Told, Settled
  <1>26. CASE BackfillAnswer
    BY <1>1, <1>26 DEF BackfillAnswer, Landed, Jobs, PutsNew, Told, Settled
  <1>27. CASE BackfillCheck
    BY <1>1, <1>27 DEF BackfillCheck, ForgottenSince, PutsNew, Told, Settled
  <1>28. CASE BackfillPut
    BY <1>1, <1>28 DEF BackfillPut, PutList, PutsNew, Told, Settled
  <1>29. CASE BackfillBytes
    BY <1>1, <1>29 DEF BackfillBytes, PutBytes, PutsNew, Told, Settled
  <1>30. CASE Crash
    BY <1>1, <1>30 DEF Crash, Landed, Jobs, PutsNew, Told, Settled
  <1> QED
    BY <1>2, <1>3, <1>4, <1>5, <1>6, <1>7, <1>8, <1>9, <1>10, <1>11, <1>12,
       <1>13, <1>14, <1>14p, <1>15, <1>16, <1>17, <1>18, <1>19, <1>20, <1>21, <1>22,
       <1>23, <1>24, <1>25, <1>26, <1>27, <1>28, <1>29, <1>30
       DEF Next, LaunchWorker, FrameThread, UploadWorker, Backfill,
           Environment, Exit, Resend, OtherDevice, Reconnect

\* Bytes are kept under the row as listed, or are those of the newest row.
LEMMA BytesFreshStep ==
    ASSUME ConstAssumption, TypeOK, Jobs, Numbered, Delivered, Landed,
           PutsNew, BytesFresh, Next
    PROVE  BytesFresh'
  <1> USE DEF Numbers, LaunchUnchanged, RestoreUnchanged, UploadUnchanged,
          BackfillUnchanged, disk, uploader, launch, backfill, restore, game, history
  <1>1. Numbers
    BY RowsType
  <1>2. CASE UNCHANGED <<owed, forgot, pushing, oldCopy, upc, kept, own, server>>
    BY <1>2 DEF BytesFresh, Told, Settled
  <1>3. CASE PutAnswer
    BY <1>1, <1>3 DEF PutAnswer, PutList, BytesFresh, Told, Settled
  <1>4. CASE BytesOnline
    BY <1>1, <1>4 DEF BytesOnline, PutBytes, Numbered, Rows, Delivered, Jobs,
        Landed, PutsNew, BytesFresh, Told, Settled
  <1>5. CASE WriteSave
    BY <1>1, <1>5 DEF WriteSave, Numbered, Rows, Delivered, Jobs, Landed,
        PutsNew, BytesFresh, Told, Settled
  <1>5p. CASE PushSave
    BY <1>5p, PushUnsettled DEF PushSave, BytesFresh
  <1>6. CASE TakeJob
    BY <1>1, <1>6 DEF TakeJob, BytesFresh, Told, Settled
  <1>7. CASE Deliver
    BY <1>1, <1>7 DEF Deliver, Numbered, Rows, Delivered, Jobs, Landed,
        PutsNew, BytesFresh, Told, Settled
  <1>8. CASE UploadFails
    BY <1>1, <1>8 DEF UploadFails, BytesFresh, Told, Settled
  <1>9. CASE ClearPending
    BY <1>1, <1>9 DEF ClearPending, Numbered, Rows, Delivered, Jobs, Landed,
        PutsNew, BytesFresh, Told, Settled
  <1>10. CASE Forget
    BY <1>1, <1>10 DEF Forget, Numbered, Rows, Delivered, Jobs, Landed,
        PutsNew, BytesFresh, Told, Settled
  <1>11. CASE Unlink
    BY <1>1, <1>11 DEF Unlink, BytesFresh, Told, Settled
  <1>12. CASE Refetch
    BY <1>1, <1>12 DEF Refetch, BytesFresh, Told, Settled
  <1>13. CASE PutRefetched
    BY <1>1, <1>13 DEF PutRefetched, PutList, BytesFresh, Told, Settled
  <1>14. CASE PutSent
    BY <1>1, <1>14 DEF PutSent, PutBytes, Numbered, Rows, Delivered, Jobs,
        Landed, PutsNew, BytesFresh, Told, Settled
  <1>15. CASE BackfillPut
    BY <1>1, <1>15 DEF BackfillPut, PutList, BytesFresh, Told, Settled
  <1>16. CASE BackfillBytes
    BY <1>1, <1>16 DEF BackfillBytes, PutBytes, Numbered, Rows, Delivered,
        Jobs, Landed, PutsNew, BytesFresh, Told, Settled
  <1>17. CASE OtherDevice
    BY <1>1, <1>17 DEF OtherDevice, Numbered, Rows, Delivered, Jobs, Landed,
        PutsNew, BytesFresh, Told, Settled
  <1>18. CASE Crash
    BY <1>1, <1>18 DEF Crash, Numbered, Rows, Delivered, Jobs, Landed,
        PutsNew, BytesFresh, Told, Settled
  <1> QED
    BY <1>2, <1>3, <1>4, <1>5, <1>5p, <1>6, <1>7, <1>8, <1>9, <1>10, <1>11, <1>12,
       <1>13, <1>14, <1>15, <1>16, <1>17, <1>18
       DEF Next, LaunchWorker, FrameThread, UploadWorker, Backfill,
           Environment, Launch, AskList, ListAnswer, ListCheck, ListUnreached,
           ListOffline, BytesOffline, NothingOffered, Cancel, Exit,
           RestoreCheck, Resend, BackfillMark, BackfillAnswer, BackfillCheck,
           Reconnect

\* The mirror changes by what PutsNew allows, or is empty.
LEMMA MirrorFreshStep ==
    ASSUME ConstAssumption, TypeOK, Jobs, Numbered, Landed, PutsNew, MirrorFresh, Next
    PROVE  MirrorFresh'
  <1> USE DEF Numbers, LaunchUnchanged, RestoreUnchanged, UploadUnchanged,
          BackfillUnchanged, disk, uploader, launch, backfill, restore, game, history
  <1>1. Numbers
    BY RowsType
  <1>2. CASE UNCHANGED <<listed, owed, upc, own, oldCopy, forgot, pushing>>
    BY <1>2 DEF MirrorFresh
  <1>3. CASE PutAnswer
    BY <1>1, <1>3 DEF PutAnswer, PutList, PutsNew, Told, Settled, MirrorFresh
  <1>4. CASE WriteSave
    BY <1>1, <1>4 DEF WriteSave, MirrorFresh
  <1>4p. CASE PushSave
    BY <1>4p, PushUnsettled DEF MirrorFresh
  <1>5. CASE TakeJob
    BY <1>1, <1>5 DEF TakeJob, MirrorFresh
  <1>6. CASE Deliver
    BY <1>1, <1>6 DEF Deliver, MirrorFresh
  <1>7. CASE UploadFails
    BY <1>1, <1>7 DEF UploadFails, MirrorFresh
  <1>8. CASE ClearPending
    BY <1>1, <1>8 DEF ClearPending, PutsNew, Told, Settled, MirrorFresh
  <1>9. CASE Forget
    BY <1>1, <1>9 DEF Forget, PutsNew, Told, Settled, MirrorFresh
  <1>10. CASE Unlink
    BY <1>1, <1>10 DEF Unlink, MirrorFresh
  <1>11. CASE Refetch
    BY <1>1, <1>11 DEF Refetch, MirrorFresh
  <1>12. CASE PutRefetched
    BY <1>1, <1>12 DEF PutRefetched, PutList, PutsNew, Told, Settled,
        MirrorFresh
  <1>13. CASE PutSent
    BY <1>1, <1>13 DEF PutSent, PutBytes, MirrorFresh
  <1>14. CASE BackfillPut
    BY <1>1, <1>14 DEF BackfillPut, PutList, PutsNew, Told, Settled,
        MirrorFresh
  <1>15. CASE Crash
    BY <1>1, <1>15 DEF Crash, MirrorFresh
  <1> QED
    BY <1>2, <1>3, <1>4, <1>4p, <1>5, <1>6, <1>7, <1>8, <1>9, <1>10, <1>11, <1>12,
       <1>13, <1>14, <1>15
       DEF Next, LaunchWorker, FrameThread, UploadWorker, Backfill,
           Environment, Launch, AskList, ListAnswer, ListCheck, ListUnreached,
           ListOffline, BytesOnline, BytesOffline, NothingOffered, Cancel,
           Exit, RestoreCheck, Resend, BackfillMark, BackfillAnswer,
           BackfillCheck, BackfillBytes, OtherDevice, Reconnect

\* What a marked fetch lists and reads, online or offline, came after the forget.
LEMMA FetchFreshStep ==
    ASSUME ConstAssumption, TypeOK, Launching, Jobs, Numbered, Delivered, Landed,
           PutsNew, BytesFresh, FetchFresh, MirrorFresh, Next
    PROVE  FetchFresh'
  <1> USE DEF Numbers, LaunchUnchanged, RestoreUnchanged, UploadUnchanged,
          BackfillUnchanged, disk, uploader, launch, backfill, restore, game, history
  <1>1. Numbers
    BY RowsType
  <1>2. CASE UNCHANGED <<owed, forgot, pushing, oldCopy, upc, landing, marks, lpc, lrow, kept, own, offer, server>>
    BY <1>2 DEF FetchFresh, Told, Settled, Fresh
  <1>3. CASE Launch
    BY <1>1, <1>3 DEF Launch, Mark, Numbered, Rows, Delivered, Jobs, Landed,
        PutsNew, BytesFresh, MirrorFresh, FetchFresh, Told, Settled, Fresh
  <1>4. CASE AskList
    BY <1>1, <1>4 DEF AskList, Mark, FetchFresh, Told, Settled, Fresh
  <1>5. CASE ListAnswer
    BY <1>1, <1>5 DEF ListAnswer, Numbered, Rows, Delivered, Jobs, Landed,
        PutsNew, BytesFresh, MirrorFresh, FetchFresh, Told, Settled, Fresh
  <1>6. CASE ListCheck
    BY <1>1, <1>6 DEF ListCheck, ForgottenSince, FetchFresh, Told, Settled,
        Fresh
  <1>7. CASE PutAnswer
    BY <1>1, <1>7 DEF PutAnswer, PutList, Numbered, Rows, Delivered, Jobs,
        Landed, PutsNew, BytesFresh, MirrorFresh, FetchFresh, Told, Settled,
        Fresh
  <1>8. CASE ListUnreached
    BY <1>1, <1>8 DEF ListUnreached, FetchFresh, Told, Settled, Fresh
  <1>9. CASE ListOffline
    <2>1. CASE listed = NoList
      BY <1>1, <1>9, <2>1 DEF ListOffline, Launching, FetchFresh, Told, Settled, Fresh
    <2>2. CASE listed # NoList
      <3>1. Told /\ ~landing' => listed >= own /\ Fresh(listed)
        <4> SUFFICES ASSUME Told, ~landing' PROVE listed >= own /\ Fresh(listed)
          OBVIOUS
        <4>1. upc # "unlink" /\ upc # "forget" /\ ~pushing /\ ~owed /\ ~forgot /\ ~oldCopy
          BY <1>9 DEF ListOffline, Told, Settled
        <4>2. listed >= own
          BY <1>1, <2>2, <4>1 DEF MirrorFresh
        <4> QED
          BY <1>1, <4>1, <4>2 DEF BytesFresh, Fresh
      <3> QED
        BY <1>1, <1>9, <2>2, <3>1 DEF ListOffline, FetchFresh, Told, Settled, Fresh
    <2> QED
      BY <2>1, <2>2
  <1>10. CASE BytesOnline
    BY <1>1, <1>10 DEF BytesOnline, PutBytes, Numbered, Rows, Delivered, Jobs,
        Landed, PutsNew, BytesFresh, MirrorFresh, FetchFresh, Told, Settled,
        Fresh
  <1>11. CASE BytesOffline
    BY <1>1, <1>11 DEF BytesOffline, GetBytes, FetchFresh, Told, Settled,
        Fresh
  <1>12. CASE NothingOffered
    BY <1>1, <1>12 DEF NothingOffered, Launching, FetchFresh, Told, Settled,
        Fresh
  <1>13. CASE Cancel
    BY <1>1, <1>13 DEF Cancel, FetchFresh, Told, Settled, Fresh
  <1>14. CASE WriteSave
    BY <1>1, <1>14 DEF WriteSave, Numbered, Rows, Delivered, Jobs, Landed,
        PutsNew, BytesFresh, MirrorFresh, FetchFresh, Told, Settled, Fresh
  <1>14p. CASE PushSave
    BY <1>14p, PushUnsettled DEF FetchFresh
  <1>15. CASE RestoreCheck
    BY <1>1, <1>15 DEF RestoreCheck, StartFrom, Stands, Checks, FetchFresh,
        Told, Settled, Fresh
  <1>16. CASE TakeJob
    BY <1>1, <1>16 DEF TakeJob, FetchFresh, Told, Settled, Fresh
  <1>17. CASE Deliver
    BY <1>1, <1>17 DEF Deliver, FetchFresh, Told, Settled, Fresh
  <1>18. CASE UploadFails
    BY <1>1, <1>18 DEF UploadFails, FetchFresh, Told, Settled, Fresh
  <1>19. CASE ClearPending
    BY <1>1, <1>19 DEF ClearPending, Numbered, Rows, Delivered, Jobs, Landed,
        PutsNew, BytesFresh, MirrorFresh, FetchFresh, Told, Settled, Fresh
  <1>20. CASE Forget
    BY <1>1, <1>20 DEF Forget, Numbered, Rows, Delivered, Jobs, Landed,
        PutsNew, BytesFresh, MirrorFresh, FetchFresh, Told, Settled, Fresh
  <1>21. CASE Unlink
    BY <1>1, <1>21 DEF Unlink, FetchFresh, Told, Settled, Fresh
  <1>22. CASE Refetch
    BY <1>1, <1>22 DEF Refetch, FetchFresh, Told, Settled, Fresh
  <1>23. CASE PutRefetched
    BY <1>1, <1>23 DEF PutRefetched, PutList, Numbered, Rows, Delivered, Jobs,
        Landed, PutsNew, BytesFresh, MirrorFresh, FetchFresh, Told, Settled,
        Fresh
  <1>24. CASE PutSent
    BY <1>1, <1>24 DEF PutSent, PutBytes, Numbered, Rows, Delivered, Jobs,
        Landed, PutsNew, BytesFresh, MirrorFresh, FetchFresh, Told, Settled,
        Fresh
  <1>25. CASE BackfillMark
    BY <1>1, <1>25 DEF BackfillMark, Mark, FetchFresh, Told, Settled, Fresh
  <1>26. CASE BackfillAnswer
    BY <1>1, <1>26 DEF BackfillAnswer, FetchFresh, Told, Settled, Fresh
  <1>27. CASE BackfillCheck
    BY <1>1, <1>27 DEF BackfillCheck, ForgottenSince, FetchFresh, Told,
        Settled, Fresh
  <1>28. CASE BackfillPut
    BY <1>1, <1>28 DEF BackfillPut, PutList, Numbered, Rows, Delivered, Jobs,
        Landed, PutsNew, BytesFresh, MirrorFresh, FetchFresh, Told, Settled,
        Fresh
  <1>29. CASE BackfillBytes
    BY <1>1, <1>29 DEF BackfillBytes, PutBytes, Numbered, Rows, Delivered,
        Jobs, Landed, PutsNew, BytesFresh, MirrorFresh, FetchFresh, Told,
        Settled, Fresh
  <1>30. CASE OtherDevice
    BY <1>1, <1>30 DEF OtherDevice, FetchFresh, Told, Settled, Fresh
  <1>31. CASE Crash
    BY <1>1, <1>31 DEF Crash, FetchFresh, Told, Settled, Fresh
  <1> QED
    BY <1>2, <1>3, <1>4, <1>5, <1>6, <1>7, <1>8, <1>9, <1>10, <1>11, <1>12,
       <1>13, <1>14, <1>14p, <1>15, <1>16, <1>17, <1>18, <1>19, <1>20, <1>21, <1>22,
       <1>23, <1>24, <1>25, <1>26, <1>27, <1>28, <1>29, <1>30, <1>31
       DEF Next, LaunchWorker, FrameThread, UploadWorker, Backfill,
           Environment, Exit, Resend, Reconnect

\* A file's restore looked at the mark before the marker: a landing between the
\* two is landing.
LEMMA SecondLookStep ==
    ASSUME ConstAssumption, TypeOK, Launching, Jobs, Numbered, Landed, FetchFresh, SecondLook, Next
    PROVE  SecondLook'
  <1> USE DEF Numbers, LaunchUnchanged, RestoreUnchanged, UploadUnchanged,
          BackfillUnchanged, disk, uploader, launch, backfill, restore, game, history
  <1>1. Numbers
    BY RowsType
  <1>2. CASE UNCHANGED <<kind, rpc, upc, landing, owed, forgot, pushing, oldCopy, offer, own>>
    BY <1>2 DEF SecondLook, Settled
  <1>3. CASE ListOffline
    BY <1>1, <1>3 DEF ListOffline, SecondLook, Settled
  <1>4. CASE BytesOnline
    BY <1>1, <1>4 DEF BytesOnline, PutBytes, Launching, SecondLook, Settled
  <1>5. CASE BytesOffline
    BY <1>1, <1>5 DEF BytesOffline, Launching, SecondLook, Settled
  <1>6. CASE Cancel
    BY <1>1, <1>6 DEF Cancel, SecondLook, Settled
  <1>7. CASE WriteSave
    BY <1>1, <1>7 DEF WriteSave, Launching, SecondLook, Settled
  <1>7p. CASE PushSave
    BY <1>1, <1>7p DEF PushSave, Launching, SecondLook, Settled
  <1>8. CASE RestoreCheck
    <2>1. CASE rpc' = 1
      BY <2>1 DEF SecondLook
    <2>2. CASE rpc' # 1
      <3>1. /\ rpc = 1 /\ lpc = "ready" /\ ~Stands(Checks[1])
            /\ offer' = offer /\ landing' = (landing \/ (Checks[1] = "stale" /\ upc = "forget"))
        BY <1>8, <2>2 DEF RestoreCheck, StartFrom, Checks
      <3>2. SUFFICES ASSUME kind = "file" PROVE SecondLook'
        BY <1>8 DEF RestoreCheck, SecondLook
      <3>3. "fetch" \in marks /\ landing' = (landing \/ upc = "forget")
        BY <3>1, <3>2 DEF Stands, Checks, ForgottenSince
      <3>4. upc = "forget" => landing'
        BY <3>3
      <3>5. Settled /\ ~oldCopy /\ ~landing' => offer = 0 \/ offer >= own
        BY <3>1, <3>3 DEF FetchFresh, Told
      <3> QED
        BY <1>8, <3>1, <3>4, <3>5 DEF RestoreCheck, SecondLook, Settled
    <2> QED
      BY <2>1, <2>2
  <1>9. CASE TakeJob
    BY <1>1, <1>9 DEF TakeJob, SecondLook, Settled
  <1>10. CASE Deliver
    BY <1>1, <1>10 DEF Deliver, SecondLook, Settled
  <1>11. CASE UploadFails
    BY <1>1, <1>11 DEF UploadFails, SecondLook, Settled
  <1>12. CASE ClearPending
    BY <1>1, <1>12 DEF ClearPending, Landed, FetchFresh, Told, Launching,
        SecondLook, Settled
  <1>13. CASE Forget
    BY <1>1, <1>13 DEF Forget, SecondLook, Settled
  <1>14. CASE Unlink
    BY <1>1, <1>14 DEF Unlink, SecondLook, Settled
  <1>15. CASE Refetch
    BY <1>1, <1>15 DEF Refetch, SecondLook, Settled
  <1>16. CASE PutRefetched
    BY <1>1, <1>16 DEF PutRefetched, PutList, SecondLook, Settled
  <1>17. CASE PutSent
    BY <1>1, <1>17 DEF PutSent, PutBytes, SecondLook, Settled
  <1>18. CASE Crash
    BY <1>1, <1>18 DEF Crash, SecondLook, Settled
  <1> QED
    BY <1>2, <1>3, <1>4, <1>5, <1>6, <1>7, <1>7p, <1>8, <1>9, <1>10, <1>11, <1>12,
       <1>13, <1>14, <1>15, <1>16, <1>17, <1>18
       DEF Next, LaunchWorker, FrameThread, UploadWorker, Backfill,
           Environment, Launch, AskList, ListAnswer, ListCheck, PutAnswer,
           ListUnreached, NothingOffered, Exit, Resend, BackfillMark,
           BackfillAnswer, BackfillCheck, BackfillPut, BackfillBytes,
           OtherDevice, Reconnect

\* What a restore takes when both its checks pass.
LEMMA OfferFresh ==
    ASSUME TypeOK, Launching, FetchFresh, SecondLook, RestoreCheck,
           rpc = 2, ~Stands(Checks[2]), ~forgot, ~landing'
    PROVE  /\ ~owed /\ upc # "forget" /\ ~landing
           /\ ~oldCopy => offer = 0 \/ offer >= own
  <1>1. ~landing /\ ~(Checks[2] = "stale" /\ upc = "forget")
    BY DEF RestoreCheck
  <1>2. lpc = "ready"
    BY DEF RestoreCheck
  <1>3. ~owed /\ ~pushing
    BY <1>2 DEF Stands, Checks, Launching
  <1>4. upc # "forget"
    BY <1>1 DEF Checks, SecondLook
  <1>5. ASSUME ~oldCopy PROVE offer = 0 \/ offer >= own
    <2>1. CASE kind = "file"
      BY <1>1, <1>3, <1>5, <2>1 DEF SecondLook, Settled
    <2>2. CASE kind # "file"
      BY <1>1, <1>2, <1>3, <1>4, <1>5, <2>2 DEF Stands, Checks, ForgottenSince, FetchFresh, Told, Settled
    <2> QED
      BY <2>1, <2>2
  <1> QED
    BY <1>1, <1>3, <1>4, <1>5

\* A restore writes over the console's copy with what OfferFresh allows.
LEMMA OwnCopyStep ==
    ASSUME ConstAssumption, TypeOK, Launching, Jobs, Numbered, Landed, FetchFresh,
           SecondLook, OwnCopy, Next
    PROVE  OwnCopy'
  <1> USE DEF Numbers, LaunchUnchanged, RestoreUnchanged, UploadUnchanged,
          BackfillUnchanged, disk, uploader, launch, backfill, restore, game, history
  <1>1. Numbers
    BY RowsType
  <1>2. CASE UNCHANGED <<forgot, landing, mine, own, oldCopy, owed, upc>>
    BY <1>2 DEF OwnCopy
  <1>3. CASE ListOffline
    BY <1>1, <1>3 DEF ListOffline, OwnCopy
  <1>4. CASE WriteSave
    BY <1>1, <1>4 DEF WriteSave, OwnCopy
  <1>4p. CASE PushSave
    <2>1. mine' = mine /\ own' = own /\ mine = own
      BY <1>4p DEF PushSave, Jobs
    <2>2. mine' >= own'
      BY <1>1, <2>1
    <2> QED
      BY <2>2 DEF OwnCopy
  <1>5. CASE RestoreCheck
    <2>1. CASE UNCHANGED mine
      <3>1. landing => landing'
        BY <1>5 DEF RestoreCheck
      <3> QED
        BY <1>5, <2>1, <3>1 DEF RestoreCheck, OwnCopy
    <2>2. CASE mine' # mine
      <3>1. /\ rpc = 2 /\ lpc = "ready" /\ kind # "battery" /\ ~Stands(Checks[2])
            /\ mine' = offer /\ offer # 0
            /\ landing' = (landing \/ (Checks[2] = "stale" /\ upc = "forget"))
        BY <1>5, <2>2 DEF RestoreCheck, StartFrom, Checks, TypeOK
      <3>2. SUFFICES ASSUME ~forgot, ~landing, ~landing' PROVE OwnCopy'
        BY <1>5, <3>1 DEF RestoreCheck, OwnCopy
      <3>3. ~owed /\ upc # "forget" /\ (oldCopy \/ offer >= own)
        BY <1>5, <3>1, <3>2, OfferFresh
      <3> QED
        BY <1>1, <1>5, <3>1, <3>3 DEF RestoreCheck, OwnCopy
    <2> QED
      BY <2>1, <2>2
  <1>6. CASE TakeJob
    BY <1>1, <1>6 DEF TakeJob, Jobs, Landed, OwnCopy
  <1>7. CASE Deliver
    BY <1>1, <1>7 DEF Deliver, OwnCopy
  <1>8. CASE UploadFails
    BY <1>1, <1>8 DEF UploadFails, OwnCopy
  <1>9. CASE ClearPending
    <2>1. ASSUME ~forgot', ~landing' PROVE ~forgot /\ ~landing
      BY <1>9, <2>1 DEF ClearPending
    <2>2. SUFFICES ASSUME ~forgot, ~landing PROVE OwnCopy'
      BY <2>1 DEF OwnCopy
    <2> QED
      BY <1>9, <2>2 DEF ClearPending, OwnCopy
  <1>10. CASE Forget
    <2>1. mine < own /\ oldCopy => oldCopy'
      BY <1>10, Zenon DEF Forget
    <2>2. UNCHANGED <<forgot, landing, mine, own, owed>>
      BY <1>10 DEF Forget
    <2>3. mine >= own \/ mine < own
      BY <1>1
    <2> QED
      BY <2>1, <2>2, <2>3 DEF OwnCopy
  <1>11. CASE Unlink
    BY <1>1, <1>11 DEF Unlink, OwnCopy
  <1>12. CASE Refetch
    BY <1>1, <1>12 DEF Refetch, OwnCopy
  <1>13. CASE PutRefetched
    BY <1>1, <1>13 DEF PutRefetched, PutList, OwnCopy
  <1>14. CASE PutSent
    BY <1>1, <1>14 DEF PutSent, PutBytes, OwnCopy
  <1>15. CASE Crash
    BY <1>1, <1>15 DEF Crash, OwnCopy
  <1> QED
    BY <1>2, <1>3, <1>4, <1>4p, <1>5, <1>6, <1>7, <1>8, <1>9, <1>10, <1>11, <1>12,
       <1>13, <1>14, <1>15
       DEF Next, LaunchWorker, FrameThread, UploadWorker, Backfill,
           Environment, Launch, AskList, ListAnswer, ListCheck, PutAnswer,
           ListUnreached, BytesOnline, BytesOffline, NothingOffered, Cancel,
           Exit, Resend, BackfillMark, BackfillAnswer, BackfillCheck,
           BackfillPut, BackfillBytes, OtherDevice, Reconnect

-----------------------------------------------------------------------------
(* The theorems. *)

\* IInv holds at the start.
LEMMA Start == ASSUME ConstAssumption, Init PROVE IInv
  <1>1. TypeOK
    <2>1. 0 \in Save
      BY DEF Save, ConstAssumption
    <2>2. /\ owed \in BOOLEAN /\ playing \in BOOLEAN /\ pushing \in BOOLEAN
          /\ forgot \in BOOLEAN /\ oldCopy \in BOOLEAN /\ landing \in BOOLEAN
      BY Zenon DEF Init
    <2> QED
      BY <2>1, <2>2 DEF Init, TypeOK
  <1> QED
    BY <1>1 DEF Init, IInv, Launching, Jobs, Numbered, Rows, Delivered, Settled, Landed, Told,
           PutsNew, Fresh, BytesFresh, FetchFresh, SecondLook, OwnCopy, MirrorFresh, NoList

\* IInv is inductive.
LEMMA Step == ASSUME ConstAssumption, IInv, [Next]_vars PROVE IInv'
  <1> USE DEF IInv
  <1>1. CASE Next
    BY <1>1, TypeStep, LaunchingStep, JobsStep, NumberedStep, DeliveredStep, LandedStep,
       PutsNewStep, BytesFreshStep, FetchFreshStep, SecondLookStep, OwnCopyStep, MirrorFreshStep
  <1>2. CASE UNCHANGED vars
    <2> USE <1>2 DEF vars, disk, uploader, launch, backfill, restore, game, history
    <2>1. TypeOK' /\ Launching' /\ Jobs'
      BY DEF TypeOK, Launching, Jobs
    <2>2. Numbered' /\ Delivered' /\ Landed'
      BY DEF Numbered, Rows, Delivered, Landed, Settled
    <2>3. PutsNew' /\ BytesFresh' /\ FetchFresh'
      BY DEF PutsNew, BytesFresh, FetchFresh, Fresh, Told, Settled
    <2>4. SecondLook' /\ OwnCopy' /\ MirrorFresh'
      BY DEF SecondLook, OwnCopy, MirrorFresh, Settled
    <2> QED
      BY <2>1, <2>2, <2>3, <2>4
  <1> QED
    BY <1>1, <1>2

\* What stands between the console and an old save, on every path, for any
\* number of saves (uploader.cpp, savemirror.cpp, saves.cpp).
THEOREM SaveRestoreInvariant == Spec => []IInv
  <1>1. Init => IInv
    BY ConstAssumption, Start
  <1>2. IInv /\ [Next]_vars => IInv'
    BY ConstAssumption, Step
  <1> QED
    BY <1>1, <1>2, PTL DEF Spec

\* Every variable holds what its declaration says.
THEOREM SaveRestoreTypes == Spec => []TypeOK
  BY SaveRestoreInvariant, PTL DEF IInv

\* The copy of RomM's rows that offline play reads is never older than a save
\* this console sent (savemirror.h), but for a save that has no marker (cut before
\* it, not written, removed for an older save) or an old copy that outlived the
\* landing.
THEOREM MirrorIsFresh == Spec => []MirrorFresh
  <1>1. IInv => MirrorFresh
    BY DEF IInv
  <1> QED
    BY <1>1, SaveRestoreInvariant, PTL

\* No game starts from a save older than this console's newest (restoreBatterySave,
\* restoreDirSave, restoreFileSaves), but in the window named by landing, when
\* that save has no marker, or from a copy that outlived its landing.
THEOREM GamesStartFromTheNewest == Spec => StartsFromNewest
  <1>1. ASSUME IInv, Next, playing', ~playing
        PROVE  start' >= own \/ landing' \/ oldCopy \/ forgot
    <2> USE DEF IInv
    <2>1. RestoreCheck
      BY <1>1
         DEF Next, LaunchWorker, FrameThread, UploadWorker, Backfill, Environment,
             Launch, AskList, ListAnswer, ListCheck, PutAnswer, ListUnreached, ListOffline,
             BytesOnline, BytesOffline, NothingOffered, Cancel, WriteSave, PushSave, Exit, Resend, TakeJob,
             Deliver, UploadFails, ClearPending, Forget, Unlink, Refetch, PutRefetched, PutSent,
             BackfillMark, BackfillAnswer, BackfillCheck, BackfillPut, BackfillBytes,
             OtherDevice, Reconnect, Crash, LaunchUnchanged, UploadUnchanged, BackfillUnchanged, game
    <2>2. SUFFICES ASSUME ~forgot, ~landing', ~oldCopy PROVE start' >= own
      OBVIOUS
    <2>3. mine >= own
      <3>1. ~landing
        BY <2>1, <2>2 DEF RestoreCheck
      <3> QED
        BY <1>1, <2>2, <3>1 DEF OwnCopy
    <2>4. \/ start' = mine
          \/ rpc = 2 /\ ~Stands(Checks[2]) /\ start' = offer /\ offer # 0
      BY <1>1, <2>1 DEF RestoreCheck, StartFrom, game, TypeOK
    <2> QED
      BY <1>1, <2>1, <2>2, <2>3, <2>4, OfferFresh
  <1>2. IInv /\ [Next]_vars
          => [playing' /\ ~playing => start' >= own \/ landing' \/ oldCopy \/ forgot]_vars
    BY <1>1
  <1> QED
    BY <1>2, SaveRestoreInvariant, PTL DEF Spec, StartsFromNewest

-----------------------------------------------------------------------------
(* The ledger: each step is one of what is owed, or none.                  *)

\* While nothing is done to the save, its marker or RomM, the ledger stands.
LEMMA LedgerStands ==
    ASSUME UNCHANGED <<own, server, owed, forgot, pushing>>
    PROVE  UNCHANGED Ledger!vars
  BY DEF Ledger!vars

\* The save, its marker and its landing are the ledger's of one entry, for any number
\* of saves: what UploadQueue's own theorem says of the queue (uploader.cpp).
THEOREM RestoreKeepsTheLedger == Spec => LedgerKept
  <1>1. Init => Ledger!Init
    BY DEF Init, Ledger!Init
  <1>2. IInv /\ IInv' /\ [Next]_vars => [Ledger!Next]_(Ledger!vars)
    <2> SUFFICES ASSUME IInv, IInv', [Next]_vars PROVE [Ledger!Next]_(Ledger!vars)
      OBVIOUS
    <2> /\ Numbers /\ own \in Int /\ server \in Int /\ uver \in Int /\ saves \in Int
        /\ saves' \in Int /\ server' \in Int
      BY ConstAssumption, RowsType DEF IInv, TypeOK, Save, Numbers
    <2>1. CASE WriteSave
      <3>1. own' > own /\ UNCHANGED <<server, owed, forgot>> /\ pushing' = TRUE
        BY <2>1 DEF WriteSave, IInv, Numbered
      <3>2. Ledger!Write(0)
        BY <3>1 DEF Ledger!Write, Ledger!Made
      <3> QED
        BY <3>2 DEF Ledger!Next
    <2>5. CASE PushSave
      <3>1. UNCHANGED <<own, server>> /\ pushing /\ pushing' = FALSE
        BY <2>5 DEF PushSave
      <3>2. CASE owed' = TRUE /\ forgot' = FALSE
        <4>1. Ledger!Mark(0)
          BY <3>1, <3>2 DEF Ledger!Mark
        <4> QED
          BY <4>1 DEF Ledger!Next
      <3>3. CASE owed' = owed /\ forgot' = (forgot \/ ~owed)
        <4>1. Ledger!Unmarked(0)
          BY <3>1, <3>3 DEF Ledger!Unmarked
        <4> QED
          BY <4>1 DEF Ledger!Next
      <3> QED
        BY <2>5, <3>2, <3>3 DEF PushSave
    <2>6. CASE Crash
      <3>1. /\ UNCHANGED <<own, server, owed>> /\ pushing' = FALSE
            /\ forgot' = (forgot \/ (pushing /\ ~owed))
        BY <2>6 DEF Crash, disk
      <3>2. Ledger!Cut
        BY <3>1 DEF Ledger!Cut
      <3> QED
        BY <3>2 DEF Ledger!Next
    <2>2. CASE Deliver \/ OtherDevice
      <3>1. UNCHANGED <<own, owed, forgot, pushing>>
        BY <2>2 DEF Deliver, OtherDevice, UploadUnchanged, disk, game
      <3>2. own > server' => pushing \/ owed \/ forgot
        <4>1. Settled' => server' >= own'
          BY DEF IInv, Landed
        <4>2. own > server' => ~(server' >= own')
          BY <3>1
        <4> QED
          BY <3>1, <4>1, <4>2, Zenon DEF Settled
      <3>3. Ledger!Land(0)
        BY <3>1, <3>2 DEF Ledger!Land, Ledger!Newer
      <3> QED
        BY <3>3 DEF Ledger!Next
    <2>3. CASE ClearPending
      <3>1. /\ UNCHANGED <<own, server, pushing>>
            /\ owed' = FALSE /\ forgot' = (forgot \/ uver < own)
        BY <2>3 DEF ClearPending, UploadUnchanged, game
      <3>2. own > server => forgot'
        <4>1. own > server => uver < own
          BY <2>3 DEF ClearPending, IInv, Jobs
        <4> QED
          BY <3>1, <4>1, Zenon
      <3>3. Ledger!Settle(0)
        BY <3>1, <3>2 DEF Ledger!Settle, Ledger!Newer
      <3> QED
        BY <3>3 DEF Ledger!Next
    <2>4. CASE /\ [Next]_vars /\ ~WriteSave /\ ~PushSave /\ ~Deliver /\ ~OtherDevice
               /\ ~ClearPending /\ ~Crash
      <3>1. UNCHANGED <<own, server, owed, forgot, pushing>>
        BY <2>4
           DEF Next, LaunchWorker, FrameThread, UploadWorker, Backfill, Environment,
               Launch, AskList, ListAnswer, ListCheck, PutAnswer, ListUnreached, ListOffline,
               BytesOnline, BytesOffline, NothingOffered, Cancel, Exit, RestoreCheck, Resend,
               TakeJob, UploadFails, Forget, Unlink, Refetch, PutRefetched, PutSent,
               BackfillMark, BackfillAnswer, BackfillCheck, BackfillPut, BackfillBytes,
               Reconnect, LaunchUnchanged, RestoreUnchanged, UploadUnchanged,
               BackfillUnchanged, vars, disk, game, history
      <3> QED
        BY <3>1, LedgerStands
    <2> QED
      BY <2>1, <2>2, <2>3, <2>4, <2>5, <2>6
  <1> QED
    BY <1>1, <1>2, SaveRestoreInvariant, PTL DEF Spec, LedgerKept, Ledger!Spec
=============================================================================
