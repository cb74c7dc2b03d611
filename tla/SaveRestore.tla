---------------------------- MODULE SaveRestore ----------------------------
(***************************************************************************)
(* Which save a game starts from (src/frontend/src/saves.cpp), and the     *)
(* console's copy of RomM's saves that offline play reads                  *)
(* (src/frontend/src/savemirror.cpp), for one game and one person.         *)
(*                                                                         *)
(* Four threads meet here: the launch worker fetches RomM's rows and       *)
(* bytes, the frame thread decides behind the curtain whether to restore   *)
(* them, the upload queue's worker lands saves of the same game and        *)
(* forgets the copy, and the backfill refills the copy.  The queue itself  *)
(* is UploadQueue's; here it is the one save in flight and the one waiting *)
(* behind it.                                                              *)
(*                                                                         *)
(* Saves are numbered in the order they were made, on any device.  A row   *)
(* of RomM is known by the number of the save it held when it was listed.  *)
(* Any request may reach RomM or not; each says so in away (noteTransport). *)
(***************************************************************************)
EXTENDS Integers, FiniteSets

CONSTANTS
    Kinds,       \* the kinds of save the game may have
    MaxSaves     \* bound: saves made, on every device together

ASSUME ConstAssumption ==
    /\ Kinds \subseteq {"battery", "folder", "file"} /\ Kinds # {}
    /\ MaxSaves \in Nat \ {0}

Save == 0 .. MaxSaves    \* 0 is no save, an empty answer
Made == 1 .. MaxSaves
NoList == -1             \* no saves.json: never seen, or forgotten

VARIABLES
    \* on the disk
    mine,      \* the console's own copy
    owed,      \* its marker (pending.cpp)
    listed,    \* the mirror's newest row, or NoList
    kept,      \* the mirror's bytes: <<row, save>> pairs
    server,    \* on RomM: the newest row under the tag
    \* the frontend's memory
    away,                    \* romm::serverAway()
    marks,                   \* the fetches whose mark no forget has passed
    upc, uver, next, urow,   \* the upload queue's worker
    lpc, lrow, offer,        \* the launch worker: SaveFetch
    bpc, brow,               \* the backfill
    kind, rpc,               \* the game's kind of save; the restore's next check
    playing, start,          \* the game, and the save it started from
    pushing,                 \* its new save is written, and not yet marked
    \* history
    saves,     \* saves made so far
    own,       \* the newest of them made on this console
    forgot,    \* it has no marker: that could not be written, the power went
               \* first, or it was removed for an older save (UploadQueue)
    oldCopy,   \* an old mirror outlived the newest landing
    landing    \* a restore looked between a landing and its forget

disk     == <<mine, owed, listed, kept>>
uploader == <<upc, uver, next, urow>>
launch   == <<lpc, lrow, offer>>
backfill == <<bpc, brow>>
restore  == <<kind, rpc>>
game     == <<playing, start, pushing>>
history  == <<saves, own, forgot, oldCopy, landing>>
vars == <<disk, server, away, marks, uploader, launch, backfill, restore,
          game, history>>

-----------------------------------------------------------------------------
(* savemirror.cpp *)

\* The three fetches that take a mark: SaveFetch's, savesFor's, backfillDrive's.
Fetches == {"fetch", "list", "backfill"}

Mark(f) == marks' = marks \cup {f}
ForgottenSince(f) == f \notin marks

\* The rows as listed; bytes of rows no longer listed go.
PutList(row) ==
    /\ listed' = row
    /\ kept' = {k \in kept : k[1] = row}

PutBytes(row, save) == kept' = {k \in kept : k[1] # row} \cup {<<row, save>>}

GetBytes(row) == {k[2] : k \in {e \in kept : e[1] = row}}

-----------------------------------------------------------------------------
(* The game: it starts from a save and makes others (syncSave, syncDirSave, *)
(* syncFileSaves; Uploader::push).                                          *)

\* Written first of all, ...
WriteSave ==
    /\ playing /\ ~pushing /\ saves < MaxSaves
    /\ saves' = saves + 1
    /\ mine' = saves' /\ own' = saves'
    /\ pushing' = TRUE /\ landing' = FALSE
    /\ UNCHANGED <<owed, listed, kept, server, away, marks, uploader, launch,
                   backfill, restore, playing, start, forgot, oldCopy>>

\* ... then marked, and queued in the place of one waiting: queued all the same
\* when the marker cannot be written, an earlier save's naming it too.
PushSave ==
    /\ pushing /\ pushing' = FALSE
    /\ next' = own
    /\ \/ owed' = TRUE /\ forgot' = FALSE
       \/ owed' = owed /\ forgot' = (forgot \/ ~owed)
    /\ UNCHANGED <<mine, listed, kept, server, away, marks, upc, uver, urow, launch,
                   backfill, restore, playing, start, saves, own, oldCopy, landing>>

Exit ==
    /\ playing /\ ~pushing
    /\ playing' = FALSE /\ start' = 0
    /\ UNCHANGED <<disk, server, away, marks, uploader, launch, backfill,
                   restore, pushing, history>>

-----------------------------------------------------------------------------
(* The launch worker: fetchSaves, savesFor, saveBytesFor. *)

LaunchUnchanged ==
    UNCHANGED <<mine, owed, server, uploader, backfill, restore, game, saves,
                own, forgot, oldCopy>>

Launch ==
    /\ lpc = "idle" /\ ~playing
    /\ lpc' = "list"
    /\ Mark("fetch")
    /\ LaunchUnchanged /\ UNCHANGED <<listed, kept, away, lrow, offer, landing>>

\* Online RomM is asked, and savesFor's own mark taken first.
AskList ==
    /\ lpc = "list" /\ ~away
    /\ Mark("list")
    /\ lpc' = "answer"
    /\ LaunchUnchanged /\ UNCHANGED <<listed, kept, away, lrow, offer, landing>>

ListAnswer ==
    /\ lpc = "answer"
    /\ lrow' = server
    /\ lpc' = "check"
    /\ away' = FALSE
    /\ LaunchUnchanged /\ UNCHANGED <<listed, kept, marks, offer, landing>>

\* The rows go in the mirror unless the game was forgotten since the asking:
\* asked here, put back by the next action.
ListCheck ==
    /\ lpc = "check"
    /\ lpc' = IF ForgottenSince("list") THEN "bytes" ELSE "put"
    /\ marks' = marks \ {"list"}
    /\ LaunchUnchanged /\ UNCHANGED <<listed, kept, away, lrow, offer, landing>>

PutAnswer ==
    /\ lpc = "put"
    /\ PutList(lrow)
    /\ lpc' = "bytes"
    /\ LaunchUnchanged /\ UNCHANGED <<away, marks, lrow, offer, landing>>

ListUnreached ==
    /\ lpc = "answer"
    /\ away' = TRUE
    /\ lpc' = "mirror"
    /\ marks' = marks \ {"list"}
    /\ LaunchUnchanged /\ UNCHANGED <<listed, kept, lrow, offer, landing>>

\* A list that is not there read as one.
ListOffline_Unseen ==
    /\ away /\ lpc \in {"list", "mirror"}
    /\ lpc' = "bytes" /\ lrow' = listed
    /\ landing' = (landing \/ upc = "unlink")
    /\ LaunchUnchanged /\ UNCHANGED <<listed, kept, away, marks, offer>>

\* Away, the rows are the mirror's as last seen; without any there are none.
\* The mirror read between the two halves of a forget is the copy going.
ListOffline ==
    /\ away /\ lpc \in {"list", "mirror"}
    /\ IF listed = NoList THEN lpc' = "ready" /\ UNCHANGED lrow
                          ELSE lpc' = "bytes" /\ lrow' = listed
    /\ landing' = (landing \/ upc = "unlink")
    /\ LaunchUnchanged /\ UNCHANGED <<listed, kept, away, marks, offer>>

\* The bytes of the newest row: RomM's now, a row overwritten since the list
\* being its newer bytes, kept in the mirror under the row as listed ...
BytesOnline ==
    /\ lpc = "bytes" /\ lrow # 0 /\ ~away
    /\ \E save \in {lrow, server} :
          /\ offer' = save
          /\ PutBytes(lrow, save)
    /\ lpc' = "ready" /\ lrow' = 0
    /\ LaunchUnchanged /\ UNCHANGED <<listed, away, marks, landing>>

\* ... or the mirror's; a row with no bytes offers nothing.
BytesOffline ==
    /\ lpc = "bytes" /\ lrow # 0
    /\ away' = TRUE
    /\ offer' = IF GetBytes(lrow) = {} THEN 0 ELSE CHOOSE b \in GetBytes(lrow) : TRUE
    /\ lpc' = "ready" /\ lrow' = 0
    /\ LaunchUnchanged /\ UNCHANGED <<listed, kept, marks, landing>>

\* No row; or RomM answered with an error, which is no answer to play from.
NothingOffered ==
    /\ \/ lpc = "bytes" /\ lrow = 0 /\ UNCHANGED away
       \/ lpc = "mirror" /\ ~away /\ UNCHANGED away
       \/ lpc \in {"answer", "bytes"} /\ away' = FALSE
    /\ lpc' = "ready" /\ lrow' = 0
    /\ marks' = marks \ {"list"}
    /\ LaunchUnchanged /\ UNCHANGED <<listed, kept, offer, landing>>

Cancel ==
    /\ lpc # "idle" /\ lpc' = "idle" /\ lrow' = 0 /\ offer' = 0
    /\ marks' = marks \ {"fetch", "list"}
    /\ rpc = 1
    /\ LaunchUnchanged /\ UNCHANGED <<listed, kept, away, landing>>

-----------------------------------------------------------------------------
(* The frame thread, behind the curtain: restoreBatterySave and             *)
(* restoreDirSave ask first whether the console's copy is owed,             *)
(* restoreFileSaves whether the fetch is stale.                             *)

Checks == IF kind = "file" THEN <<"stale", "owed">> ELSE <<"owed", "stale">>

RestoreUnchanged ==
    UNCHANGED <<owed, listed, kept, server, away, uploader, lrow, backfill,
                kind, pushing, saves, own, forgot, oldCopy>>

\* Only the fetch asked about, never the marker.
Stands_Fetched(check) == check = "stale" /\ ForgottenSince("fetch")

\* The console's own copy stands while it is owed, or when a save of the game
\* landed since the rows were fetched.
Stands(check) == IF check = "owed" THEN owed ELSE ForgottenSince("fetch")

\* A battery goes into the core's memory; a folder or a file is written over
\* the console's own copy.
StartFrom(save) ==
    /\ start' = save
    /\ mine' = IF kind = "battery" THEN mine ELSE save
    /\ playing' = TRUE
    /\ rpc' = 1 /\ lpc' = "idle" /\ offer' = 0
    /\ marks' = marks \ {"fetch"}

RestoreCheck ==
    /\ lpc = "ready"
    /\ LET check == Checks[rpc]
       IN  /\ landing' = (landing \/ (check = "stale" /\ upc = "forget"))
           /\ \/ /\ Stands(check)
                 /\ StartFrom(mine)
              \/ /\ ~Stands(check) /\ rpc = 1
                 /\ rpc' = 2
                 /\ UNCHANGED <<mine, marks, lpc, offer, game>>
              \/ /\ ~Stands(check) /\ rpc = 2
                 /\ StartFrom(IF offer = 0 THEN mine ELSE offer)
    /\ RestoreUnchanged

-----------------------------------------------------------------------------
(* The upload queue's worker landing a save of this game: Uploader::run and *)
(* refreshSaveCopy.                                                         *)

UploadUnchanged ==
    UNCHANGED <<mine, launch, backfill, restore, game, saves, own>>

\* A resend of what is owed reads the console's copy.
Resend ==
    /\ owed /\ next = 0 /\ upc = "idle" /\ mine # 0
    /\ next' = mine
    /\ UploadUnchanged
    /\ UNCHANGED <<owed, listed, kept, server, away, marks, upc, uver, urow,
                   forgot, oldCopy, landing>>

TakeJob ==
    /\ upc = "idle" /\ next # 0
    /\ uver' = next /\ next' = 0
    /\ upc' = "send"
    /\ UploadUnchanged
    /\ UNCHANGED <<owed, listed, kept, server, away, marks, urow, forgot, oldCopy,
                   landing>>

Deliver ==
    /\ upc = "send"
    /\ server' = uver
    /\ upc' = "reply"
    /\ UploadUnchanged
    /\ UNCHANGED <<owed, listed, kept, away, marks, uver, next, urow,
                   forgot, oldCopy, landing>>

\* Not reached, or its answer lost: owed still.
UploadFails ==
    /\ upc \in {"send", "reply"}
    /\ away' = IF upc = "send" THEN TRUE ELSE away
    /\ upc' = "idle" /\ uver' = 0
    /\ UploadUnchanged
    /\ UNCHANGED <<owed, listed, kept, server, marks, next, urow, forgot, oldCopy,
                   landing>>

\* Between the two checks of a file's restore this landing goes unseen.
ClearPending ==
    /\ upc = "reply"
    /\ owed' = FALSE
    /\ forgot' = (forgot \/ uver < own)
    /\ landing' = (landing \/ (rpc = 2 /\ kind = "file"))
    /\ upc' = "forget"
    /\ away' = FALSE
    /\ UploadUnchanged
    /\ UNCHANGED <<listed, kept, server, marks, uver, next, urow, oldCopy>>

\* The copy deleted, and no fetch told of it.
Forget_Silent ==
    /\ upc = "forget"
    /\ upc' = "unlink"
    /\ UploadUnchanged
    /\ UNCHANGED <<owed, listed, kept, server, away, marks, uver, next, urow, forgot,
                   oldCopy, landing>>

\* savemirror::forget says so first; a list already checked and about to be put
\* back will not hear it, nor does it help a game that started from an old copy ...
Forget ==
    /\ upc = "forget"
    /\ marks' = {}
    /\ oldCopy' = (lpc = "put" \/ bpc = "put" \/ (oldCopy /\ mine < own))
    /\ upc' = "unlink"
    /\ UploadUnchanged
    /\ UNCHANGED <<owed, listed, kept, server, away, uver, next, urow, forgot,
                   landing>>

\* ... and then deletes the copy.
Unlink ==
    /\ upc = "unlink"
    /\ listed' = NoList /\ kept' = {}
    /\ upc' = "refetch"
    /\ UploadUnchanged
    /\ UNCHANGED <<owed, server, away, marks, uver, next, urow, forgot, oldCopy,
                   landing>>

\* Asked again; should the asking fail there is no copy.
Refetch ==
    /\ upc = "refetch"
    /\ \/ away' = FALSE /\ urow' = server /\ upc' = "putlist" /\ UNCHANGED uver
       \/ away' = TRUE /\ upc' = "idle" /\ uver' = 0 /\ UNCHANGED urow
    /\ UploadUnchanged
    /\ UNCHANGED <<owed, listed, kept, server, marks, next, forgot, oldCopy,
                   landing>>

PutRefetched ==
    /\ upc = "putlist"
    /\ PutList(urow)
    /\ upc' = "putbytes"
    /\ UploadUnchanged
    /\ UNCHANGED <<owed, server, away, marks, uver, next, urow, forgot, oldCopy,
                   landing>>

\* The bytes just sent are the row's, when it is still this console's.
PutSent ==
    /\ upc = "putbytes"
    /\ IF urow = uver THEN PutBytes(urow, uver) ELSE UNCHANGED kept
    /\ upc' = "idle" /\ uver' = 0 /\ urow' = 0
    /\ UploadUnchanged
    /\ UNCHANGED <<owed, listed, server, away, marks, next, forgot, oldCopy,
                   landing>>

-----------------------------------------------------------------------------
(* The backfill: what offline needs, fetched while online (backfillDrive). *)

BackfillUnchanged ==
    UNCHANGED <<mine, owed, server, uploader, launch, restore, game, history>>

BackfillMark ==
    /\ bpc = "idle" /\ ~away
    /\ Mark("backfill")
    /\ bpc' = "ask"
    /\ BackfillUnchanged /\ UNCHANGED <<listed, kept, away, brow>>

BackfillAnswer ==
    /\ bpc = "ask"
    /\ \/ away' = FALSE /\ brow' = server /\ bpc' = "check" /\ UNCHANGED marks
       \/ away' = TRUE /\ bpc' = "idle" /\ marks' = marks \ {"backfill"} /\ UNCHANGED brow
    /\ BackfillUnchanged /\ UNCHANGED <<listed, kept>>

\* The list put back without asking what was forgotten meanwhile.
BackfillCheck_Unasked ==
    /\ bpc = "check" /\ bpc' = "put"
    /\ marks' = marks \ {"backfill"}
    /\ BackfillUnchanged /\ UNCHANGED <<listed, kept, away, brow>>

BackfillCheck ==
    /\ bpc = "check"
    /\ IF ForgottenSince("backfill") THEN bpc' = "idle" /\ brow' = 0
                                     ELSE bpc' = "put" /\ UNCHANGED brow
    /\ marks' = marks \ {"backfill"}
    /\ BackfillUnchanged /\ UNCHANGED <<listed, kept, away>>

BackfillPut ==
    /\ bpc = "put"
    /\ PutList(brow)
    /\ bpc' = "bytes"
    /\ BackfillUnchanged /\ UNCHANGED <<away, marks, brow>>

BackfillBytes ==
    /\ bpc = "bytes"
    /\ IF brow = 0 \/ GetBytes(brow) # {}
       THEN UNCHANGED <<kept, away>>
       ELSE \/ away' = FALSE /\ \E save \in {brow, server} : PutBytes(brow, save)
            \/ away' = TRUE /\ UNCHANGED kept
    /\ bpc' = "idle" /\ brow' = 0
    /\ BackfillUnchanged /\ UNCHANGED <<listed, marks>>

-----------------------------------------------------------------------------
(* The person's other devices, RomM, and the end of the process. *)

OtherDevice ==
    /\ saves < MaxSaves
    /\ saves' = saves + 1 /\ server' = saves'
    /\ UNCHANGED <<disk, away, marks, uploader, launch,
                   backfill, restore, game, own, forgot, oldCopy, landing>>

\* Any request finding the server there, or gone (noteTransport).
Reconnect ==
    /\ away' = ~away
    /\ UNCHANGED <<disk, server, marks, uploader, launch, backfill, restore,
                   game, history>>

\* The power goes: the marks and the fetches are forgotten, the disk is not.
\* Between clearPending and the end of forget the old copy stays behind, and
\* between a save and its marker the save is not known to be owed.
Crash ==
    /\ oldCopy' = (oldCopy \/ upc \in {"forget", "unlink"})
    /\ forgot' = (forgot \/ (pushing /\ ~owed))
    /\ upc' = "idle" /\ uver' = 0 /\ next' = 0 /\ urow' = 0
    /\ lpc' = "idle" /\ lrow' = 0 /\ offer' = 0
    /\ bpc' = "idle" /\ brow' = 0
    /\ rpc' = 1 /\ playing' = FALSE /\ start' = 0 /\ pushing' = FALSE
    /\ marks' = {}
    /\ away' \in BOOLEAN
    /\ UNCHANGED <<disk, server, kind, saves, own, landing>>

-----------------------------------------------------------------------------
(* The specification. *)

Init ==
    /\ mine = 0 /\ owed = FALSE /\ listed = NoList /\ kept = {}
    /\ server = 0 /\ away \in BOOLEAN
    /\ marks = {}
    /\ upc = "idle" /\ uver = 0 /\ next = 0 /\ urow = 0
    /\ lpc = "idle" /\ lrow = 0 /\ offer = 0
    /\ bpc = "idle" /\ brow = 0
    /\ kind \in Kinds /\ rpc = 1
    /\ playing = FALSE /\ start = 0 /\ pushing = FALSE
    /\ saves = 0 /\ own = 0 /\ forgot = FALSE /\ oldCopy = FALSE
    /\ landing = FALSE

LaunchWorker ==
    \/ Launch \/ AskList \/ ListAnswer \/ ListCheck \/ PutAnswer \/ ListUnreached
    \/ ListOffline \/ BytesOnline \/ BytesOffline \/ NothingOffered \/ Cancel

FrameThread == WriteSave \/ PushSave \/ Exit \/ RestoreCheck

UploadWorker ==
    \/ Resend \/ TakeJob \/ Deliver \/ UploadFails \/ ClearPending \/ Forget
    \/ Unlink \/ Refetch \/ PutRefetched \/ PutSent

Backfill ==
    \/ BackfillMark \/ BackfillAnswer \/ BackfillCheck \/ BackfillPut
    \/ BackfillBytes

Environment == OtherDevice \/ Reconnect \/ Crash

Next == LaunchWorker \/ FrameThread \/ UploadWorker \/ Backfill \/ Environment

Spec == Init /\ [][Next]_vars

-----------------------------------------------------------------------------
(* Properties. *)

\* Every variable holds what its declaration says.
TypeOK ==
    /\ mine \in Save /\ owed \in BOOLEAN /\ listed \in Save \cup {NoList}
    /\ kept \subseteq Made \X Made
    /\ server \in Save /\ away \in BOOLEAN
    /\ marks \subseteq Fetches
    /\ upc \in {"idle", "send", "reply", "forget", "unlink", "refetch",
                "putlist", "putbytes"}
    /\ uver \in Save /\ next \in Save /\ urow \in Save
    /\ lpc \in {"idle", "list", "answer", "check", "mirror", "put", "bytes", "ready"}
    /\ lrow \in Save /\ offer \in Save
    /\ bpc \in {"idle", "ask", "check", "put", "bytes"} /\ brow \in Save
    /\ kind \in Kinds /\ rpc \in {1, 2}
    /\ playing \in BOOLEAN /\ start \in Save /\ pushing \in BOOLEAN
    /\ saves \in Save /\ own \in Save
    /\ forgot \in BOOLEAN /\ oldCopy \in BOOLEAN /\ landing \in BOOLEAN

\* Once a save of this console is pushed and no longer owed, and its landing has
\* forgotten the old copy, offline play's copy of RomM's rows is not older than it
\* (savemirror.h: it can never be older than a save the console sent); unless
\* the save was never known to be owed, or not until it landed (forgot: the power
\* went before its marker, the marker could not be written, or was removed for an
\* older save), or the old copy outlived the landing (oldCopy).
MirrorFresh ==
    (listed # NoList /\ ~pushing /\ ~owed /\ upc \notin {"forget", "unlink"})
        => listed >= own \/ oldCopy \/ forgot

\* A game never starts from a save older than the newest this console made
\* (saves.cpp, fetchIsStale; ARCHITECTURE.md, the restore): unless a restore
\* looked between that save's landing and its forget, or one of the above.
StartsFromNewest ==
    [][playing' /\ ~playing => start' >= own \/ landing' \/ oldCopy \/ forgot]_vars

\* The save of this game, as UploadQueue has it (SaveLedger): what this module has of
\* the queue is in agreement with what the queue does.
Ledger == INSTANCE SaveLedger WITH
    Entries <- {0}, made <- [e \in {0} |-> own], romm <- [e \in {0} |-> server],
    Frail <- {}, gone <- {}, writing <- {e \in {0} : pushing},
    owed <- {e \in {0} : owed}, lapsed <- {e \in {0} : forgot}

LedgerKept == Ledger!Spec
=============================================================================
