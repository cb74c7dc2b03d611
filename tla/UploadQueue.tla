---------------------------- MODULE UploadQueue ----------------------------
(***************************************************************************)
(* The upload queue of CabinetOS (src/frontend/src/uploader.cpp) with the  *)
(* markers of what the console owes RomM (src/frontend/src/pending.cpp),   *)
(* the triggers that queue a resend (start, the timer, the server coming   *)
(* back, a renewed sign-in) and the account switch that must not happen    *)
(* under an upload.                                                        *)
(*                                                                         *)
(* Two threads take steps: the FRAME thread (fpc) writes a save, marks it  *)
(* and queues it, resends, switches the person; the WORKER (wpc) takes     *)
(* jobs off the queue, one at a time.  A step of this module is one        *)
(* critical section, one file operation or one request.                    *)
(*                                                                         *)
(* Data: a file's content is the number of the save it holds (1 is the     *)
(* first one made).  Favourites and play time are "lists": their content   *)
(* is the number of presses (or closed sessions), and their record of what *)
(* is owed is their own file on the disk, not a marker.                    *)
(***************************************************************************)
EXTENDS Integers, Sequences, FiniteSets

CONSTANTS
    People,      \* the accounts of the console
    Saves,       \* save files, overwritten in place by every new save
    States,      \* state files: each name holds a time, so it is made once
    Foreign,     \* the states other devices make under the same tag
    Lists,       \* favourites and play sessions, one job each
    Parkable,    \* the favourites: RomM may never take them (parked), and
                 \* their record is renamed unsynced (favorites.cpp)
    Kept,        \* kStatesKept
    MaxVer,      \* bound: saves made of one file, presses of one list
    MaxRuns,     \* bound: starts of the frontend
    MaxOutages   \* bound: times the server goes away

ASSUME ConstAssumption ==
    /\ Foreign \subseteq States
    /\ Parkable \subseteq Lists
    /\ Saves \cap States = {} /\ Saves \cap Lists = {} /\ States \cap Lists = {}
    /\ Kept \in Nat \ {0}
    /\ MaxVer \in Nat \ {0} /\ MaxRuns \in Nat /\ MaxOutages \in Nat

File == Saves \cup States
Item == File \cup Lists

VARIABLES
    \* on the disk: survive a power cut
    made,      \* the newest save (press) of each person's item, 0 for none
    erased,    \* states this console rotated out: the file is gone
    owed,      \* the markers and the two lists' own records
    \* on RomM
    server,    \* the save RomM has of each person's item, 0 for none
    older,     \* pairs of a person's states on RomM, the first updated before
    up,        \* RomM can be reached
    outages,   \* how often it went away (bounds the model)
    \* the frontend's memory
    current,   \* storage::currentUser() and the live client's login
    away, shownAway,   \* romm::serverAway(), and the frame's memory of it
    libFromDrive,      \* Home is the games on the drive, from an outage
    queue, queued, refused, failed, pending,
    parked,    \* gFavParked
    stopping,  \* Uploader::stopping_
    runs,      \* starts so far (bounds the model)
    wpc, job, result, wtodo,   \* the worker
    fpc, fjob, ftodo,          \* the frame thread
    \* history
    lapsed     \* what the console stopped knowing it owes, and how (below)

disk     == <<made, erased, owed>>
romm     == <<server, older, up, outages>>
qvars    == <<queue, queued, pending>>
memory   == <<refused, failed, parked, stopping>>
person   == <<current, runs>>
worker   == <<wpc, job, result, wtodo>>
frame    == <<fpc, fjob, ftodo>>
link     == <<away, shownAway, libFromDrive>>
vars     == <<disk, romm, qvars, memory, person, link, worker, frame, lapsed>>

Job == [who : People, item : Item, ver : 0 .. MaxVer, resend : BOOLEAN]

\* The bytes of an item on this console's disk; 0 is an empty read.
Disk(p, i) == IF <<p, i>> \in erased THEN 0 ELSE made[p][i]

\* The console holds a save RomM does not have.
Newer(p, i) == Disk(p, i) > server[p][i]

\* Uploader::key names the file and not the person; whoKey names both.
Key(j)    == j.item
WhoKey(j) == <<j.who, j.item>>

\* A retry decided by the last job alone, as it was before failed_.
Owing_LastJob == result = "left"

Owing == failed # {}

\* What the account switch asks of the uploader; nothing, or the queue alone,
\* are what it could wrongly ask.
NothingGoingUp_Unasked == TRUE
NothingGoingUp_QueueOnly == queue = <<>>

NothingGoingUp == pending = 0

\* What resendOwedFor goes through: the markers of the person, then the lists.
OwedBy(p) == {i \in File : <<p, i>> \in owed} \cup Lists

AllKeys == People \X Item

OnRomM(p) == {s \in States : server[p][s] > 0}

ResendJob(p, i) == [who |-> p, item |-> i, ver |-> 0, resend |-> TRUE]

-----------------------------------------------------------------------------
(* The queue, under Uploader::mutex_. *)

\* Where a job of the same key waits in the queue, if one does.
Waiting(j) == {n \in 1 .. Len(queue) : Key(queue[n]) = Key(j)}

FirstWaiting(j) == CHOOSE n \in Waiting(j) : \A m \in Waiting(j) : n <= m

\* A person's own save replaces the bytes of the first job waiting for it.
ReplaceWaiting(j) ==
    /\ queue' = [queue EXCEPT ![FirstWaiting(j)] = j]
    /\ UNCHANGED <<queued, pending>>

QueueBehind(j) ==
    /\ queue' = Append(queue, j)
    /\ queued' = queued \cup {Key(j)}
    /\ pending' = pending + 1

Enqueue(j) ==
    \/ Key(j) \in queued /\ j.resend /\ UNCHANGED qvars
    \/ Key(j) \in queued /\ ~j.resend /\ Waiting(j) # {} /\ ReplaceWaiting(j)
    \/ Key(j) \in queued /\ ~j.resend /\ Waiting(j) = {} /\ QueueBehind(j)
    \/ Key(j) \notin queued /\ QueueBehind(j)

\* A marker whose file RomM refused this run is passed over; a list is queued
\* only when something in it is owed.
PassedOver(p, i) ==
    \/ i \in File /\ <<p, i>> \in refused
    \/ i \in Lists /\ <<p, i>> \notin owed

\* One turn of resendOwedFor's loop.
ResendOne(p, i) ==
    \/ PassedOver(p, i) /\ UNCHANGED qvars
    \/ ~PassedOver(p, i) /\ Enqueue(ResendJob(p, i))

\* The markers go first, the two lists after them.
NextToResend(todo) == IF todo \cap File # {} THEN todo \cap File ELSE todo

-----------------------------------------------------------------------------
(* The frame thread. *)

FrameIdle == fpc = "idle" /\ ~stopping

CanBeMade(i) ==
    \/ i \in Saves /\ made[current][i] < MaxVer
    \/ i \in States \ Foreign /\ made[current][i] = 0 /\ MaxVer > 0

\* A save or a state is written on the disk, first of all (saves.cpp
\* syncSave, states.cpp saveStateNow): Uploader::push comes after it.
WriteFile(i) ==
    /\ FrameIdle /\ CanBeMade(i)
    /\ made' = [made EXCEPT ![current][i] = @ + 1]
    /\ fjob' = [who |-> current, item |-> i, ver |-> made[current][i] + 1,
                resend |-> FALSE]
    /\ fpc' = "mark"
    /\ UNCHANGED <<erased, owed, romm, qvars, memory, person, link, worker,
                   ftodo, lapsed>>

\* Uploader::push, in its three steps.
MarkPending ==
    /\ fpc = "mark"
    /\ owed' = owed \cup {WhoKey(fjob)}
    /\ lapsed' = lapsed \ {WhoKey(fjob)}
    /\ fpc' = "unrefuse"
    /\ UNCHANGED <<made, erased, romm, qvars, memory, person, link, worker,
                   fjob, ftodo>>

\* A marker that cannot be written is logged, and the save queued all the same:
\* an earlier save's marker of the same file, where there is one, names it too.
MarkFails ==
    /\ fpc = "mark"
    /\ lapsed' = lapsed \cup ({WhoKey(fjob)} \ owed)
    /\ fpc' = "unrefuse"
    /\ UNCHANGED <<disk, romm, qvars, memory, person, link, worker, fjob, ftodo>>

Unrefuse ==
    /\ fpc = "unrefuse"
    /\ refused' = refused \ {WhoKey(fjob)}
    /\ fpc' = "enqueue"
    /\ UNCHANGED <<disk, romm, qvars, failed, parked, stopping, person, link,
                   worker, fjob, ftodo, lapsed>>

PushEnqueue ==
    /\ fpc = "enqueue"
    /\ Enqueue(fjob)
    /\ fpc' = "idle"
    /\ UNCHANGED <<disk, romm, memory, person, link, worker, fjob, ftodo, lapsed>>

\* A heart pressed or a play session closed: the list's own record is
\* written, then its job is queued (toggleFavorite, finishExit). A record that
\* cannot be written is a press the disk does not have.
Press(l) ==
    /\ FrameIdle
    /\ \/ /\ made[current][l] < MaxVer
          /\ made' = [made EXCEPT ![current][l] = @ + 1]
          /\ owed' = owed \cup {<<current, l>>}
       \/ UNCHANGED <<made, owed>>
    /\ parked' = parked \ {<<current, l>>}
    /\ fjob' = ResendJob(current, l)
    /\ fpc' = "enqueue"
    /\ UNCHANGED <<erased, romm, qvars, refused, failed, stopping, person,
                   link, worker, ftodo, lapsed>>

BeginResend ==
    /\ fpc' = "resend"
    /\ ftodo' = OwedBy(current)
    /\ UNCHANGED <<disk, romm, qvars, memory, person, worker, fjob, lapsed>>

\* startSync: whatever an earlier run could not send goes first.
StartSync ==
    /\ fpc = "start"
    /\ BeginResend
    /\ shownAway' = away /\ UNCHANGED <<away, libFromDrive>>

\* retryOwedUploads: every five minutes while something is owed.
RetryOwed ==
    /\ FrameIdle /\ Owing
    /\ BeginResend /\ UNCHANGED link

\* followServer: each edge of serverAway is acted on once. Coming back resends,
\* unless Home is still the drive's: then AdoptLibrary does.
FollowServer ==
    /\ FrameIdle /\ away # shownAway
    /\ shownAway' = away /\ UNCHANGED <<away, libFromDrive>>
    /\ \/ ~away /\ ~libFromDrive /\ BeginResend
       \/ /\ away \/ libFromDrive
          /\ UNCHANGED <<disk, romm, qvars, memory, person, worker, frame, lapsed>>

\* followServer: a minute away, and Home becomes the games on the drive ...
HomeFromDrive ==
    /\ FrameIdle /\ away /\ ~libFromDrive
    /\ libFromDrive' = TRUE
    /\ UNCHANGED <<disk, romm, qvars, memory, person, away, shownAway, worker,
                   frame, lapsed>>

\* ... and the library again, with nothing going up.
AdoptLibrary ==
    /\ FrameIdle /\ NothingGoingUp /\ ~away /\ libFromDrive
    /\ libFromDrive' = FALSE /\ UNCHANGED <<away, shownAway>>
    /\ BeginResend

\* takeAccountResults: the person's sign-in was renewed.
RenewSignIn ==
    /\ FrameIdle /\ NothingGoingUp /\ ~away
    /\ BeginResend /\ UNCHANGED link

FrameResend(i) ==
    /\ fpc = "resend" /\ i \in NextToResend(ftodo)
    /\ ResendOne(current, i)
    /\ ftodo' = ftodo \ {i}
    /\ UNCHANGED <<disk, romm, memory, person, link, worker, fpc, fjob, lapsed>>

FrameResent ==
    /\ fpc = "resend" /\ ftodo = {}
    /\ fpc' = "idle"
    /\ UNCHANGED <<disk, romm, qvars, memory, person, link, worker, fjob,
                   ftodo, lapsed>>

\* switchAccount: refused while the uploader counts anything; a switch that
\* fails puts the last person back, which is no step. Offline the new person's
\* Home is the games on the drive.
SwitchAccount(p) ==
    /\ FrameIdle /\ NothingGoingUp /\ p # current
    /\ current' = p
    /\ libFromDrive' = (libFromDrive \/ away)
    /\ UNCHANGED <<disk, romm, qvars, memory, runs, away, shownAway, worker, frame,
                   lapsed>>

-----------------------------------------------------------------------------
(* The worker, Uploader::run. *)

Take ==
    /\ wpc = "idle" /\ queue # <<>>
    /\ job' = Head(queue)
    /\ queue' = Tail(queue)
    /\ wpc' = "read"
    /\ result' = "none"
    /\ UNCHANGED <<disk, romm, queued, pending, memory, person, link, wtodo,
                   frame, lapsed>>

\* A resend reads its bytes now, off the disk; a list reads what is owed. A
\* file that is gone has nothing left to send; parked favourites, and a list
\* with nothing owed any more, are done without a request.
Read ==
    /\ wpc = "read"
    /\ LET bytes == IF job.ver = 0 THEN Disk(job.who, job.item) ELSE job.ver
       IN  /\ job' = [job EXCEPT !.ver = bytes]
           /\ \/ /\ job.item \in File /\ bytes = 0
                 /\ wpc' = "clear" /\ result' = "gone"
              \/ /\ job.item \in Lists /\ WhoKey(job) \in parked \cup (AllKeys \ owed)
                 /\ wpc' = "finish" /\ result' = "ok"
              \/ /\ \/ job.item \in File /\ bytes > 0
                    \/ job.item \in Lists /\ WhoKey(job) \in owed \ parked
                 /\ wpc' = "send" /\ result' = "none"
    /\ UNCHANGED <<disk, romm, qvars, memory, person, link, wtodo, frame, lapsed>>

\* RomM has state s of p, updated now: every other one there is older.
Updated(p, s) ==
    [older EXCEPT ![p] =
        {e \in @ : s \notin {e[1], e[2]}}
            \cup {<<t, s>> : t \in OnRomM(p) \ {s}}]

\* The request reaches RomM, with the login the live client holds now.
Deliver ==
    /\ wpc = "send" /\ up
    /\ server' = [server EXCEPT ![current][job.item] = job.ver]
    /\ older' = IF job.item \in States THEN Updated(current, job.item) ELSE older
    /\ lapsed' = IF job.ver < server[current][job.item]
                 THEN lapsed \cup {<<current, job.item>>} ELSE lapsed
    /\ wpc' = "reply"
    /\ UNCHANGED <<disk, up, outages, qvars, memory, person, link, job, result,
                   wtodo, frame>>

\* A failure that takes the marker off with it.
Fail_Clears ==
    /\ wpc' = "clear" /\ result' = "left"
    /\ UNCHANGED <<disk, server, older, up, qvars, memory, person, job, wtodo, frame,
                   lapsed>>

\* The upload did not work: the marker stays, and the person's file with it.
Fail ==
    /\ wpc' = "finish" /\ result' = "left"
    /\ UNCHANGED <<disk, server, older, up, qvars, memory, person, job, wtodo, frame, lapsed>>

\* noteTransport: no connection says RomM is away, any answer that it is not.
Unreached == away' = TRUE /\ UNCHANGED <<shownAway, libFromDrive>>
Reached   == away' = FALSE /\ UNCHANGED <<shownAway, libFromDrive>>

Unreachable ==
    /\ wpc = "send" /\ ~up
    /\ Unreached /\ UNCHANGED outages
    /\ Fail

\* RomM has the file and its answer is lost: says nothing of RomM being away.
AnswerLost ==
    /\ wpc = "reply" /\ ~up
    /\ UNCHANGED <<link, outages>>
    /\ Fail

\* A 5xx (for a list any error): not a refusal, and RomM is not away. Counted
\* with the outages, so that RomM does not fail for ever.
ServerError ==
    /\ wpc = "send" /\ up /\ outages < MaxOutages
    /\ outages' = outages + 1 /\ Reached
    /\ Fail

\* RomM answers with an error. A 4xx to a file is for good (refusedForGood);
\* a list is only kept for later.
Refuse ==
    /\ wpc = "send" /\ up /\ job.item \in File
    /\ wpc' = "refuse" /\ result' = "refused"
    /\ Reached
    /\ UNCHANGED <<disk, romm, qvars, memory, person, job, wtodo, frame, lapsed>>

NoteRefused ==
    /\ wpc = "refuse"
    /\ refused' = refused \cup {WhoKey(job)}
    /\ wpc' = "finish"
    /\ UNCHANGED <<disk, romm, qvars, failed, parked, stopping, person, link,
                   job, result, wtodo, frame, lapsed>>

\* RomM will not make the person's Favorites collection: said once, counted
\* as done, still owed.
Park ==
    /\ wpc = "send" /\ up /\ job.item \in Parkable
    /\ parked' = parked \cup {WhoKey(job)}
    /\ wpc' = "finish" /\ result' = "ok"
    /\ Reached
    /\ UNCHANGED <<disk, romm, qvars, refused, failed, stopping, person,
                   job, wtodo, frame, lapsed>>

Answered ==
    /\ wpc = "reply" /\ up
    /\ wpc' = "clear" /\ result' = "ok"
    /\ Reached
    /\ UNCHANGED <<disk, romm, qvars, memory, person, job, wtodo, frame,
                   lapsed>>

\* clearPending removes the marker by name, whatever has been written since;
\* a list forgets an entry only when it was not pressed again meanwhile.
ClearOwed ==
    /\ wpc = "clear"
    /\ LET stale == job.ver < Disk(job.who, job.item)
       IN  /\ owed' = IF job.item \in Lists /\ stale THEN owed
                      ELSE owed \ {WhoKey(job)}
           /\ lapsed' = IF job.item \in File /\ stale
                        THEN lapsed \cup {WhoKey(job)} ELSE lapsed
    /\ wpc' = IF result = "ok" /\ job.item \in States THEN "rotate" ELSE "finish"
    /\ UNCHANGED <<made, erased, romm, qvars, memory, person, link, job, result,
                   wtodo, frame>>

\* Uploader::rotate lists the states under the tag: with more than kStatesKept
\* and the one just sent among the newest, the rest are to go.
Newest(p) ==
    {s \in OnRomM(p) : Cardinality({e \in older[p] : e[1] = s}) < Kept}

\* What a rotation without its check of keptNew would remove.
Doomed_Unchecked(p, s) == OnRomM(p) \ Newest(p)

Doomed(p, s) == IF s \in Newest(p) THEN OnRomM(p) \ Newest(p) ELSE {}

RotateList ==
    /\ wpc = "rotate"
    /\ wtodo' = IF up THEN Doomed(current, job.item) ELSE {}
    /\ wpc' = IF wtodo' = {} THEN "finish" ELSE "delete"
    /\ away' = ~up /\ UNCHANGED <<shownAway, libFromDrive>>
    /\ UNCHANGED <<disk, romm, qvars, memory, person, job, result, frame, lapsed>>

\* ... and asks RomM to delete them. This console's copies are of what RomM has
\* no more, from here on.
RotateDelete ==
    /\ wpc = "delete" /\ up
    /\ server' = [server EXCEPT ![current] =
           [i \in Item |-> IF i \in wtodo THEN 0 ELSE @[i]]]
    /\ older' = [older EXCEPT ![current] =
           {e \in @ : e[1] \notin wtodo /\ e[2] \notin wtodo}]
    /\ lapsed' = lapsed \cup {<<current, s>> : s \in {t \in wtodo : Disk(current, t) > 0}}
    /\ wpc' = "deleted"
    /\ UNCHANGED <<disk, up, outages, qvars, memory, person, link, job, result,
                   wtodo, frame>>

\* A rotation that takes RomM not being reached for an answer.
RotateFails_Anyway ==
    /\ wpc = "delete"
    /\ wpc' = "erase" /\ away' = ~up /\ UNCHANGED <<shownAway, libFromDrive>>
    /\ UNCHANGED <<disk, romm, qvars, memory, person, job, result, wtodo, frame,
                   lapsed>>

\* RomM is not reached, or answers with an error: nothing goes anywhere.
RotateFails ==
    /\ wpc = "delete"
    /\ wtodo' = {} /\ wpc' = "finish"
    /\ away' = ~up /\ UNCHANGED <<shownAway, libFromDrive>>
    /\ UNCHANGED <<disk, romm, qvars, memory, person, job, result, frame, lapsed>>

\* Its answer comes, and this console's copies are next; or it is lost, and
\* they stay.
RotateAnswered ==
    /\ wpc = "deleted" /\ up
    /\ wpc' = "erase" /\ Reached
    /\ UNCHANGED <<disk, romm, qvars, memory, person, job, result, wtodo, frame,
                   lapsed>>

RotateAnswerLost ==
    /\ wpc = "deleted" /\ ~up
    /\ wtodo' = {} /\ wpc' = "finish"
    /\ UNCHANGED <<disk, romm, qvars, memory, person, link, job, result, frame,
                   lapsed>>

RotateErase(s) ==
    /\ wpc = "erase" /\ s \in wtodo
    /\ erased' = erased \cup {<<job.who, s>>}
    /\ wtodo' = wtodo \ {s}
    /\ wpc' = IF wtodo' = {} THEN "finish" ELSE "erase"
    /\ UNCHANGED <<made, owed, romm, qvars, memory, person, link, job, result, frame,
                   lapsed>>

\* Only an upload a person made sends the rest: a resend that always works
\* beside one that always fails would queue both for ever.
SendsTheRest_AnyJob(failures) == result = "ok" /\ failures # {}

SendsTheRest(failures) == result = "ok" /\ ~job.resend /\ failures # {}

\* Uploader::finished, under the lock: the key is free, and an answered upload
\* a person made sends again what earlier failures left.
Finish ==
    /\ wpc = "finish"
    /\ queued' = queued \ {Key(job)}
    /\ failed' = IF result = "left" THEN failed \cup {WhoKey(job)}
                 ELSE failed \ {WhoKey(job)}
    /\ IF SendsTheRest(failed')
       THEN wpc' = "resend" /\ wtodo' = OwedBy(job.who)
       ELSE wpc' = "count" /\ wtodo' = {}
    /\ UNCHANGED <<disk, romm, queue, pending, refused, parked, stopping, person,
                   link, job, result, frame, lapsed>>

WorkerResend(i) ==
    /\ wpc = "resend" /\ i \in NextToResend(wtodo)
    /\ ResendOne(job.who, i)
    /\ wtodo' = wtodo \ {i}
    /\ wpc' = IF wtodo' = {} THEN "count" ELSE "resend"
    /\ UNCHANGED <<disk, romm, memory, person, link, job, result, frame, lapsed>>

\* The job is counted off last of all (#483).
CountOff ==
    /\ wpc = "count"
    /\ pending' = pending - 1
    /\ wpc' = "idle"
    /\ UNCHANGED <<disk, romm, queue, queued, memory, person, link, job, result,
                   wtodo, frame, lapsed>>

-----------------------------------------------------------------------------
(* Starts and ends of the frontend, and RomM. *)

\* What a new process begins with: nothing but the disk.
NewProcess ==
    /\ runs' = runs + 1
    /\ queue' = <<>> /\ queued' = {} /\ pending' = 0
    /\ refused' = {} /\ failed' = {} /\ parked' = {} /\ stopping' = FALSE
    /\ wpc' = "idle" /\ result' = "none" /\ wtodo' = {}
    /\ fpc' = "start" /\ ftodo' = {}
    /\ away' = ~up /\ shownAway' = ~up /\ libFromDrive' = ~up
    /\ UNCHANGED <<romm, current, job, fjob>>

\* The power goes, the process dies, or an exit gives up its wait for the
\* uploads: at any step. A file written and not yet marked is not known, and
\* the favourites' record may come back empty.
Crash ==
    /\ runs < MaxRuns
    /\ NewProcess /\ UNCHANGED <<made, erased>>
    /\ \E torn \in SUBSET {k \in owed : k[2] \in Parkable} :
        /\ owed' = owed \ torn
        /\ lapsed' = lapsed \cup torn
                        \cup ((IF fpc = "mark" THEN {WhoKey(fjob)} ELSE {}) \ owed')

\* shutDown: the frame thread waits while the worker drains the queue ...
Quit ==
    /\ FrameIdle /\ runs < MaxRuns
    /\ stopping' = TRUE
    /\ UNCHANGED <<disk, romm, qvars, refused, failed, parked, person, link,
                   worker, frame, lapsed>>

\* ... and the process ends when it has.
Drained ==
    /\ stopping /\ wpc = "idle" /\ queue = <<>>
    /\ NewProcess
    /\ UNCHANGED <<disk, lapsed>>

ServerGoes ==
    /\ up /\ outages < MaxOutages
    /\ up' = FALSE /\ outages' = outages + 1
    /\ UNCHANGED <<disk, server, older, qvars, memory, person, link, worker,
                   frame, lapsed>>

ServerReturns ==
    /\ ~up /\ up' = TRUE
    /\ UNCHANGED <<disk, server, older, outages, qvars, memory, person, link,
                   worker, frame, lapsed>>

\* startReconnect: RomM is asked in the background, away or not.
Reconnect ==
    /\ away = up
    /\ away' = ~up
    /\ UNCHANGED <<disk, romm, qvars, memory, person, shownAway, libFromDrive, worker, frame,
                   lapsed>>

\* Another device of the person saves a state under the same tag.
ForeignState(p, s) ==
    /\ s \in Foreign /\ server[p][s] = 0 /\ up
    /\ server' = [server EXCEPT ![p][s] = 1]
    /\ older' = Updated(p, s)
    /\ UNCHANGED <<disk, up, outages, qvars, memory, person, link, worker, frame,
                   lapsed>>

-----------------------------------------------------------------------------
(* The specification. *)

Init ==
    /\ made = [p \in People |-> [i \in Item |-> 0]]
    /\ erased = {} /\ owed = {}
    /\ server = [p \in People |-> [i \in Item |-> 0]]
    /\ older = [p \in People |-> {}]
    /\ up \in BOOLEAN /\ outages = 0
    /\ current \in People /\ runs = 1
    /\ away = ~up /\ shownAway = ~up /\ libFromDrive = ~up
    /\ queue = <<>> /\ queued = {} /\ pending = 0
    /\ refused = {} /\ failed = {} /\ parked = {} /\ stopping = FALSE
    /\ wpc = "idle" /\ result = "none" /\ wtodo = {}
    /\ fpc = "start" /\ ftodo = {}
    /\ \E p \in People, i \in Item : job = ResendJob(p, i) /\ fjob = ResendJob(p, i)
    /\ lapsed = {}

Pushing == MarkPending \/ MarkFails \/ Unrefuse \/ PushEnqueue

FrameGoesOn ==
    \/ StartSync \/ Pushing \/ FrameResent \/ RetryOwed
    \/ \E i \in Item : FrameResend(i)

Frame ==
    \/ FrameGoesOn
    \/ \E i \in File : WriteFile(i)
    \/ \E l \in Lists : Press(l)
    \/ FollowServer \/ HomeFromDrive \/ AdoptLibrary \/ RenewSignIn
    \/ \E p \in People : SwitchAccount(p)

Worker ==
    \/ Take \/ Read \/ Deliver \/ Unreachable \/ AnswerLost \/ ServerError \/ Refuse
    \/ NoteRefused \/ Park \/ Answered \/ ClearOwed \/ RotateList \/ RotateDelete \/ RotateFails
    \/ RotateAnswered \/ RotateAnswerLost \/ (\E s \in States : RotateErase(s)) \/ Finish
    \/ (\E i \in Item : WorkerResend(i)) \/ CountOff

Process == Crash \/ Quit \/ Drained

Environment ==
    \/ ServerGoes \/ ServerReturns \/ Reconnect
    \/ \E p \in People, s \in States : ForeignState(p, s)

Next == Frame \/ Worker \/ Process \/ Environment

Spec == Init /\ [][Next]_vars

\* The frame loop and the worker's thread run, and a process that is told to
\* end ends when its queue is empty: these are threads nothing here stops.
LocalFairness == WF_vars(FrameGoesOn) /\ WF_vars(Worker) /\ WF_vars(Drained)

\* An outage ends, the reconnect thread notices it, the frame loop follows it
\* and somebody comes back to Home, where the library is adopted.
OutagesEnd ==
    /\ WF_vars(ServerReturns) /\ WF_vars(Reconnect)
    /\ WF_vars(FollowServer) /\ WF_vars(AdoptLibrary)

-----------------------------------------------------------------------------
(* Properties. *)

\* Every variable holds what its declaration says.
TypeOK ==
    /\ made \in [People -> [Item -> 0 .. MaxVer]]
    /\ erased \subseteq People \X States
    /\ owed \subseteq AllKeys
    /\ server \in [People -> [Item -> 0 .. MaxVer]]
    /\ older \in [People -> SUBSET (States \X States)]
    /\ up \in BOOLEAN /\ outages \in Nat
    /\ current \in People /\ runs \in Nat
    /\ away \in BOOLEAN /\ shownAway \in BOOLEAN /\ libFromDrive \in BOOLEAN
    /\ queue \in Seq(Job) /\ queued \subseteq Item /\ pending \in Int
    /\ refused \subseteq AllKeys /\ failed \subseteq AllKeys
    /\ parked \subseteq AllKeys /\ stopping \in BOOLEAN
    /\ wpc \in {"idle", "read", "send", "reply", "refuse", "clear", "rotate",
                "delete", "deleted", "erase", "finish", "resend", "count"}
    /\ job \in Job /\ result \in {"none", "ok", "left", "refused", "gone"}
    /\ wtodo \subseteq Item
    /\ fpc \in {"start", "idle", "mark", "unrefuse", "enqueue", "resend"}
    /\ fjob \in Job /\ ftodo \subseteq Item
    /\ lapsed \subseteq AllKeys

\* A request goes up, and a rotation deletes, with the login of the person
\* whose file it is: "an upload in flight would go up as the new person"
\* (accountsflow.cpp).  It rests on the switch's guard, on the count that
\* comes down last (#483) and on the worker's own resends in between.
SentAsOwner == wpc \in {"send", "rotate", "delete"} => job.who = current

\* The frame thread has written this file and not yet its marker.
BeingPushed(p, i) == fpc = "mark" /\ WhoKey(fjob) = <<p, i>>

\* A save (a press) RomM does not have is recorded as owed on the disk, or is
\* just being recorded, or is one the history variable names:
\*   its marker was removed for an older save of the file (ClearOwed), older
\*   bytes landed over it (Deliver), the marker could not be written (MarkFails),
\*   the power went before the marker, or emptied the favourites' record (Crash),
\*   RomM removed it in a rotation, after which it goes here too unless the
\*   answer is lost or the power goes (RotateDelete).
OwedKnown ==
    \A p \in People, i \in Item :
        Newer(p, i) => \/ <<p, i>> \in owed
                       \/ BeingPushed(p, i)
                       \/ <<p, i>> \in lapsed

\* The uploader counts what waits and what is in flight, to the last step.
Counted == pending = Len(queue) + (IF wpc = "idle" THEN 0 ELSE 1)

\* Whatever waits, is in flight or is being pushed is the signed-in person's.
AllOfCurrent ==
    /\ \A n \in 1 .. Len(queue) : queue[n].who = current
    /\ wpc # "idle" => job.who = current
    /\ fpc \in {"mark", "unrefuse", "enqueue"} => fjob.who = current

\* What was sent is on RomM until its marker goes, with nothing older over it.
Landed == wpc \in {"reply", "clear"} => server[job.who][job.item] >= job.ver

\* The states of other devices are not on this console.
MadeElsewhere == \A p \in People, s \in Foreign : made[p][s] = 0

\* A rotation removes states and nothing else, ...
RotatesStates == wpc \in {"delete", "deleted", "erase"} => wtodo \subseteq States

\* ... and here only what RomM has no more.
ErasesWhatWent ==
    wpc \in {"deleted", "erase"} => \A s \in wtodo \ Foreign : server[job.who][s] = 0

\* Nothing is half pushed, queued or resent by the frame once it stops.
QuietExit == stopping => fpc = "idle"

\* The inductive invariant behind SentAsOwner and OwedKnown (QueuesProofs).
IndInv ==
    /\ TypeOK
    /\ Counted
    /\ AllOfCurrent
    /\ Landed
    /\ MadeElsewhere
    /\ RotatesStates
    /\ ErasesWhatWent
    /\ QuietExit
    /\ OwedKnown

\* Rotation removes from RomM only states with kStatesKept newer ones beside
\* them that stay, and never the one just sent, whatever other devices save
\* between the listing and the deleting.
RotationKeeps ==
    [][\A p \in People : \A s \in OnRomM(p) \ OnRomM(p)' :
          /\ s # job.item
          /\ Cardinality({t \in OnRomM(p)' : <<s, t>> \in older[p]}) >= Kept]_vars

\* If outages end, what the signed-in person owes is sent in the end, unless
\* RomM refuses it or they sign out: by the queue, the resend at the start, the
\* timer.
OwedIsSent ==
    OutagesEnd =>
        \A p \in People : \A i \in File :
            (<<p, i>> \in owed /\ current = p)
                ~> (<<p, i>> \notin owed \/ <<p, i>> \in refused \/ current # p)

\* Quitting drains the queue and ends, even while RomM stays away: no job
\* queues others for ever.
DrainEnds == stopping ~> ~stopping

\* The queue, its threads and its requests are the ledger of what the console owes:
\* what RomM has, what is marked, and what lapses, change in its steps alone.
Ledger == INSTANCE SaveLedger WITH
    Entries <- AllKeys, Frail <- {k \in AllKeys : k[2] \in Parkable}, gone <- erased,
    made <- [k \in AllKeys |-> made[k[1]][k[2]]],
    romm <- [k \in AllKeys |-> server[k[1]][k[2]]],
    writing <- {k \in AllKeys : BeingPushed(k[1], k[2])}

LedgerKept == Ledger!Spec
=============================================================================
