---------------------------- MODULE QueuesProofs ----------------------------
(***************************************************************************)
(* Proofs about what Queue_all checks: the upload queue, for any people,   *)
(* files, lists and bounds; who is which player; going back in a game; and *)
(* the parts together, with the saves of DriveSavesProofs.                 *)
(***************************************************************************)
EXTENDS MCQueues, ListsProofs, SequenceTheorems

\* A replaced element leaves the others alone, wherever it was meant to go.
LEMMA Replaced ==
    ASSUME NEW S, NEW seq \in Seq(S), NEW e \in S, NEW x
    PROVE  /\ [seq EXCEPT ![x] = e] \in Seq(S)
           /\ Len([seq EXCEPT ![x] = e]) = Len(seq)
           /\ \A n \in 1 .. Len(seq) : [seq EXCEPT ![x] = e][n] \in {seq[n], e}
  <1>1. CASE x \in 1 .. Len(seq)
    BY <1>1, ExceptSeq
  <1>2. CASE x \notin 1 .. Len(seq)
    <2>1. seq \in [1 .. Len(seq) -> S]
      BY LenProperties
    <2>2. [seq EXCEPT ![x] = e] = seq
      BY <1>2, <2>1
    <2> QED
      BY <2>2
  <1> QED
    BY <1>1, <1>2

LEMMA JobOfResend ==
    ASSUME ConstAssumption, NEW p \in People, NEW i \in Item
    PROVE  ResendJob(p, i) \in Job
  BY DEF ResendJob, Job, ConstAssumption

LEMMA KeysOfJob ==
    ASSUME NEW j \in Job
    PROVE  /\ j.who \in People /\ j.item \in Item /\ j.ver \in 0 .. MaxVer
           /\ j.resend \in BOOLEAN
           /\ Key(j) \in Item /\ WhoKey(j) \in AllKeys
  BY DEF Job, Key, WhoKey, AllKeys

\* What a job's queueing keeps: the types, the count, and whose the jobs are.
LEMMA EnqueueKeeps ==
    ASSUME NEW j \in Job, queue \in Seq(Job), queued \subseteq Item, pending \in Int,
           Enqueue(j)
    PROVE  /\ queue' \in Seq(Job) /\ queued' \subseteq Item /\ pending' \in Int
           /\ pending' - Len(queue') = pending - Len(queue)
           /\ \A p \in People :
                (j.who = p /\ \A n \in 1 .. Len(queue) : queue[n].who = p)
                    => \A n \in 1 .. Len(queue') : queue'[n].who = p
  <1>1. j.item \in Item
    BY DEF Job
  <1>2. CASE UNCHANGED qvars
    BY <1>2 DEF qvars
  <1>3. CASE ReplaceWaiting(j)
    <2>1. /\ queue' \in Seq(Job) /\ Len(queue') = Len(queue)
          /\ \A n \in 1 .. Len(queue) : queue'[n] \in {queue[n], j}
      BY <1>3, Replaced DEF ReplaceWaiting
    <2> QED
      BY <1>3, <2>1 DEF ReplaceWaiting
  <1>4. CASE QueueBehind(j)
    BY <1>1, <1>4 DEF QueueBehind, Key
  <1> QED
    BY <1>2, <1>3, <1>4 DEF Enqueue

LEMMA ResendKeeps ==
    ASSUME ConstAssumption, NEW q \in People, NEW i \in Item,
           queue \in Seq(Job), queued \subseteq Item, pending \in Int,
           ResendOne(q, i)
    PROVE  /\ queue' \in Seq(Job) /\ queued' \subseteq Item /\ pending' \in Int
           /\ pending' - Len(queue') = pending - Len(queue)
           /\ (\A n \in 1 .. Len(queue) : queue[n].who = q)
                    => \A n \in 1 .. Len(queue') : queue'[n].who = q
  <1>1. CASE UNCHANGED qvars
    BY <1>1 DEF qvars
  <1>2. CASE Enqueue(ResendJob(q, i))
    <2>1. ResendJob(q, i).who = q
      BY DEF ResendJob
    <2> QED
      BY <1>2, <2>1, JobOfResend, EnqueueKeeps
  <1> QED
    BY <1>1, <1>2 DEF ResendOne

-----------------------------------------------------------------------------
(* The types.  A rotation's list is in them because wtodo also serves the  *)
(* worker's resends.                                                       *)

TypeInv == TypeOK /\ RotatesStates

LEMMA TypeInit == ASSUME ConstAssumption, Init PROVE TypeInv
  <1>1. queue \in Seq(Job)
    BY EmptySeq DEF Init
  <1>2. job \in Job /\ fjob \in Job
    BY JobOfResend DEF Init
  <1>3. 0 \in 0 .. MaxVer
    BY DEF ConstAssumption
  <1>4. /\ up \in BOOLEAN /\ away \in BOOLEAN /\ shownAway \in BOOLEAN
        /\ libFromDrive \in BOOLEAN /\ stopping \in BOOLEAN
    BY DEF Init
  <1>5. /\ made \in [People -> [Item -> 0 .. MaxVer]]
        /\ server \in [People -> [Item -> 0 .. MaxVer]]
        /\ older \in [People -> SUBSET (States \X States)]
    BY <1>3 DEF Init
  <1> QED
    BY <1>1, <1>2, <1>4, <1>5 DEF Init, TypeInv, TypeOK, RotatesStates

\* The frame thread keeps the types.
LEMMA TypeFrame == ASSUME ConstAssumption, TypeInv, Frame PROVE TypeInv'
  <1> USE DEF disk, romm, qvars, memory, person, worker, frame, link, TypeInv, RotatesStates
  <1>1. ASSUME NEW i \in File, WriteFile(i) PROVE TypeInv'
    <2>1. made[current][i] \in 0 .. MaxVer /\ made[current][i] + 1 \in 0 .. MaxVer
      BY <1>1 DEF WriteFile, CanBeMade, TypeOK, File, Item, ConstAssumption
    <2>2. made' \in [People -> [Item -> 0 .. MaxVer]]
      BY <1>1, <2>1 DEF WriteFile, TypeOK
    <2>3. fjob' \in Job
      BY <1>1, <2>1 DEF WriteFile, TypeOK, Job, Item
    <2> QED
      BY <1>1, <2>2, <2>3 DEF WriteFile, TypeOK
  <1>2. CASE MarkPending \/ MarkFails \/ Unrefuse
    <2>1. WhoKey(fjob) \in AllKeys
      BY KeysOfJob DEF TypeOK
    <2>2. CASE MarkPending
      BY <2>1, <2>2 DEF MarkPending, TypeOK
    <2>3. CASE MarkFails
      BY <2>1, <2>3 DEF MarkFails, TypeOK
    <2>4. CASE Unrefuse
      BY <2>1, <2>4 DEF Unrefuse, TypeOK
    <2> QED
      BY <1>2, <2>2, <2>3, <2>4
  <1>3. CASE PushEnqueue
    BY <1>3, EnqueueKeeps DEF PushEnqueue, TypeOK
  <1>4. ASSUME NEW l \in Lists, Press(l) PROVE TypeInv'
    <2>1. made[current][l] < MaxVer => made[current][l] + 1 \in 0 .. MaxVer
      BY DEF TypeOK, Item, ConstAssumption
    <2>2. made' \in [People -> [Item -> 0 .. MaxVer]]
      <3>1. CASE /\ made[current][l] < MaxVer
                 /\ made' = [made EXCEPT ![current][l] = @ + 1]
        BY <2>1, <3>1 DEF TypeOK
      <3>2. CASE UNCHANGED made
        BY <3>2 DEF TypeOK
      <3> QED
        BY <1>4, <3>1, <3>2 DEF Press
    <2>3. fjob' \in Job
      BY <1>4, JobOfResend DEF Press, TypeOK, Item
    <2>4. <<current, l>> \in AllKeys
      BY DEF TypeOK, Item, AllKeys
    <2>5. owed' \subseteq AllKeys /\ parked' \subseteq AllKeys
      BY <1>4, <2>4 DEF Press, TypeOK
    <2> QED
      BY <1>4, <2>2, <2>3, <2>5 DEF Press, TypeOK
  <1>5. ASSUME BeginResend, away' = away,
               shownAway' \in BOOLEAN, libFromDrive' \in BOOLEAN
        PROVE  TypeInv'
    <2>1. ftodo' \subseteq Item
      BY <1>5 DEF BeginResend, OwedBy, File, Item
    <2> QED
      BY <1>5, <2>1 DEF BeginResend, TypeOK
  <1>6. CASE StartSync \/ RetryOwed \/ AdoptLibrary \/ RenewSignIn
    BY <1>5, <1>6 DEF StartSync, RetryOwed, AdoptLibrary, RenewSignIn, TypeOK
  <1>7. CASE FollowServer
    <2>1. CASE BeginResend
      BY <1>5, <1>7, <2>1 DEF FollowServer, TypeOK
    <2>2. CASE UNCHANGED <<disk, romm, qvars, memory, person, worker, frame, lapsed>>
      BY <1>7, <2>2 DEF FollowServer, TypeOK
    <2> QED
      BY <1>7, <2>1, <2>2 DEF FollowServer
  <1>8. ASSUME NEW i \in Item, FrameResend(i) PROVE TypeInv'
    BY <1>8, ResendKeeps DEF FrameResend, TypeOK
  <1>9. CASE FrameResent \/ HomeFromDrive
    <2>1. CASE FrameResent
      BY <2>1 DEF FrameResent, TypeOK
    <2>2. CASE HomeFromDrive
      BY <2>2 DEF HomeFromDrive, TypeOK
    <2> QED
      BY <1>9, <2>1, <2>2
  <1>10. ASSUME NEW p \in People, SwitchAccount(p) PROVE TypeInv'
    BY <1>10 DEF SwitchAccount, TypeOK
  <1> QED
    BY <1>1, <1>2, <1>3, <1>4, <1>6, <1>7, <1>8, <1>9, <1>10
       DEF Frame, FrameGoesOn, Pushing

\* So does the worker.
LEMMA TypeWorker == ASSUME ConstAssumption, TypeInv, Worker PROVE TypeInv'
  <1> USE DEF disk, romm, qvars, memory, person, worker, frame, link, TypeInv, RotatesStates
  <1>1. CASE Take
    BY <1>1, HeadTailProperties DEF Take, TypeOK
  <1>2. CASE Read
    <2>1. Disk(job.who, job.item) \in 0 .. MaxVer
      BY KeysOfJob DEF Disk, TypeOK, ConstAssumption
    <2>2. job' \in Job
      BY <1>2, <2>1, KeysOfJob DEF Read, TypeOK, Job
    <2> QED
      BY <1>2, <2>2 DEF Read, TypeOK
  <1>3. CASE Deliver
    <2>1. server' \in [People -> [Item -> 0 .. MaxVer]]
      BY <1>3, KeysOfJob DEF Deliver, TypeOK
    <2>2. older' \in [People -> SUBSET (States \X States)]
      BY <1>3 DEF Deliver, TypeOK, Updated, OnRomM
    <2>3. <<current, job.item>> \in AllKeys
      BY KeysOfJob DEF TypeOK, AllKeys
    <2>4. lapsed' \subseteq AllKeys
      BY <1>3, <2>3 DEF Deliver, TypeOK
    <2> QED
      BY <1>3, <2>1, <2>2, <2>4 DEF Deliver, TypeOK
  <1>4. CASE Unreachable \/ AnswerLost \/ ServerError
    <2>1. CASE Unreachable
      BY <2>1 DEF Unreachable, Unreached, Fail, TypeOK
    <2>2. CASE AnswerLost
      BY <2>2 DEF AnswerLost, Fail, TypeOK
    <2>3. CASE ServerError
      <3>1. outages \in Nat
        BY DEF TypeOK
      <3>2. outages' \in Nat
        BY <2>3, <3>1 DEF ServerError
      <3>3. away' \in BOOLEAN
        BY <2>3 DEF ServerError, Reached
      <3> QED
        BY <2>3, <3>2, <3>3 DEF ServerError, Reached, Fail, TypeOK
    <2> QED
      BY <1>4, <2>1, <2>2, <2>3
  <1>5. CASE Refuse
    BY <1>5 DEF Refuse, Reached, TypeOK
  <1>6. CASE NoteRefused
    BY <1>6, KeysOfJob DEF NoteRefused, TypeOK
  <1>7. CASE Park
    BY <1>7, KeysOfJob DEF Park, Reached, TypeOK
  <1>8. CASE Answered
    BY <1>8 DEF Answered, Reached, TypeOK
  <1>9. CASE ClearOwed
    <2>1. WhoKey(job) \in AllKeys
      BY KeysOfJob DEF TypeOK
    <2>2. owed' \subseteq AllKeys /\ lapsed' \subseteq AllKeys
      BY <1>9, <2>1 DEF ClearOwed, TypeOK
    <2> QED
      BY <1>9, <2>2 DEF ClearOwed, TypeOK
  <1>10. CASE RotateList
    <2>1. wtodo' \subseteq States
      BY <1>10 DEF RotateList, Doomed, OnRomM
    <2>2. away' \in BOOLEAN
      BY <1>10 DEF RotateList, TypeOK
    <2>3. wtodo' \subseteq Item
      BY <2>1 DEF File, Item
    <2>4. wpc' \in {"finish", "delete"}
      BY <1>10 DEF RotateList
    <2> QED
      BY <1>10, <2>1, <2>2, <2>3, <2>4 DEF RotateList, TypeOK
  <1>11. CASE RotateDelete
    <2>1. server' \in [People -> [Item -> 0 .. MaxVer]]
      <3>1. 0 \in 0 .. MaxVer
        BY DEF ConstAssumption
      <3>2. server[current] \in [Item -> 0 .. MaxVer]
        BY DEF TypeOK
      <3>3. [i \in Item |-> IF i \in wtodo THEN 0 ELSE server[current][i]]
               \in [Item -> 0 .. MaxVer]
        BY <3>1, <3>2
      <3> QED
        BY <1>11, <3>3 DEF RotateDelete, TypeOK
    <2>2. older' \in [People -> SUBSET (States \X States)]
      <3>1. older[current] \in SUBSET (States \X States)
        BY DEF TypeOK
      <3> DEFINE rest == {e \in older[current] : e[1] \notin wtodo /\ e[2] \notin wtodo}
      <3>2. rest \in SUBSET (States \X States)
        BY <3>1
      <3>3. older' = [older EXCEPT ![current] = rest]
        BY <1>11 DEF RotateDelete
      <3>4. older \in [People -> SUBSET (States \X States)]
        BY DEF TypeOK
      <3> HIDE DEF rest
      <3> QED
        BY <3>2, <3>3, <3>4
    <2>3. lapsed' \subseteq AllKeys
      <3>1. wtodo \subseteq Item /\ current \in People
        BY DEF TypeOK
      <3>2. {<<current, s>> : s \in {t \in wtodo : Disk(current, t) > 0}} \subseteq AllKeys
        BY <3>1 DEF AllKeys
      <3> QED
        BY <1>11, <3>2 DEF RotateDelete, TypeOK
    <2>4. wtodo' \subseteq States
      BY <1>11 DEF RotateDelete
    <2> QED
      BY <1>11, <2>1, <2>2, <2>3, <2>4 DEF RotateDelete, TypeOK
  <1>15. CASE RotateFails \/ RotateAnswered \/ RotateAnswerLost
    <2>1. away' \in BOOLEAN
      BY <1>15 DEF RotateFails, RotateAnswered, RotateAnswerLost, Reached, TypeOK
    <2>2. wtodo' \subseteq Item /\ wtodo' \subseteq States
      BY <1>15 DEF RotateFails, RotateAnswered, RotateAnswerLost, TypeOK
    <2> QED
      BY <1>15, <2>1, <2>2 DEF RotateFails, RotateAnswered, RotateAnswerLost, Reached, TypeOK
  <1>16. ASSUME NEW s \in States, RotateErase(s) PROVE TypeInv'
    <2>1. job.who \in People
      BY KeysOfJob DEF TypeOK
    <2>2. erased' \subseteq People \X States
      BY <1>16, <2>1 DEF RotateErase, TypeOK
    <2>3. wtodo' \subseteq Item /\ wtodo' \subseteq States
      BY <1>16 DEF RotateErase, TypeOK
    <2>4. wpc' \in {"finish", "erase"}
      BY <1>16 DEF RotateErase
    <2> QED
      BY <1>16, <2>2, <2>3, <2>4 DEF RotateErase, TypeOK
  <1>12. CASE Finish
    <2>1. WhoKey(job) \in AllKeys /\ Key(job) \in Item
      BY KeysOfJob DEF TypeOK
    <2>2. failed' \subseteq AllKeys /\ queued' \subseteq Item
      BY <1>12, <2>1 DEF Finish, TypeOK
    <2>3. wtodo' \subseteq Item /\ wpc' \in {"resend", "count"}
      BY <1>12 DEF Finish, OwedBy, File, Item
    <2> QED
      BY <1>12, <2>2, <2>3 DEF Finish, TypeOK
  <1>13. ASSUME NEW i \in Item, WorkerResend(i) PROVE TypeInv'
    <2>1. job.who \in People
      BY KeysOfJob DEF TypeOK
    <2>2. queue' \in Seq(Job) /\ queued' \subseteq Item /\ pending' \in Int
      BY <1>13, <2>1, ResendKeeps DEF WorkerResend, TypeOK
    <2> QED
      BY <1>13, <2>2 DEF WorkerResend, TypeOK
  <1>14. CASE CountOff
    BY <1>14 DEF CountOff, TypeOK
  <1> QED
    BY <1>1, <1>2, <1>3, <1>4, <1>5, <1>6, <1>7, <1>8, <1>9, <1>10, <1>11, <1>12,
       <1>13, <1>14, <1>15, <1>16 DEF Worker

\* And so do a start, an end, RomM and the other devices.
LEMMA TypeOutside ==
    ASSUME ConstAssumption, TypeInv, Process \/ Environment PROVE TypeInv'
  <1> USE DEF disk, romm, qvars, memory, person, worker, frame, link, TypeInv, RotatesStates
  <1>1. ASSUME NewProcess, UNCHANGED <<made, erased>>, owed' \subseteq AllKeys,
               lapsed' \subseteq AllKeys
        PROVE  TypeInv'
    <2>1. queue' \in Seq(Job)
      BY <1>1, EmptySeq DEF NewProcess
    <2>2. away' \in BOOLEAN /\ shownAway' \in BOOLEAN /\ libFromDrive' \in BOOLEAN
      BY <1>1 DEF NewProcess
    <2>3. runs \in Nat
      BY DEF TypeOK
    <2>4. runs' \in Nat /\ pending' \in Int
      BY <1>1, <2>3 DEF NewProcess
    <2>5. stopping' \in BOOLEAN
      BY <1>1 DEF NewProcess
    <2> QED
      BY <1>1, <2>1, <2>2, <2>4, <2>5 DEF NewProcess, TypeOK
  <1>2. CASE Crash
    <2>1. owed' \subseteq AllKeys
      BY <1>2 DEF Crash, TypeOK
    <2>2. lapsed' \subseteq AllKeys
      BY <1>2, KeysOfJob DEF Crash, TypeOK
    <2> QED
      BY <1>1, <1>2, <2>1, <2>2 DEF Crash
  <1>3. CASE Drained
    BY <1>1, <1>3 DEF Drained, TypeOK
  <1>4. CASE Quit
    BY <1>4 DEF Quit, TypeOK
  <1>5. CASE ServerGoes \/ ServerReturns \/ Reconnect
    <2>1. CASE ServerGoes
      <3>1. outages \in Nat
        BY DEF TypeOK
      <3>2. outages' \in Nat
        BY <2>1, <3>1 DEF ServerGoes
      <3>3. up' \in BOOLEAN
        BY <2>1 DEF ServerGoes
      <3> QED
        BY <2>1, <3>2, <3>3 DEF ServerGoes, TypeOK
    <2>2. CASE ServerReturns
      BY <2>2 DEF ServerReturns, TypeOK
    <2>3. CASE Reconnect
      <3>1. away' \in BOOLEAN
        BY <2>3 DEF Reconnect
      <3> QED
        BY <2>3, <3>1 DEF Reconnect, TypeOK
    <2> QED
      BY <1>5, <2>1, <2>2, <2>3
  <1>6. ASSUME NEW p \in People, NEW s \in States, ForeignState(p, s) PROVE TypeInv'
    <2>1. server' \in [People -> [Item -> 0 .. MaxVer]]
      <3>1. 1 \in 0 .. MaxVer
        BY DEF ConstAssumption
      <3> QED
        BY <1>6, <3>1 DEF ForeignState, TypeOK
    <2>2. older' \in [People -> SUBSET (States \X States)]
      BY <1>6 DEF ForeignState, TypeOK, Updated, OnRomM
    <2> QED
      BY <1>6, <2>1, <2>2 DEF ForeignState, TypeOK
  <1> QED
    BY <1>2, <1>3, <1>4, <1>5, <1>6 DEF Process, Environment

LEMMA TypeStutter == ASSUME TypeInv, UNCHANGED vars PROVE TypeInv'
  BY DEF vars, disk, romm, qvars, memory, person, worker, frame, link, TypeInv, TypeOK,
         RotatesStates, Disk

\* Every variable keeps its type, for any people, files and bounds.
THEOREM TypeCorrect == Spec => []TypeOK
  <1>1. Init => TypeInv
    BY TypeInit, ConstAssumption
  <1>2. TypeInv /\ [Next]_vars => TypeInv'
    BY TypeFrame, TypeWorker, TypeOutside, TypeStutter, ConstAssumption DEF Next
  <1>3. TypeInv => TypeOK
    BY DEF TypeInv
  <1> QED
    BY <1>1, <1>2, <1>3, PTL DEF Spec

-----------------------------------------------------------------------------
(* The invariant.  What each thread leaves alone comes first: then each of *)
(* its parts has to look only at the steps that touch it.                  *)

LEMMA FrameLeaves ==
    ASSUME ConstAssumption, IndInv, Frame
    PROVE  /\ UNCHANGED <<worker, server, erased, stopping>>
           /\ fpc = "idle" => ~stopping
           /\ pending' - Len(queue') = pending - Len(queue)
  <1> USE DEF disk, romm, qvars, memory, person, worker, frame, link
  <1> TypeOK
    BY DEF IndInv
  <1>1. ASSUME NEW i \in File, WriteFile(i)
        PROVE  /\ UNCHANGED <<worker, server, erased, stopping, qvars>> /\ ~stopping
    BY <1>1 DEF WriteFile, FrameIdle
  <1>2. ASSUME NEW l \in Lists, Press(l)
        PROVE  /\ UNCHANGED <<worker, server, erased, stopping, qvars>> /\ ~stopping
    BY <1>2 DEF Press, FrameIdle
  <1>3. ASSUME BeginResend, fpc = "start" \/ FrameIdle
        PROVE  /\ UNCHANGED <<worker, server, erased, stopping, qvars>>
               /\ fpc = "idle" => ~stopping
    BY <1>3 DEF BeginResend, FrameIdle
  <1>4. CASE StartSync \/ RetryOwed \/ AdoptLibrary \/ RenewSignIn
    BY <1>3, <1>4 DEF StartSync, RetryOwed, AdoptLibrary, RenewSignIn
  <1>5. CASE FollowServer
    BY <1>3, <1>5 DEF FollowServer, FrameIdle
  <1>6. ASSUME NEW p \in People, SwitchAccount(p)
        PROVE  /\ UNCHANGED <<worker, server, erased, stopping, qvars>> /\ ~stopping
    BY <1>6 DEF SwitchAccount, FrameIdle
  <1>7. CASE HomeFromDrive \/ FrameResent \/ MarkPending \/ MarkFails \/ Unrefuse
    BY <1>7 DEF HomeFromDrive, FrameResent, MarkPending, MarkFails, Unrefuse, FrameIdle
  <1>8. CASE PushEnqueue
    BY <1>8, EnqueueKeeps DEF PushEnqueue, TypeOK
  <1>9. ASSUME NEW i \in Item, FrameResend(i)
        PROVE  /\ UNCHANGED <<worker, server, erased, stopping>> /\ fpc = "resend"
               /\ pending' - Len(queue') = pending - Len(queue)
    BY <1>9, ResendKeeps DEF FrameResend, TypeOK
  <1> QED
    BY <1>1, <1>2, <1>3, <1>4, <1>5, <1>6, <1>7, <1>8, <1>9
       DEF Frame, FrameGoesOn, Pushing

LEMMA WorkerLeaves ==
    ASSUME Worker
    PROVE  /\ UNCHANGED <<frame, current, stopping, made>>
           /\ wpc # "idle" \/ Take
           /\ job' # job => Take \/ Read
  BY DEF Worker, Take, Read, Deliver, Unreachable, AnswerLost, ServerError, Fail, Refuse,
         NoteRefused, Park, Answered, ClearOwed, RotateList, RotateDelete, RotateFails,
         RotateAnswered, RotateAnswerLost, RotateErase, Finish, WorkerResend, CountOff,
         disk, person, frame, memory

\* A new process counts nothing, and an outside event touches no count.
LEMMA OutsideLeaves ==
    ASSUME ConstAssumption, IndInv, Process \/ Environment
    PROVE  \/ NewProcess /\ UNCHANGED <<made, erased, server, current>>
           \/ UNCHANGED <<made, erased, owed, qvars, worker, frame, current, lapsed>>
  BY DEF Process, Environment, Crash, Drained, NewProcess, Quit, ServerGoes,
         ServerReturns, Reconnect, ForeignState, disk, romm, person, qvars

\* The count: it comes down with the job, never before it.
LEMMA CountedStep == ASSUME ConstAssumption, IndInv, Next PROVE Counted'
  <1> /\ TypeOK /\ Counted
    BY DEF IndInv
  <1> Len(queue) \in Nat /\ pending \in Int
    BY LenProperties DEF TypeOK
  <1>1. CASE Frame
    <2>1. /\ wpc' = wpc /\ queue' \in Seq(Job) /\ pending' \in Int
          /\ pending' - Len(queue') = pending - Len(queue)
      BY <1>1, FrameLeaves, TypeFrame DEF worker, IndInv, TypeInv, TypeOK
    <2>2. Len(queue') \in Nat
      BY <2>1, LenProperties
    <2> QED
      BY <2>1, <2>2 DEF Counted
  <1>2. CASE Take
    <2>1. Len(queue') = Len(queue) - 1
      BY <1>2, HeadTailProperties DEF Take, TypeOK
    <2> QED
      BY <1>2, <2>1 DEF Take, Counted
  <1>3. CASE CountOff
    BY <1>3 DEF CountOff, Counted
  <1>4. ASSUME NEW i \in Item, WorkerResend(i) PROVE Counted'
    <2>1. job.who \in People
      BY KeysOfJob DEF TypeOK
    <2>2. /\ queue' \in Seq(Job) /\ pending' \in Int
          /\ pending' - Len(queue') = pending - Len(queue)
      BY <1>4, <2>1, ResendKeeps DEF WorkerResend, TypeOK
    <2>3. Len(queue') \in Nat
      BY <2>2, LenProperties
    <2>4. wpc # "idle" /\ wpc' # "idle"
      BY <1>4 DEF WorkerResend
    <2> QED
      BY <2>2, <2>3, <2>4 DEF Counted
  <1>5. CASE Worker /\ ~Take /\ ~CountOff /\ ~(\E i \in Item : WorkerResend(i))
    <2>1. wpc # "idle" /\ wpc' # "idle" /\ queue' = queue /\ pending' = pending
      BY <1>5 DEF Worker, Read, Deliver, Unreachable, AnswerLost, ServerError, Fail,
         Refuse, NoteRefused, Park, Answered, ClearOwed, RotateList, RotateDelete,
         RotateFails, RotateAnswered, RotateAnswerLost, RotateErase, Finish, qvars
    <2> QED
      BY <2>1 DEF Counted
  <1>6. CASE Process \/ Environment
    <2>1. CASE NewProcess
      BY <2>1, EmptySeq DEF NewProcess, Counted
    <2>2. CASE UNCHANGED <<qvars, worker>>
      BY <2>2 DEF qvars, worker, Counted
    <2> QED
      BY <1>6, <2>1, <2>2, OutsideLeaves
  <1> QED
    BY <1>1, <1>2, <1>3, <1>4, <1>5, <1>6 DEF Next

\* Whose the jobs are: the switch finds nothing counted, so nothing is left.
LEMMA AllOfCurrentStep == ASSUME ConstAssumption, IndInv, Next PROVE AllOfCurrent'
  <1> /\ TypeOK /\ Counted /\ AllOfCurrent
    BY DEF IndInv
  <1> Len(queue) \in Nat /\ current \in People
    BY LenProperties DEF TypeOK
  <1> USE DEF qvars, worker, frame, person
  <1>1. ASSUME NEW i \in File, WriteFile(i) PROVE AllOfCurrent'
    BY <1>1 DEF WriteFile, AllOfCurrent
  <1>2. ASSUME NEW l \in Lists, Press(l) PROVE AllOfCurrent'
    BY <1>2 DEF Press, ResendJob, FrameIdle, AllOfCurrent
  <1>3. CASE MarkPending \/ MarkFails \/ Unrefuse
    BY <1>3 DEF MarkPending, MarkFails, Unrefuse, AllOfCurrent
  <1>4. CASE PushEnqueue
    <2>1. fjob \in Job /\ fjob.who = current
      BY <1>4 DEF PushEnqueue, AllOfCurrent, TypeOK
    <2>2. \A n \in 1 .. Len(queue') : queue'[n].who = current
      BY <1>4, <2>1, EnqueueKeeps DEF PushEnqueue, AllOfCurrent, TypeOK
    <2> QED
      BY <1>4, <2>2 DEF PushEnqueue, AllOfCurrent
  <1>5. ASSUME BeginResend PROVE AllOfCurrent'
    BY <1>5 DEF BeginResend, AllOfCurrent
  <1>6. CASE StartSync \/ RetryOwed \/ AdoptLibrary \/ RenewSignIn
    BY <1>5, <1>6 DEF StartSync, RetryOwed, AdoptLibrary, RenewSignIn
  <1>7. CASE FollowServer \/ HomeFromDrive \/ FrameResent
    <2>1. CASE UNCHANGED <<qvars, person, worker, frame>>
      BY <2>1 DEF AllOfCurrent
    <2>2. CASE FrameResent
      BY <2>2 DEF FrameResent, AllOfCurrent
    <2> QED
      BY <1>5, <1>7, <2>1, <2>2 DEF FollowServer, HomeFromDrive
  <1>8. ASSUME NEW i \in Item, FrameResend(i) PROVE AllOfCurrent'
    <2>1. \A n \in 1 .. Len(queue') : queue'[n].who = current
      BY <1>8, ResendKeeps DEF FrameResend, AllOfCurrent, TypeOK
    <2> QED
      BY <1>8, <2>1 DEF FrameResend, AllOfCurrent
  <1>9. ASSUME NEW p \in People, SwitchAccount(p) PROVE AllOfCurrent'
    <2>1. Len(queue) = 0 /\ wpc = "idle"
      BY <1>9 DEF SwitchAccount, NothingGoingUp, Counted
    <2>2. fpc = "idle"
      BY <1>9 DEF SwitchAccount, FrameIdle
    <2> QED
      BY <1>9, <2>1, <2>2 DEF SwitchAccount, AllOfCurrent
  <1>10. CASE Take
    BY <1>10, HeadTailProperties DEF Take, AllOfCurrent, TypeOK
  <1>11. CASE Read
    BY <1>11 DEF Read, AllOfCurrent, TypeOK, Job
  <1>12. ASSUME NEW i \in Item, WorkerResend(i) PROVE AllOfCurrent'
    <2>1. job.who = current
      BY <1>12 DEF WorkerResend, AllOfCurrent
    <2>2. \A n \in 1 .. Len(queue') : queue'[n].who = current
      BY <1>12, <2>1, ResendKeeps DEF WorkerResend, AllOfCurrent, TypeOK
    <2> QED
      BY <1>12, <2>1, <2>2 DEF WorkerResend, AllOfCurrent
  <1>13. CASE Worker /\ ~Take /\ ~Read /\ ~(\E i \in Item : WorkerResend(i))
    <2>1. UNCHANGED <<queue, job, frame, current>> /\ wpc # "idle"
      BY <1>13 DEF Worker, Deliver, Unreachable, AnswerLost, ServerError, Fail, Refuse,
         NoteRefused, Park, Answered, ClearOwed, RotateList, RotateDelete, RotateFails,
         RotateAnswered, RotateAnswerLost, RotateErase, Finish, CountOff
    <2> QED
      BY <2>1 DEF AllOfCurrent
  <1>14. CASE Process \/ Environment
    <2>1. CASE NewProcess
      BY <2>1, EmptySeq DEF NewProcess, AllOfCurrent
    <2>2. CASE UNCHANGED <<qvars, worker, frame, current>>
      BY <2>2 DEF AllOfCurrent
    <2> QED
      BY <1>14, <2>1, <2>2, OutsideLeaves
  <1> QED
    BY <1>1, <1>2, <1>3, <1>4, <1>6, <1>7, <1>8, <1>9, <1>10, <1>11, <1>12, <1>13,
       <1>14 DEF Next, Frame, FrameGoesOn, Pushing

\* What was sent stays on RomM until its marker goes: the worker itself is the
\* only one that writes over it, and other devices make only new states.
LEMMA LandedStep == ASSUME ConstAssumption, IndInv, Next PROVE Landed'
  <1> /\ TypeOK /\ AllOfCurrent /\ Landed
    BY DEF IndInv
  <1> job.who \in People /\ job.item \in Item /\ job.ver \in 0 .. MaxVer
    BY KeysOfJob DEF TypeOK
  <1>1. CASE Frame
    BY <1>1, FrameLeaves DEF worker, Landed
  <1>2. CASE Read
    <2>1. CASE wpc' = "clear"
      <3>1. job'.ver = 0 /\ job'.who = job.who /\ job'.item = job.item
        BY <1>2, <2>1 DEF Read, TypeOK, Job
      <3>2. server[job.who][job.item] \in 0 .. MaxVer
        BY DEF TypeOK
      <3>3. server' = server
        BY <1>2 DEF Read, romm
      <3> QED
        BY <3>1, <3>2, <3>3 DEF Landed, ConstAssumption
    <2>2. CASE wpc' # "clear"
      BY <1>2, <2>2 DEF Read, Landed
    <2> QED
      BY <2>1, <2>2
  <1>3. CASE Deliver
    <2>1. job.who = current
      BY <1>3 DEF Deliver, AllOfCurrent
    <2>2. server'[current][job.item] = job.ver
      BY <1>3, <2>1 DEF Deliver, TypeOK
    <2> QED
      BY <1>3, <2>1, <2>2 DEF Deliver, Landed
  <1>4. CASE Answered
    BY <1>4 DEF Answered, Landed, romm
  <1>5. CASE Worker /\ ~Read /\ ~Deliver /\ ~Answered
    <2>1. wpc' \notin {"reply", "clear"}
      BY <1>5 DEF Worker, Take, Unreachable, AnswerLost, ServerError, Fail, Refuse,
         NoteRefused, Park, ClearOwed, RotateList, RotateDelete, RotateFails,
         RotateAnswered, RotateAnswerLost, RotateErase, Finish, WorkerResend, CountOff
    <2> QED
      BY <2>1 DEF Landed
  <1>6. CASE Process
    BY <1>6 DEF Process, Crash, Quit, Drained, NewProcess, Landed, worker, romm
  <1>7. CASE ServerGoes \/ ServerReturns \/ Reconnect
    BY <1>7 DEF ServerGoes, ServerReturns, Reconnect, Landed, worker, romm
  <1>8. ASSUME NEW p \in People, NEW s \in States, ForeignState(p, s) PROVE Landed'
    <2>1. server'[job.who][job.item] >= server[job.who][job.item]
      BY <1>8 DEF ForeignState, TypeOK, Item, File
    <2>2. server \in [People -> [Item -> 0 .. MaxVer]]
      BY DEF TypeOK
    <2>3. server' \in [People -> [Item -> 0 .. MaxVer]]
      <3>1. 1 \in 0 .. MaxVer
        BY DEF ConstAssumption
      <3> QED
        BY <1>8, <2>2, <3>1 DEF ForeignState
    <2>4. UNCHANGED <<wpc, job>>
      BY <1>8 DEF ForeignState, worker
    <2>5. /\ server[job.who][job.item] \in 0 .. MaxVer
          /\ server'[job.who][job.item] \in 0 .. MaxVer
      BY <2>2, <2>3
    <2> QED
      BY <2>1, <2>4, <2>5 DEF Landed
  <1> QED
    BY <1>1, <1>2, <1>3, <1>4, <1>5, <1>6, <1>7, <1>8 DEF Next, Environment

\* The frame thread does nothing once it waits for the drain.
LEMMA QuietExitStep == ASSUME ConstAssumption, IndInv, Next PROVE QuietExit'
  <1>1. CASE Frame
    <2>1. ~stopping
      BY <1>1, FrameLeaves DEF IndInv, QuietExit
    <2> QED
      BY <1>1, <2>1, FrameLeaves DEF QuietExit
  <1>2. CASE Worker
    BY <1>2, WorkerLeaves DEF IndInv, QuietExit, frame
  <1>3. CASE Process
    BY <1>3 DEF Process, Crash, Quit, Drained, NewProcess, FrameIdle, QuietExit, frame
  <1>4. CASE Environment
    BY <1>4 DEF Environment, ServerGoes, ServerReturns, Reconnect, ForeignState, memory,
                frame, IndInv, QuietExit
  <1> QED
    BY <1>1, <1>2, <1>3, <1>4 DEF Next

\* A step that touches neither what is owed nor what RomM has forgets nothing.
LEMMA OwedKept ==
    ASSUME OwedKnown, UNCHANGED <<made, erased, server, owed, lapsed>>,
           fpc # "mark" \/ UNCHANGED <<fpc, fjob>>
    PROVE  OwedKnown'
  BY DEF OwedKnown, Newer, Disk, BeingPushed, WhoKey

LEMMA OwedKnownFrame == ASSUME ConstAssumption, IndInv, Frame PROVE OwedKnown'
  <1> /\ TypeOK /\ OwedKnown
    BY DEF IndInv
  <1> USE DEF disk, romm
  <1>1. ASSUME NEW i \in File, WriteFile(i) PROVE OwedKnown'
    <2>1. fpc = "idle" /\ fpc' = "mark" /\ WhoKey(fjob') = <<current, i>>
      BY <1>1 DEF WriteFile, FrameIdle, WhoKey
    <2>2. UNCHANGED <<erased, server, owed, lapsed>>
      BY <1>1 DEF WriteFile
    <2>3. ASSUME NEW p \in People, NEW j \in Item, <<p, j>> # <<current, i>>
          PROVE  made'[p][j] = made[p][j]
      BY <1>1, <2>3 DEF WriteFile, TypeOK
    <2>4. ASSUME NEW p \in People, NEW j \in Item, Newer(p, j)'
          PROVE  (<<p, j>> \in owed \/ BeingPushed(p, j) \/ <<p, j>> \in lapsed)'
      <3>1. CASE <<p, j>> = <<current, i>>
        BY <2>1, <3>1 DEF BeingPushed, WhoKey
      <3>2. CASE <<p, j>> # <<current, i>>
        <4>1. Newer(p, j)
          BY <2>2, <2>3, <2>4, <3>2 DEF Newer, Disk
        <4> QED
          BY <2>1, <2>2, <4>1 DEF OwedKnown, BeingPushed
      <3> QED
        BY <3>1, <3>2
    <2> QED
      BY <2>4 DEF OwedKnown
  <1>2. CASE MarkPending
    BY <1>2 DEF MarkPending, OwedKnown, Newer, Disk, BeingPushed, WhoKey
  <1>5. CASE MarkFails
    BY <1>5 DEF MarkFails, OwedKnown, Newer, Disk, BeingPushed, WhoKey
  <1>3. ASSUME NEW l \in Lists, Press(l) PROVE OwedKnown'
    <2>0. fpc = "idle" /\ fpc' # "mark" /\ UNCHANGED <<erased, server, lapsed>>
      BY <1>3 DEF Press, FrameIdle
    <2>1. CASE owed' = owed \cup {<<current, l>>} /\ made' = [made EXCEPT ![current][l] = @ + 1]
      <3>1. ASSUME NEW p \in People, NEW j \in Item, <<p, j>> # <<current, l>>
            PROVE  made'[p][j] = made[p][j]
        BY <2>1, <3>1 DEF TypeOK
      <3> QED
        BY <2>0, <2>1, <3>1 DEF OwedKnown, Newer, Disk, BeingPushed
    <2>2. CASE UNCHANGED <<made, owed>>
      BY <2>0, <2>2, OwedKept
    <2> QED
      BY <1>3, <2>1, <2>2 DEF Press
  <1>4. CASE Frame /\ ~MarkPending /\ ~MarkFails /\ ~(\E i \in File : WriteFile(i))
             /\ ~(\E l \in Lists : Press(l))
    <2>1. fpc # "mark" /\ UNCHANGED <<made, erased, server, owed, lapsed>>
      BY <1>4 DEF Frame, FrameGoesOn, Pushing, StartSync, Unrefuse, PushEnqueue,
         FrameResent, RetryOwed, FrameResend, FollowServer, HomeFromDrive, AdoptLibrary,
         RenewSignIn, SwitchAccount, BeginResend, FrameIdle
    <2> QED
      BY <2>1, OwedKept
  <1> QED
    BY <1>1, <1>2, <1>3, <1>4, <1>5

LEMMA OwedKnownWorker == ASSUME ConstAssumption, IndInv, Worker PROVE OwedKnown'
  <1> /\ TypeOK /\ OwedKnown /\ AllOfCurrent /\ Landed /\ RotatesStates
    BY DEF IndInv
  <1> job.who \in People /\ job.item \in Item /\ job.ver \in 0 .. MaxVer
    BY KeysOfJob DEF TypeOK
  <1> USE DEF disk, romm
  <1>0. UNCHANGED <<fpc, fjob, made>>
    BY WorkerLeaves DEF frame
  <1>1. CASE Deliver
    <2>1. /\ UNCHANGED <<erased, owed>>
          /\ server' = [server EXCEPT ![current][job.item] = job.ver]
          /\ lapsed \subseteq lapsed'
          /\ job.ver < server[current][job.item] => <<current, job.item>> \in lapsed'
      BY <1>1 DEF Deliver
    <2>2. current \in People /\ server[current][job.item] \in 0 .. MaxVer
      BY DEF TypeOK
    <2>3. ASSUME NEW p \in People, NEW j \in Item, Newer(p, j)'
          PROVE  (<<p, j>> \in owed \/ BeingPushed(p, j) \/ <<p, j>> \in lapsed)'
      <3>1. CASE <<p, j>> \in lapsed'
        BY <3>1
      <3>2. CASE <<p, j>> \notin lapsed'
        <4>1. CASE <<p, j>> = <<current, job.item>>
          <5>1. server[p][j] <= job.ver /\ server'[p][j] = job.ver
            BY <2>1, <2>2, <3>2, <4>1 DEF TypeOK
          <5>2. Disk(p, j) > job.ver /\ Disk(p, j) \in Int
            BY <1>0, <2>1, <2>3, <5>1 DEF Newer, Disk, TypeOK
          <5> QED
            BY <1>0, <2>1, <2>2, <3>2, <4>1, <5>1, <5>2
               DEF OwedKnown, Newer, BeingPushed, WhoKey
        <4>2. CASE <<p, j>> # <<current, job.item>>
          <5>1. server'[p][j] = server[p][j]
            BY <2>1, <4>2 DEF TypeOK
          <5> QED
            BY <1>0, <2>1, <2>3, <3>2, <5>1 DEF OwedKnown, Newer, Disk, BeingPushed, WhoKey
        <4> QED
          BY <4>1, <4>2
      <3> QED
        BY <3>1, <3>2
    <2> QED
      BY <2>3 DEF OwedKnown
  <1>2. CASE ClearOwed
    <2>1. UNCHANGED <<made, erased, server>> /\ server[job.who][job.item] >= job.ver
      BY <1>2 DEF ClearOwed, Landed
    <2>2. /\ job.ver < Disk(job.who, job.item) /\ job.item \in Lists => owed' = owed
          /\ job.ver < Disk(job.who, job.item) /\ job.item \in File
                => WhoKey(job) \in lapsed'
          /\ owed \ {WhoKey(job)} \subseteq owed' /\ lapsed \subseteq lapsed'
      BY <1>2 DEF ClearOwed
    <2>3. job.item \in File \cup Lists
      BY DEF Item
    <2>4. ASSUME Newer(job.who, job.item) PROVE job.ver < Disk(job.who, job.item)
      <3>1. Disk(job.who, job.item) \in Int /\ server[job.who][job.item] \in Int
        BY DEF Disk, TypeOK
      <3> QED
        BY <2>1, <2>4, <3>1 DEF Newer
    <2>5. ASSUME NEW p \in People, NEW j \in Item, Newer(p, j)
          PROVE  <<p, j>> \in owed' \/ BeingPushed(p, j) \/ <<p, j>> \in lapsed'
      <3>1. CASE <<p, j>> = WhoKey(job)
        <4>1. p = job.who /\ j = job.item
          BY <3>1 DEF WhoKey
        <4> QED
          BY <2>2, <2>3, <2>4, <2>5, <3>1, <4>1 DEF OwedKnown
      <3>2. CASE <<p, j>> # WhoKey(job)
        BY <2>2, <2>5, <3>2 DEF OwedKnown
      <3> QED
        BY <3>1, <3>2
    <2> QED
      BY <1>0, <2>1, <2>5 DEF OwedKnown, Newer, Disk, BeingPushed, WhoKey
  <1>3. CASE RotateDelete
    <2>1. UNCHANGED <<erased, owed>> /\ lapsed \subseteq lapsed'
          /\ \A s \in wtodo : Disk(current, s) > 0 => <<current, s>> \in lapsed'
      BY <1>3 DEF RotateDelete
    <2>2. ASSUME NEW p \in People, NEW j \in Item, Newer(p, j)'
          PROVE  Newer(p, j) \/ <<p, j>> \in lapsed'
      <3>1. CASE p = current /\ j \in wtodo
        <4>1. Disk(p, j)' = Disk(p, j)
          BY <1>0, <2>1 DEF Disk
        <4>2. server'[p][j] = 0
          BY <1>3, <3>1 DEF RotateDelete, TypeOK
        <4> QED
          BY <2>1, <2>2, <3>1, <4>1, <4>2 DEF Newer
      <3>2. CASE ~(p = current /\ j \in wtodo)
        <4>1. server'[p][j] = server[p][j]
          BY <1>3, <3>2 DEF RotateDelete, TypeOK
        <4> QED
          BY <1>0, <2>1, <2>2, <4>1 DEF Newer, Disk
      <3> QED
        BY <3>1, <3>2
    <2> QED
      BY <1>0, <2>1, <2>2 DEF OwedKnown, BeingPushed, WhoKey
  <1>5. ASSUME NEW s \in States, RotateErase(s) PROVE OwedKnown'
    <2>1. UNCHANGED <<owed, lapsed, server>> /\ erased \subseteq erased'
      BY <1>5 DEF RotateErase
    <2>2. ASSUME NEW p \in People, NEW j \in Item, Newer(p, j)' PROVE Newer(p, j)
      <3>1. server[p][j] \in 0 .. MaxVer
        BY DEF TypeOK
      <3>2. <<p, j>> \notin erased'
        BY <2>1, <2>2, <3>1 DEF Newer, Disk
      <3> QED
        BY <1>0, <2>1, <2>2, <3>2 DEF Newer, Disk
    <2> QED
      BY <1>0, <2>1, <2>2 DEF OwedKnown, BeingPushed, WhoKey
  <1>4. CASE Worker /\ ~Deliver /\ ~ClearOwed /\ ~RotateDelete
             /\ ~(\E s \in States : RotateErase(s))
    <2>1. UNCHANGED <<erased, server, owed, lapsed>>
      BY <1>4 DEF Worker, Take, Read, Unreachable, AnswerLost, ServerError, Fail, Refuse,
         NoteRefused, Park, Answered, RotateList, RotateFails, RotateAnswered,
         RotateAnswerLost, Finish, WorkerResend, CountOff
    <2> QED
      BY <1>0, <2>1, OwedKept
  <1> QED
    BY <1>1, <1>2, <1>3, <1>4, <1>5

LEMMA OwedKnownOutside ==
    ASSUME ConstAssumption, IndInv, Process \/ Environment PROVE OwedKnown'
  <1> /\ TypeOK /\ OwedKnown /\ QuietExit
    BY DEF IndInv
  <1> USE DEF disk, romm
  <1>1. CASE Crash
    <2>1. UNCHANGED <<made, erased, server>> /\ owed \subseteq owed' \cup lapsed'
          /\ lapsed \subseteq lapsed' /\ (fpc = "mark" => WhoKey(fjob) \in owed' \cup lapsed')
      BY <1>1 DEF Crash, NewProcess
    <2> QED
      BY <2>1 DEF OwedKnown, Newer, Disk, BeingPushed
  <1>2. CASE Drained
    BY <1>2, OwedKept DEF Drained, NewProcess, QuietExit
  <1>3. CASE Quit
    BY <1>3, OwedKept DEF Quit, frame
  <1>4. CASE ServerGoes \/ ServerReturns \/ Reconnect
    BY <1>4, OwedKept DEF ServerGoes, ServerReturns, Reconnect, frame
  <1>5. ASSUME NEW p \in People, NEW s \in States, ForeignState(p, s) PROVE OwedKnown'
    <2>1. UNCHANGED <<made, erased, owed, lapsed, fpc, fjob>>
      BY <1>5 DEF ForeignState, frame
    <2>2. ASSUME NEW q \in People, NEW j \in Item, Newer(q, j)' PROVE Newer(q, j)
      <3>1. Disk(q, j)' = Disk(q, j) /\ Disk(q, j) \in Int
        BY <2>1 DEF Disk, TypeOK
      <3>2. server'[q][j] >= server[q][j] /\ server[q][j] \in Int /\ server'[q][j] \in Int
        BY <1>5 DEF ForeignState, TypeOK, Item, File
      <3> QED
        BY <2>2, <3>1, <3>2 DEF Newer
    <2> QED
      BY <2>1, <2>2 DEF OwedKnown, BeingPushed, WhoKey
  <1> QED
    BY <1>1, <1>2, <1>3, <1>4, <1>5 DEF Process, Environment

\* The states made here are the frame's, and none of another device's name.
LEMMA MadeElsewhereStep == ASSUME ConstAssumption, IndInv, Next PROVE MadeElsewhere'
  <1> /\ TypeOK /\ MadeElsewhere
    BY DEF IndInv
  <1> USE DEF disk
  <1>1. ASSUME NEW i \in Item \ Foreign, made' = [made EXCEPT ![current][i] = @ + 1]
        PROVE  MadeElsewhere'
    BY <1>1 DEF MadeElsewhere, TypeOK
  <1>2. ASSUME UNCHANGED made PROVE MadeElsewhere'
    BY <1>2 DEF MadeElsewhere
  <1>3. ASSUME NEW i \in File, WriteFile(i) PROVE MadeElsewhere'
    BY <1>1, <1>3 DEF WriteFile, CanBeMade, ConstAssumption, Item, File
  <1>4. ASSUME NEW l \in Lists, Press(l) PROVE MadeElsewhere'
    <2>1. l \in Item \ Foreign
      BY DEF ConstAssumption, Item
    <2> QED
      BY <1>1, <1>2, <1>4, <2>1 DEF Press
  <1>5. CASE Frame /\ ~(\E i \in File : WriteFile(i)) /\ ~(\E l \in Lists : Press(l))
    BY <1>2, <1>5 DEF Frame, FrameGoesOn, Pushing, StartSync, MarkPending, MarkFails,
       Unrefuse, PushEnqueue, FrameResent, RetryOwed, FrameResend, FollowServer,
       HomeFromDrive, AdoptLibrary, RenewSignIn, SwitchAccount, BeginResend
  <1> QED
    BY <1>2, <1>3, <1>4, <1>5, WorkerLeaves, OutsideLeaves DEF Next

\* What a rotation erases here is what RomM has just deleted: until it is done,
\* nothing of that is sent, and only other devices' states may come back.
LEMMA ErasesWhatWentStep == ASSUME ConstAssumption, IndInv, Next PROVE ErasesWhatWent'
  <1> /\ TypeOK /\ AllOfCurrent /\ RotatesStates /\ ErasesWhatWent
    BY DEF IndInv
  <1> job.who \in People
    BY KeysOfJob DEF TypeOK
  <1> USE DEF romm, worker
  <1>1. CASE Frame
    BY <1>1, FrameLeaves DEF ErasesWhatWent
  <1>2. CASE RotateDelete
    <2>1. job.who = current /\ wtodo \subseteq States
      BY <1>2 DEF RotateDelete, AllOfCurrent, RotatesStates
    <2>2. \A s \in wtodo : server'[current][s] = 0
      BY <1>2, <2>1 DEF RotateDelete, TypeOK
    <2> QED
      BY <1>2, <2>1, <2>2 DEF RotateDelete, ErasesWhatWent
  <1>3. CASE RotateAnswered
    BY <1>3 DEF RotateAnswered, ErasesWhatWent
  <1>4. ASSUME NEW s \in States, RotateErase(s) PROVE ErasesWhatWent'
    BY <1>4 DEF RotateErase, ErasesWhatWent
  <1>5. CASE Worker /\ ~RotateDelete /\ ~RotateAnswered
             /\ ~(\E s \in States : RotateErase(s))
    <2>1. wpc' \notin {"deleted", "erase"}
      BY <1>5 DEF Worker, Take, Read, Deliver, Unreachable, AnswerLost, ServerError, Fail,
         Refuse, NoteRefused, Park, Answered, ClearOwed, RotateList, RotateFails,
         RotateAnswerLost, Finish, WorkerResend, CountOff
    <2> QED
      BY <2>1 DEF ErasesWhatWent
  <1>6. CASE Process
    BY <1>6 DEF Process, Crash, Quit, Drained, NewProcess, ErasesWhatWent
  <1>7. CASE ServerGoes \/ ServerReturns \/ Reconnect
    BY <1>7 DEF ServerGoes, ServerReturns, Reconnect, ErasesWhatWent
  <1>8. ASSUME NEW p \in People, NEW s \in States, ForeignState(p, s)
        PROVE  ErasesWhatWent'
    <2>1. \A q \in People, i \in Item \ Foreign : server'[q][i] = server[q][i]
      BY <1>8 DEF ForeignState, TypeOK
    <2>2. wpc \in {"deleted", "erase"} => wtodo \subseteq Item
      BY DEF TypeOK
    <2> QED
      BY <1>8, <2>1, <2>2 DEF ForeignState, ErasesWhatWent
  <1> QED
    BY <1>1, <1>2, <1>3, <1>4, <1>5, <1>6, <1>7, <1>8 DEF Next, Environment

LEMMA IndInit == ASSUME ConstAssumption, Init PROVE IndInv
  <1>1. TypeOK /\ RotatesStates
    BY TypeInit DEF TypeInv
  <1>2. Counted /\ AllOfCurrent
    BY EmptySeq DEF Init, Counted, AllOfCurrent
  <1>3. Landed /\ QuietExit
    BY DEF Init, Landed, QuietExit
  <1>5. MadeElsewhere /\ ErasesWhatWent
    <2>1. Foreign \subseteq Item
      BY DEF ConstAssumption, Item, File
    <2> QED
      BY <2>1 DEF Init, MadeElsewhere, ErasesWhatWent
  <1>4. OwedKnown
    BY DEF Init, OwedKnown, Newer, Disk
  <1> QED
    BY <1>1, <1>2, <1>3, <1>4, <1>5 DEF IndInv

LEMMA IndStep == ASSUME ConstAssumption, IndInv, [Next]_vars PROVE IndInv'
  <1>1. CASE Next
    <2>1. TypeOK' /\ RotatesStates'
      BY <1>1, TypeFrame, TypeWorker, TypeOutside DEF Next, IndInv, TypeInv
    <2>2. OwedKnown'
      BY <1>1, OwedKnownFrame, OwedKnownWorker, OwedKnownOutside DEF Next
    <2> QED
      BY <1>1, <2>1, <2>2, CountedStep, AllOfCurrentStep, LandedStep, QuietExitStep,
         MadeElsewhereStep, ErasesWhatWentStep DEF IndInv
  <1>2. CASE UNCHANGED vars
    <2>1. TypeOK' /\ RotatesStates'
      BY <1>2, TypeStutter DEF IndInv, TypeInv
    <2>2. Counted' /\ AllOfCurrent' /\ Landed' /\ QuietExit'
      BY <1>2 DEF IndInv, Counted, AllOfCurrent, Landed, QuietExit, vars, romm, qvars,
                  memory, person, worker, frame
    <2>4. MadeElsewhere' /\ ErasesWhatWent'
      BY <1>2 DEF IndInv, MadeElsewhere, ErasesWhatWent, vars, disk, romm, worker
    <2>3. OwedKnown'
      BY <1>2, OwedKept DEF IndInv, vars, disk, romm, frame
    <2> QED
      BY <2>1, <2>2, <2>3, <2>4 DEF IndInv
  <1> QED
    BY <1>1, <1>2

\* The invariant holds whatever the threads, the server and the power do.
THEOREM Invariant == Spec => []IndInv
  <1>1. Init => IndInv
    BY IndInit, ConstAssumption
  <1>2. IndInv /\ [Next]_vars => IndInv'
    BY IndStep, ConstAssumption
  <1> QED
    BY <1>1, <1>2, PTL DEF Spec

\* No request and no rotation goes out with the login of anyone but the person
\* whose file it is (accountsflow.cpp, switchAccount).
THEOREM SentAsOwnerHolds == Spec => []SentAsOwner
  <1>1. IndInv => SentAsOwner
    BY DEF IndInv, AllOfCurrent, SentAsOwner
  <1> QED
    BY <1>1, Invariant, PTL

\* The console forgets what it owes only where the history variable says so: at
\* a marker not written, or removed for an older save, at older bytes over newer
\* ones, at a power cut, in a rotation (uploader.cpp push, run and rotate,
\* pending.cpp, favorites.cpp).
THEOREM OwedKnownHolds == Spec => []OwedKnown
  <1>1. IndInv => OwedKnown
    BY DEF IndInv
  <1> QED
    BY <1>1, Invariant, PTL
-----------------------------------------------------------------------------
(* The ledger: each step of the queue is one of what is owed, or none.     *)

Writing == {k \in AllKeys : BeingPushed(k[1], k[2])}
OfKeys(f) == [k \in AllKeys |-> f[k[1]][k[2]]]

LEMMA KeyIs == \A k \in AllKeys : k = <<k[1], k[2]>> /\ k[1] \in People /\ k[2] \in Item
  BY DEF AllKeys

LEMMA LedgerStands ==
    ASSUME UNCHANGED <<made, erased, server, owed, lapsed>>, Writing' = Writing
    PROVE  UNCHANGED Ledger!vars
  BY DEF Ledger!vars, Writing

\* While nothing is between its file and its marker, nothing is being written.
LEMMA WritingIs ==
    /\ fpc # "mark" => Writing = {}
    /\ fpc = "mark" /\ fjob \in Job => Writing = {WhoKey(fjob)} /\ WhoKey(fjob) \in AllKeys
  <1>1. ASSUME fpc = "mark", fjob \in Job PROVE Writing = {WhoKey(fjob)} /\ WhoKey(fjob) \in AllKeys
    <2>1. WhoKey(fjob) \in AllKeys
      BY <1>1 DEF Job, AllKeys, WhoKey
    <2>2. \A k \in AllKeys : k \in Writing <=> k = WhoKey(fjob)
      BY <1>1, KeyIs DEF Writing, BeingPushed
    <2> QED
      BY <2>1, <2>2 DEF Writing
  <1> QED
    BY <1>1 DEF Writing, BeingPushed

LEMMA MadeIs ==
    ASSUME TypeOK
    PROVE  made \in [People -> [Item -> Int]] /\ server \in [People -> [Item -> Int]]
  <1>1. \A p \in People : made[p] \in [Item -> Int] /\ server[p] \in [Item -> Int]
    BY DEF TypeOK
  <1> QED
    BY <1>1 DEF TypeOK

\* One entry changes in the ledger when one item of one person does.
LEMMA OneEntry ==
    ASSUME NEW e \in AllKeys
    PROVE  /\ (\A k \in AllKeys : k # e => made'[k[1]][k[2]] = made[k[1]][k[2]])
                 => OfKeys(made)' = [OfKeys(made) EXCEPT ![e] = OfKeys(made)'[e]]
           /\ (\A k \in AllKeys : k # e => server'[k[1]][k[2]] = server[k[1]][k[2]])
                 => OfKeys(server)' = [OfKeys(server) EXCEPT ![e] = OfKeys(server)'[e]]
  BY DEF OfKeys

\* A save made is one entry that is made.
LEMMA MadeOne ==
    ASSUME TypeOK, NEW p \in People, NEW i \in Item, NEW e, e = <<p, i>>, p = current,
           made' = [made EXCEPT ![current][i] = @ + 1]
    PROVE  e \in AllKeys /\ Ledger!Made(e)
  <1> DEFINE n == made[p][i] + 1
  <1>0. made \in [People -> [Item -> Int]]
    BY MadeIs
  <1>1. e \in AllKeys /\ made[p][i] \in Int /\ n \in Int /\ n > made[p][i]
    BY <1>0 DEF AllKeys
  <1>2. made' = [made EXCEPT ![p][i] = n]
    OBVIOUS
  <1> HIDE DEF n
  <1>3. /\ made'[p][i] = n
        /\ \A q \in People, j \in Item : q # p \/ j # i => made'[q][j] = made[q][j]
    BY <1>0, <1>1, <1>2
  <1>4. \A k \in AllKeys : k # e => made'[k[1]][k[2]] = made[k[1]][k[2]]
    BY <1>3, KeyIs
  <1>5. OfKeys(made)' = [OfKeys(made) EXCEPT ![e] = OfKeys(made)'[e]]
    BY <1>1, <1>4, OneEntry
  <1>6. OfKeys(made)'[e] > OfKeys(made)[e]
    BY <1>1, <1>3 DEF OfKeys
  <1> QED
    BY <1>1, <1>5, <1>6 DEF Ledger!Made, OfKeys

\* What RomM has of one item is what it has of one entry.
LEMMA RommOne ==
    ASSUME TypeOK, NEW p \in People, NEW i \in Item, NEW e, e = <<p, i>>,
           \A q \in People, j \in Item : q # p \/ j # i => server'[q][j] = server[q][j]
    PROVE  /\ e \in AllKeys
           /\ OfKeys(server)' = [OfKeys(server) EXCEPT ![e] = OfKeys(server)'[e]]
  <1>1. e \in AllKeys
    BY DEF AllKeys
  <1>2. \A k \in AllKeys : k # e => server'[k[1]][k[2]] = server[k[1]][k[2]]
    BY KeyIs
  <1> QED
    BY <1>1, <1>2, OneEntry

\* That what is owed is known is what the ledger promises.
LEMMA KnownIs == TypeOK /\ OwedKnown => Ledger!AllKnown
  <1> SUFFICES ASSUME TypeOK, OwedKnown, NEW e \in AllKeys, Ledger!Newer(e)
               PROVE  e \in Writing \cup owed \cup lapsed
    BY DEF Ledger!AllKnown, Writing
  <1>1. e = <<e[1], e[2]>> /\ e[1] \in People /\ e[2] \in Item
    BY KeyIs
  <1>2. Newer(e[1], e[2])
    BY <1>1 DEF Ledger!Newer, Newer, Disk
  <1> QED
    BY <1>1, <1>2 DEF OwedKnown, Writing

LEMMA KnownThen == TypeOK' /\ OwedKnown' => Ledger!AllKnown'
  BY KnownIs, PTL

LEMMA LedgerFrame == ASSUME ConstAssumption, IndInv, Frame PROVE [Ledger!Next]_(Ledger!vars)
  <1> /\ TypeOK /\ AllOfCurrent /\ Item = File \cup Lists
    BY DEF IndInv, Item
  <1> USE DEF disk, romm, qvars, memory, person, worker, link
  <1>1. ASSUME NEW i \in File, WriteFile(i) PROVE Ledger!Next
    <2> PICK e : e = <<current, i>>
      OBVIOUS
    <2>1. /\ fpc = "idle" /\ fpc' = "mark" /\ WhoKey(fjob') = e
          /\ UNCHANGED <<erased, server, owed, lapsed>>
      BY <1>1 DEF WriteFile, FrameIdle, WhoKey
    <2>2. e \in AllKeys /\ Ledger!Made(e)
      <3>1. current \in People /\ i \in Item /\ made' = [made EXCEPT ![current][i] = @ + 1]
        BY <1>1 DEF WriteFile, TypeOK
      <3> QED
        BY <3>1, MadeOne
    <2>3. Writing = {} /\ Writing' = {e}
      <3>1. \A k \in AllKeys : k \in Writing' <=> k = e
        BY <2>1, KeyIs DEF Writing, BeingPushed
      <3> QED
        BY <2>1, <2>2, <3>1, WritingIs DEF Writing
    <2>4. UNCHANGED <<erased, OfKeys(server), owed, lapsed>> /\ Writing' = Writing \cup {e}
      BY <2>1, <2>3 DEF OfKeys
    <2>5. Ledger!Write(e)
      BY <2>2, <2>4 DEF Ledger!Write, OfKeys, Writing
    <2> QED
      BY <2>2, <2>5 DEF Ledger!Next
  <1>2. ASSUME NEW l \in Lists, Press(l) PROVE [Ledger!Next]_(Ledger!vars)
    <2> PICK e : e = <<current, l>>
      OBVIOUS
    <2>0. fpc = "idle" /\ fpc' = "enqueue" /\ UNCHANGED <<erased, server, lapsed>>
      BY <1>2 DEF Press, FrameIdle
    <2>1. UNCHANGED <<erased, OfKeys(server), Writing>> /\ lapsed' \in {lapsed, lapsed \ {e}}
      BY <2>0, WritingIs DEF OfKeys, Writing, BeingPushed
    <2>2. CASE owed' = owed \cup {e} /\ made' = [made EXCEPT ![current][l] = @ + 1]
      <3>1. e \in AllKeys /\ Ledger!Made(e)
        <4>1. current \in People /\ l \in Item
          BY DEF TypeOK
        <4> QED
          BY <2>2, <4>1, MadeOne
      <3>2. Ledger!Record(e)
        BY <2>1, <2>2, <3>1 DEF Ledger!Record, OfKeys, Writing
      <3> QED
        BY <3>1, <3>2 DEF Ledger!Next
    <2>3. CASE UNCHANGED <<made, owed>>
      BY <2>0, <2>1, <2>3, LedgerStands
    <2> QED
      BY <1>2, <2>2, <2>3 DEF Press
  <1>3. CASE MarkPending
    <2> PICK e : e = WhoKey(fjob)
      OBVIOUS
    <2>1. /\ fpc = "mark" /\ fpc' = "unrefuse" /\ owed' = owed \cup {e}
          /\ lapsed' = lapsed \ {e} /\ UNCHANGED <<made, erased, server>>
      BY <1>3 DEF MarkPending
    <2>2. Writing = {e} /\ Writing' = {} /\ e \in AllKeys
      BY <2>1, WritingIs DEF TypeOK, Writing, BeingPushed
    <2>3. UNCHANGED <<erased, OfKeys(made), OfKeys(server)>>
      BY <2>1 DEF OfKeys
    <2>4. Ledger!Mark(e)
      BY <2>1, <2>2, <2>3 DEF Ledger!Mark, OfKeys, Writing
    <2> QED
      BY <2>2, <2>4 DEF Ledger!Next
  <1>6. CASE MarkFails
    <2> PICK e : e = WhoKey(fjob)
      OBVIOUS
    <2>1. /\ fpc = "mark" /\ fpc' = "unrefuse" /\ lapsed' = lapsed \cup ({e} \ owed)
          /\ UNCHANGED <<made, erased, server, owed>>
      BY <1>6 DEF MarkFails
    <2>2. Writing = {e} /\ Writing' = {} /\ e \in AllKeys
      BY <2>1, WritingIs DEF TypeOK, Writing, BeingPushed
    <2>3. UNCHANGED <<erased, OfKeys(made), OfKeys(server)>>
      BY <2>1 DEF OfKeys
    <2>4. Ledger!Unmarked(e)
      BY <2>1, <2>2, <2>3 DEF Ledger!Unmarked, OfKeys, Writing
    <2> QED
      BY <2>2, <2>4 DEF Ledger!Next
  <1>4. CASE Frame /\ fpc # "mark" /\ ~(\E i \in File : WriteFile(i))
             /\ ~(\E l \in Lists : Press(l))
    <2>1. UNCHANGED <<made, erased, server, owed, lapsed>> /\ fpc' # "mark"
      BY <1>4 DEF Frame, FrameGoesOn, StartSync, Pushing, MarkPending, MarkFails, Unrefuse,
         PushEnqueue, FrameResent, RetryOwed, FrameResend, FollowServer, HomeFromDrive,
         AdoptLibrary, RenewSignIn, SwitchAccount, BeginResend, FrameIdle, frame
    <2>2. Writing' = Writing
      BY <1>4, <2>1 DEF Writing, BeingPushed
    <2> QED
      BY <2>1, <2>2, LedgerStands
  <1>5. CASE Frame /\ fpc = "mark"
    <2>1. MarkPending \/ MarkFails
      BY <1>5 DEF Frame, FrameGoesOn, StartSync, Pushing, Unrefuse, PushEnqueue, WriteFile, Press,
         FrameResent, RetryOwed, FrameResend, FollowServer, HomeFromDrive, AdoptLibrary,
         RenewSignIn, SwitchAccount, FrameIdle
    <2> QED
      BY <1>3, <1>6, <2>1
  <1> QED
    BY <1>1, <1>2, <1>4, <1>5

LEMMA LedgerWorker ==
    ASSUME ConstAssumption, IndInv, IndInv', Worker PROVE [Ledger!Next]_(Ledger!vars)
  <1> /\ TypeOK /\ AllOfCurrent /\ Ledger!AllKnown'
    BY KnownThen DEF IndInv
  <1> job.who \in People /\ job.item \in Item /\ job.ver \in 0 .. MaxVer
    BY KeysOfJob DEF TypeOK
  <1> USE DEF disk, romm
  <1>0. UNCHANGED <<made, Writing, OfKeys(made)>>
    BY WorkerLeaves DEF frame, Writing, BeingPushed, OfKeys
  <1>1. CASE Deliver
    <2> PICK e : e = <<current, job.item>>
      OBVIOUS
    <2>1. /\ UNCHANGED <<erased, owed>> /\ lapsed' \in {lapsed, lapsed \cup {e}}
          /\ server' = [server EXCEPT ![current][job.item] = job.ver]
      BY <1>1 DEF Deliver
    <2>2. current \in People /\ job.ver \in Int
      BY DEF TypeOK
    <2>3. /\ e \in AllKeys
          /\ OfKeys(server)' = [OfKeys(server) EXCEPT ![e] = OfKeys(server)'[e]]
      <3>1. \A q \in People, j \in Item :
               q # current \/ j # job.item => server'[q][j] = server[q][j]
        BY <2>1, <2>2, MadeIs
      <3> QED
        BY <2>2, <3>1, RommOne
    <2>4. Ledger!Newer(e)' => e \in Writing \cup owed \cup lapsed'
      BY <1>0, <2>1, <2>3 DEF Ledger!AllKnown, Writing
    <2>5. Ledger!Land(e)
      BY <1>0, <2>1, <2>3, <2>4 DEF Ledger!Land, OfKeys, Writing
    <2> QED
      BY <2>3, <2>5 DEF Ledger!Next
  <1>2. CASE ClearOwed
    <2> PICK e : e = WhoKey(job)
      OBVIOUS
    <2>1. /\ UNCHANGED <<erased, server>> /\ owed' \in {owed, owed \ {e}}
          /\ lapsed' \in {lapsed, lapsed \cup {e}}
          /\ owed' = owed => lapsed' = lapsed \/ owed' = owed \ {e}
      BY <1>2 DEF ClearOwed, ConstAssumption, File
    <2>2. e \in AllKeys
      BY DEF AllKeys, WhoKey
    <2>3. UNCHANGED <<OfKeys(server), OfKeys(made)>>
      BY <1>0, <2>1 DEF OfKeys
    <2>4. CASE owed' = owed \ {e}
      <3>1. Ledger!Newer(e)' => e \in Writing' \cup owed' \cup lapsed'
        BY <2>2 DEF Ledger!AllKnown, Writing
      <3>2. Ledger!Newer(e)' <=> Ledger!Newer(e)
        BY <2>1, <2>3 DEF Ledger!Newer, OfKeys
      <3>3. Ledger!Settle(e)
        BY <1>0, <2>1, <2>3, <2>4, <3>1, <3>2 DEF Ledger!Settle, OfKeys, Writing
      <3> QED
        BY <2>2, <3>3 DEF Ledger!Next
    <2>5. CASE owed' # owed \ {e}
      BY <1>0, <2>1, <2>5, LedgerStands
    <2> QED
      BY <2>4, <2>5
  <1>3. CASE RotateDelete
    <2>1. UNCHANGED <<erased, owed>> /\ lapsed \subseteq lapsed' /\ current \in People
      BY <1>3 DEF RotateDelete, TypeOK
    <2>2. \A q \in People, j \in Item :
             server'[q][j] = IF q = current /\ j \in wtodo THEN 0 ELSE server[q][j]
      BY <1>3 DEF RotateDelete, TypeOK
    <2>3. ASSUME NEW k \in AllKeys
          PROVE  server'[k[1]][k[2]] = IF server'[k[1]][k[2]] = 0 THEN 0
                                       ELSE server[k[1]][k[2]]
      BY <2>2, KeyIs
    <2>4. \A k \in AllKeys : Ledger!Newer(k)' => k \in Writing' \cup owed' \cup lapsed'
      BY DEF Ledger!AllKnown, Writing
    <2>5. Ledger!Drop
      BY <1>0, <2>1, <2>3, <2>4 DEF Ledger!Drop, OfKeys, Writing
    <2> QED
      BY <2>5 DEF Ledger!Next
  <1>5. ASSUME NEW s \in States, RotateErase(s) PROVE Ledger!Next
    <2> PICK e : e = <<job.who, s>>
      OBVIOUS
    <2>1. UNCHANGED <<owed, lapsed, server>> /\ erased' = erased \cup {e}
      BY <1>5 DEF RotateErase
    <2>2. e \in AllKeys /\ e[1] = job.who /\ e[2] = s
      BY DEF AllKeys, Item, File
    <2>3. server[job.who][s] = 0 \/ made[job.who][s] = 0
      BY <1>5 DEF RotateErase, IndInv, ErasesWhatWent, MadeElsewhere
    <2>4. OfKeys(server)[e] = 0 \/ OfKeys(made)[e] = 0
      BY <2>2, <2>3 DEF OfKeys
    <2>5. OfKeys(server)' = OfKeys(server)
      BY <2>1 DEF OfKeys
    <2>6. Ledger!Erase(e)
      BY <1>0, <2>1, <2>4, <2>5 DEF Ledger!Erase, OfKeys, Writing
    <2> QED
      BY <2>2, <2>6 DEF Ledger!Next
  <1>4. CASE Worker /\ ~Deliver /\ ~ClearOwed /\ ~RotateDelete
             /\ ~(\E s \in States : RotateErase(s))
    <2>1. UNCHANGED <<erased, server, owed, lapsed>>
      BY <1>4 DEF Worker, Take, Read, Unreachable, AnswerLost, ServerError, Fail, Refuse,
         NoteRefused, Park, Answered, RotateList, RotateFails, RotateAnswered,
         RotateAnswerLost, Finish, WorkerResend, CountOff
    <2> QED
      BY <1>0, <2>1, LedgerStands
  <1> QED
    BY <1>1, <1>2, <1>3, <1>4, <1>5

LEMMA LedgerOutside ==
    ASSUME ConstAssumption, IndInv, IndInv', Process \/ Environment
    PROVE  [Ledger!Next]_(Ledger!vars)
  <1> /\ TypeOK /\ QuietExit /\ Ledger!AllKnown'
    BY KnownThen DEF IndInv
  <1> USE DEF disk, romm
  <1>1. CASE Crash
    <2>1. UNCHANGED <<made, erased, server>> /\ fpc' = "start"
      BY <1>1 DEF Crash, NewProcess
    <2>2. Writing = (IF fpc = "mark" THEN {WhoKey(fjob)} ELSE {}) /\ Writing' = {}
      BY <2>1, WritingIs DEF TypeOK, Writing, BeingPushed
    <2>3. PICK torn \in SUBSET {k \in owed : k[2] \in Parkable} :
             /\ owed' = owed \ torn
             /\ lapsed' = lapsed \cup torn
                             \cup ((IF fpc = "mark" THEN {WhoKey(fjob)} ELSE {}) \ owed')
      BY <1>1 DEF Crash
    <2>4. /\ owed \ {k \in AllKeys : k[2] \in Parkable} \subseteq owed' /\ owed' \subseteq owed
          /\ lapsed' = lapsed \cup ((Writing \cup owed) \ owed')
      BY <2>2, <2>3 DEF TypeOK
    <2>5. UNCHANGED <<OfKeys(made), OfKeys(server)>>
      BY <2>1 DEF OfKeys
    <2>6. Ledger!Cut
      BY <2>1, <2>2, <2>4, <2>5 DEF Ledger!Cut, OfKeys, Writing
    <2> QED
      BY <2>6 DEF Ledger!Next
  <1>2. CASE Drained
    <2>1. UNCHANGED <<made, erased, server, owed, lapsed>> /\ fpc # "mark" /\ fpc' # "mark"
      BY <1>2 DEF Drained, NewProcess, QuietExit
    <2>2. Writing' = Writing
      BY <2>1 DEF Writing, BeingPushed
    <2> QED
      BY <2>1, <2>2, LedgerStands
  <1>3. CASE Quit \/ ServerGoes \/ ServerReturns \/ Reconnect
    <2>1. UNCHANGED <<made, erased, server, owed, lapsed, fpc, fjob>>
      BY <1>3 DEF Quit, ServerGoes, ServerReturns, Reconnect, frame
    <2>2. Writing' = Writing
      BY <2>1 DEF Writing, BeingPushed
    <2> QED
      BY <2>1, <2>2, LedgerStands
  <1>4. ASSUME NEW p \in People, NEW s \in States, ForeignState(p, s) PROVE Ledger!Next
    <2> PICK e : e = <<p, s>>
      OBVIOUS
    <2>0. s \in Item
      BY DEF Item, File
    <2>1. UNCHANGED <<made, erased, owed, lapsed, fpc, fjob>>
          /\ server' = [server EXCEPT ![p][s] = 1]
      BY <1>4 DEF ForeignState, frame
    <2>2. /\ e \in AllKeys
          /\ OfKeys(server)' = [OfKeys(server) EXCEPT ![e] = OfKeys(server)'[e]]
      <3>1. \A q \in People, j \in Item :
               q # p \/ j # s => server'[q][j] = server[q][j]
        BY <2>0, <2>1, MadeIs
      <3> QED
        BY <2>0, <3>1, RommOne
    <2>3. UNCHANGED <<OfKeys(made), Writing>>
      BY <2>1 DEF OfKeys, Writing, BeingPushed
    <2>4. Ledger!Newer(e)' => e \in Writing \cup owed \cup lapsed'
      BY <2>1, <2>2, <2>3 DEF Ledger!AllKnown, Writing
    <2>5. Ledger!Land(e)
      BY <2>1, <2>2, <2>3, <2>4 DEF Ledger!Land, OfKeys, Writing
    <2> QED
      BY <2>2, <2>5 DEF Ledger!Next
  <1> QED
    BY <1>1, <1>2, <1>3, <1>4 DEF Process, Environment

\* The queue implements the ledger: with two threads, requests that fail and the power
\* that goes, each step changes what is owed as one of the ledger's steps does, or not
\* at all (uploader.cpp, pending.cpp).
THEOREM QueueKeepsTheLedger == Spec => LedgerKept
  <1>1. Init => Ledger!Init
    <2> SUFFICES ASSUME Init PROVE Ledger!Init
      OBVIOUS
    <2>1. made = [p \in People |-> [i \in Item |-> 0]] /\ server = made
          /\ erased = {} /\ owed = {} /\ lapsed = {} /\ fpc = "start"
      BY DEF Init
    <2>2. OfKeys(made) = [k \in AllKeys |-> 0] /\ OfKeys(server) = [k \in AllKeys |-> 0]
      BY <2>1, KeyIs DEF OfKeys
    <2> QED
      BY <2>1, <2>2, WritingIs DEF Ledger!Init, OfKeys, Writing
  <1>2. IndInv /\ IndInv' /\ [Next]_vars => [Ledger!Next]_(Ledger!vars)
    <2> SUFFICES ASSUME IndInv, IndInv', [Next]_vars PROVE [Ledger!Next]_(Ledger!vars)
      OBVIOUS
    <2>1. CASE Next
      BY <2>1, LedgerFrame, LedgerWorker, LedgerOutside, ConstAssumption DEF Next
    <2>2. CASE UNCHANGED vars
      <3>1. UNCHANGED <<made, erased, server, owed, lapsed, fpc, fjob>>
        BY <2>2 DEF vars, disk, romm, frame
      <3>2. Writing' = Writing
        BY <3>1 DEF Writing, BeingPushed
      <3> QED
        BY <3>1, <3>2, LedgerStands
    <2> QED
      BY <2>1, <2>2
  <1> QED
    BY <1>1, <1>2, Invariant, PTL DEF Spec, LedgerKept, Ledger!Spec

\* What the ledger promises whoever keeps it: the console knows of every save RomM
\* does not have, but for what has lapsed.
THEOREM LedgerKnows == LedgerKept => []Ledger!AllKnown
  <1>1. Ledger!Init => Ledger!AllKnown
    BY DEF Ledger!Init, Ledger!AllKnown, Ledger!Newer
  <1>2. Ledger!AllKnown /\ [Ledger!Next]_(Ledger!vars) => Ledger!AllKnown'
    <2> SUFFICES ASSUME Ledger!AllKnown, [Ledger!Next]_(Ledger!vars), NEW k \in AllKeys,
                        k \notin erased', OfKeys(made)'[k] > OfKeys(server)'[k]
                 PROVE  k \in Writing' \cup owed' \cup lapsed'
      BY DEF Ledger!AllKnown, Ledger!Newer, Writing, OfKeys
    <2>0. k \notin erased /\ OfKeys(made)[k] > OfKeys(server)[k]
             => k \in Writing \cup owed \cup lapsed
      BY DEF Ledger!AllKnown, Ledger!Newer, Writing, OfKeys
    <2>1. ASSUME NEW e \in AllKeys, Ledger!Made(e), UNCHANGED <<erased, OfKeys(server)>>, k # e
          PROVE  k \in Writing \cup owed \cup lapsed
      <3>1. OfKeys(made)'[k] = OfKeys(made)[k]
        BY <2>1 DEF Ledger!Made, OfKeys
      <3> QED
        BY <2>0, <2>1, <3>1
    <2>2. ASSUME NEW e \in AllKeys, Ledger!Write(e) \/ Ledger!Record(e)
          PROVE  k \in Writing' \cup owed' \cup lapsed'
      BY <2>1, <2>2 DEF Ledger!Write, Ledger!Record, Writing, OfKeys
    <2>3. ASSUME NEW e \in AllKeys, Ledger!Mark(e)
          PROVE  k \in Writing' \cup owed' \cup lapsed'
      BY <2>0, <2>3 DEF Ledger!Mark, Writing, OfKeys
    <2>4. ASSUME NEW e \in AllKeys, Ledger!Land(e) \/ Ledger!Settle(e)
          PROVE  k \in Writing' \cup owed' \cup lapsed'
      <3>1. CASE k = e
        BY <2>0, <2>4, <3>1 DEF Ledger!Land, Ledger!Settle, Ledger!Newer, Writing, OfKeys
      <3>2. CASE k # e
        <4>1. OfKeys(server)'[k] = OfKeys(server)[k]
          BY <2>4, <3>2 DEF Ledger!Land, Ledger!Settle, OfKeys
        <4> QED
          BY <2>0, <2>4, <3>2, <4>1 DEF Ledger!Land, Ledger!Settle, Writing, OfKeys
      <3> QED
        BY <3>1, <3>2
    <2>5. CASE Ledger!Drop
      BY <2>5 DEF Ledger!Drop, Ledger!Newer, Writing, OfKeys
    <2>7. ASSUME NEW e \in AllKeys, Ledger!Unmarked(e) \/ Ledger!Erase(e)
          PROVE  k \in Writing' \cup owed' \cup lapsed'
      BY <2>0, <2>7 DEF Ledger!Unmarked, Ledger!Erase, Writing, OfKeys
    <2>6. CASE Ledger!Cut \/ UNCHANGED Ledger!vars
      BY <2>0, <2>6 DEF Ledger!Cut, Ledger!vars, Writing, OfKeys
    <2> QED
      BY <2>2, <2>3, <2>4, <2>5, <2>6, <2>7 DEF Ledger!Next
  <1> QED
    BY <1>1, <1>2, PTL DEF LedgerKept, Ledger!Spec

-----------------------------------------------------------------------------
(* Rotation.  What stays is the newest of the states under the tag, by the *)
(* order RomM has updated them in; and a state that goes is older than all *)
(* of them, of which there are Kept, as it would be one of them itself.    *)

\* R says which of any two of S comes first.
IsOrder(R, S) ==
    /\ R \subseteq S \X S
    /\ \A s \in S : <<s, s>> \notin R
    /\ \A s, t \in S : s # t => <<s, t>> \in R \/ <<t, s>> \in R
    /\ \A s, t, u \in S : <<s, t>> \in R /\ <<t, u>> \in R => <<s, u>> \in R

After(R, s, S) == {t \in S : <<s, t>> \in R}

\* The pairs of s and what comes after it are as many as what comes after it.
LEMMA PairsAre ==
    ASSUME NEW S, IsFiniteSet(S), NEW R, IsOrder(R, S), NEW s
    PROVE  /\ IsFiniteSet(After(R, s, S))
           /\ Cardinality({e \in R : e[1] = s}) = Cardinality(After(R, s, S))
  <1> DEFINE T == After(R, s, S)
             E == {e \in R : e[1] = s}
             f == [t \in T |-> <<s, t>>]
  <1>1. IsFiniteSet(T)
    <2>1. T \in SUBSET S
      BY DEF After
    <2> QED
      BY <2>1, FS_Subset
  <1>2. f \in [T -> E]
    BY DEF After
  <1>3. \A a, b \in T : f[a] = f[b] => a = b
    OBVIOUS
  <1>4. \A e \in E : \E t \in T : f[t] = e
    <2> TAKE e \in E
    <2>1. e \in S \X S /\ e[1] = s
      BY DEF IsOrder
    <2>2. e = <<s, e[2]>> /\ e[2] \in T
      BY <2>1 DEF After
    <2> QED
      BY <2>2
  <1>5. f \in Bijection(T, E)
    BY <1>2, <1>3, <1>4 DEF Bijection, Injection, Surjection, IsInjective
  <1>6. ExistsBijection(T, E)
    BY <1>5 DEF ExistsBijection
  <1> QED
    BY <1>1, <1>6, FS_Bijection

\* Of what is not among the last n, n come after it that are.
LEMMA LastOnesStay ==
    ASSUME NEW S, IsFiniteSet(S), NEW R, IsOrder(R, S), NEW n \in Nat,
           NEW L, L = {s \in S : Cardinality(After(R, s, S)) < n},
           NEW s \in S \ L
    PROVE  Cardinality(After(R, s, L)) >= n
  <1> DEFINE T == {After(R, t, S) : t \in S \ L}
  <1>1. T # {} /\ T \subseteq FiniteSubsetsOf(S)
    <2>1. \A t : After(R, t, S) \in SUBSET S
      BY DEF After
    <2>2. SUBSET S = FiniteSubsetsOf(S)
      BY FS_FiniteSubsetsOfFinite
    <2>3. T \subseteq FiniteSubsetsOf(S)
      BY <2>1, <2>2
    <2>4. After(R, s, S) \in T
      OBVIOUS
    <2> QED
      BY <2>3, <2>4
  <1>2. PICK U \in T : \A V \in T : <<V, U>> \notin StrictSubsetOrdering(S)
    BY <1>1, FS_StrictSubsetOrderingWellFounded, WFMin
  <1>3. PICK u \in S \ L : U = After(R, u, S)
    BY <1>2
  <1>4. ASSUME NEW t \in U PROVE t \in L
    <2> SUFFICES ASSUME t \notin L PROVE FALSE
      OBVIOUS
    <2>1. t \in S \ L /\ <<u, t>> \in R
      BY <1>3, <1>4 DEF After
    <2>2. After(R, t, S) \subseteq U /\ After(R, t, S) # U
      BY <1>3, <1>4, <2>1 DEF After, IsOrder
    <2>3. <<After(R, t, S), U>> \in StrictSubsetOrdering(S)
      BY <1>3, <2>2 DEF After, StrictSubsetOrdering
    <2> QED
      BY <1>2, <2>1, <2>3
  <1>5. Cardinality(U) >= n /\ IsFiniteSet(U) /\ Cardinality(U) \in Nat
    <2>1. IsFiniteSet(U)
      BY <1>3, PairsAre
    <2>2. Cardinality(U) \in Nat
      BY <2>1, FS_CardinalityType
    <2> QED
      BY <1>3, <2>1, <2>2
  <1>6. ASSUME NEW t \in L PROVE <<s, t>> \in R
    <2> SUFFICES ASSUME <<s, t>> \notin R PROVE FALSE
      OBVIOUS
    <2>1. t \in S /\ <<t, s>> \in R
      BY <1>6 DEF IsOrder
    <2>2. After(R, s, S) \in SUBSET After(R, t, S)
      BY <2>1 DEF After, IsOrder
    <2>3. Cardinality(After(R, s, S)) <= Cardinality(After(R, t, S))
      BY <2>2, PairsAre, FS_Subset
    <2>4. /\ Cardinality(After(R, s, S)) \in Nat
          /\ Cardinality(After(R, t, S)) \in Nat
      BY PairsAre, FS_CardinalityType
    <2> QED
      BY <1>6, <2>3, <2>4
  <1>7. U \in SUBSET After(R, s, L)
    BY <1>4, <1>6 DEF After
  <1>8. After(R, s, L) \in SUBSET S
    BY DEF After
  <1>9. IsFiniteSet(After(R, s, L)) /\ Cardinality(After(R, s, L)) \in Nat
    BY <1>8, FS_Subset, FS_CardinalityType
  <1>10. Cardinality(U) <= Cardinality(After(R, s, L))
    BY <1>7, <1>9, FS_Subset
  <1> QED
    BY <1>5, <1>9, <1>10

\* One that is put last, or a few that are taken out, leave an order.
LEMMA PutLast ==
    ASSUME NEW S, NEW R, IsOrder(R, S), NEW s
    PROVE  IsOrder({e \in R : s \notin {e[1], e[2]}} \cup {<<t, s>> : t \in S \ {s}},
                   S \cup {s})
  <1> DEFINE Q == {e \in R : s \notin {e[1], e[2]}} \cup {<<t, s>> : t \in S \ {s}}
             W == S \cup {s}
  <1>1. ASSUME NEW a \in W, NEW b \in W
        PROVE  <<a, b>> \in Q <=> a # s /\ (b = s \/ <<a, b>> \in R)
    <2>1. CASE b = s
      <3>1. <<a, b>> \in {<<t, s>> : t \in S \ {s}} <=> a # s
        BY <2>1
      <3>2. <<a, b>> \notin {e \in R : s \notin {e[1], e[2]}}
        BY <2>1
      <3> QED
        BY <2>1, <3>1, <3>2
    <2>2. CASE b # s
      <3>1. <<a, b>> \notin {<<t, s>> : t \in S \ {s}}
        BY <2>2
      <3>2. <<a, b>> \in {e \in R : s \notin {e[1], e[2]}} <=> a # s /\ <<a, b>> \in R
        BY <2>2
      <3> QED
        BY <2>2, <3>1, <3>2
    <2> QED
      BY <2>1, <2>2
  <1>2. Q \subseteq W \X W
    BY DEF IsOrder
  <1> HIDE DEF Q
  <1>3. ASSUME NEW a \in W PROVE <<a, a>> \notin Q
    BY <1>1 DEF IsOrder
  <1>4. ASSUME NEW a \in W, NEW b \in W, a # b PROVE <<a, b>> \in Q \/ <<b, a>> \in Q
    <2>1. a # s /\ b # s => <<a, b>> \in R \/ <<b, a>> \in R
      BY <1>4 DEF IsOrder
    <2> QED
      BY <1>1, <1>4, <2>1
  <1>5. ASSUME NEW a \in W, NEW b \in W, NEW c \in W, <<a, b>> \in Q, <<b, c>> \in Q
        PROVE  <<a, c>> \in Q
    <2>1. a # s /\ b # s /\ <<a, b>> \in R
      BY <1>1, <1>5
    <2>2. c = s \/ <<b, c>> \in R
      BY <1>1, <1>5
    <2>3. c # s => <<a, c>> \in R
      BY <2>1, <2>2 DEF IsOrder
    <2> QED
      BY <1>1, <2>1, <2>3
  <1>6. IsOrder(Q, W)
    BY <1>2, <1>3, <1>4, <1>5 DEF IsOrder
  <1> QED
    BY <1>6 DEF Q

LEMMA TakeOut ==
    ASSUME NEW S, NEW R, IsOrder(R, S), NEW D
    PROVE  IsOrder({e \in R : e[1] \notin D /\ e[2] \notin D}, S \ D)
  BY DEF IsOrder
\* RomM orders a person's states by when they were updated, the ones there are.
Ordered == \A p \in People : IsFiniteSet(OnRomM(p)) /\ IsOrder(older[p], OnRomM(p))

\* A file that is empty is not sent.
SendsBytes == wpc = "send" /\ job.item \in File => job.ver > 0

\* What is to go has Kept newer ones that stay, the one just sent among what stays.
DoomedOld ==
    wpc = "delete" =>
        /\ job.item \notin wtodo /\ wtodo \subseteq OnRomM(current)
        /\ \A s \in wtodo :
              Cardinality(After(older[current], s, OnRomM(current) \ wtodo)) >= Kept

RotInv == Ordered /\ SendsBytes /\ DoomedOld

LEMMA RotInit == ASSUME ConstAssumption, Init PROVE RotInv
  <1>1. \A p \in People : OnRomM(p) = {} /\ older[p] = {}
    BY DEF Init, OnRomM, File, Item
  <1>2. Ordered
    BY <1>1, FS_EmptySet DEF Ordered, IsOrder
  <1>3. SendsBytes /\ DoomedOld
    BY DEF Init, SendsBytes, DoomedOld
  <1> QED
    BY <1>2, <1>3 DEF RotInv

\* A step that leaves RomM's states, the worker and, at a delete, the person.
LEMMA RotKept ==
    ASSUME RotInv, UNCHANGED <<server, older, job, wtodo>>,
           wpc' = wpc \/ wpc' \notin {"send", "delete"},
           wpc' = "delete" => current' = current
    PROVE  RotInv'
  <1>1. Ordered'
    BY DEF RotInv, Ordered, OnRomM
  <1>2. SendsBytes'
    BY DEF RotInv, SendsBytes
  <1>3. DoomedOld'
    <2>1. CASE wpc' = "delete"
      BY <2>1 DEF RotInv, DoomedOld, OnRomM
    <2>2. CASE wpc' # "delete"
      BY <2>2 DEF DoomedOld
    <2> QED
      BY <2>1, <2>2
  <1> QED
    BY <1>1, <1>2, <1>3 DEF RotInv

\* The frame thread touches nothing of RomM, and switches under no upload.
LEMMA RotFrame == ASSUME ConstAssumption, IndInv, RotInv, Frame PROVE RotInv'
  <1>1. UNCHANGED <<server, older, worker>> /\ (current' = current \/ pending = 0)
    BY DEF Frame, FrameGoesOn, StartSync, Pushing, MarkPending, MarkFails, Unrefuse,
           PushEnqueue, FrameResent, RetryOwed, FrameResend, WriteFile, Press, FollowServer,
           HomeFromDrive, AdoptLibrary, RenewSignIn, SwitchAccount, BeginResend,
           NothingGoingUp, romm, worker, person, disk
  <1>2. pending = 0 => wpc = "idle"
    <2>1. Len(queue) \in Nat
      BY LenProperties DEF IndInv, TypeOK
    <2> QED
      BY <2>1 DEF IndInv, Counted
  <1>3. wpc' = "delete" => current' = current
    BY <1>1, <1>2 DEF worker
  <1> QED
    BY <1>1, <1>3, RotKept DEF worker

\* One more state on RomM, or one updated again, is the last of its person's.
LEMMA OrderedUpdated ==
    ASSUME TypeOK, Ordered, NEW p \in People, NEW s \in States, older' = Updated(p, s),
           \A q \in People : OnRomM(q)' = IF q = p THEN OnRomM(q) \cup {s} ELSE OnRomM(q)
    PROVE  Ordered'
  <1> SUFFICES ASSUME NEW q \in People
               PROVE  IsFiniteSet(OnRomM(q)') /\ IsOrder(older'[q], OnRomM(q)')
    BY DEF Ordered
  <1>1. IsFiniteSet(OnRomM(q)) /\ IsOrder(older[q], OnRomM(q))
    BY DEF Ordered
  <1>2. CASE q = p
    <2>1. OnRomM(q)' = OnRomM(q) \cup {s}
      BY <1>2
    <2>2. older'[q] = {e \in older[q] : s \notin {e[1], e[2]}}
                          \cup {<<t, s>> : t \in OnRomM(q) \ {s}}
      BY <1>2 DEF Updated, TypeOK
    <2>3. IsFiniteSet(OnRomM(q)')
      BY <1>1, <2>1, FS_AddElement
    <2>4. IsOrder(older'[q], OnRomM(q)')
      <3>1. IsOrder({e \in older[q] : s \notin {e[1], e[2]}}
                        \cup {<<t, s>> : t \in OnRomM(q) \ {s}}, OnRomM(q) \cup {s})
        BY <1>1, PutLast
      <3> QED
        BY <2>1, <2>2, <3>1
    <2> QED
      BY <2>3, <2>4
  <1>3. CASE q # p
    BY <1>1, <1>3 DEF Updated, TypeOK
  <1> QED
    BY <1>2, <1>3

LEMMA RotDeliver == ASSUME ConstAssumption, IndInv, RotInv, Deliver PROVE RotInv'
  <1> TypeOK /\ Ordered
    BY DEF IndInv, RotInv
  <1>1. /\ current \in People /\ job.item \in Item
        /\ server \in [People -> [Item -> 0 .. MaxVer]]
        /\ server' = [server EXCEPT ![current][job.item] = job.ver]
    BY KeysOfJob DEF TypeOK, Deliver
  <1>2. CASE job.item \in States
    <2>1. job.ver > 0
      BY <1>2 DEF Deliver, RotInv, SendsBytes, File
    <2>2. ASSUME NEW q \in People
          PROVE  OnRomM(q)' = IF q = current THEN OnRomM(q) \cup {job.item} ELSE OnRomM(q)
      <3>1. ASSUME NEW s \in States
            PROVE  server'[q][s] = IF q = current /\ s = job.item THEN job.ver
                                   ELSE server[q][s]
        BY <1>1 DEF File, Item
      <3> QED
        BY <1>2, <2>1, <3>1 DEF OnRomM
    <2>3. older' = Updated(current, job.item)
      BY <1>2 DEF Deliver
    <2> QED
      BY <1>1, <1>2, <2>2, <2>3, OrderedUpdated DEF Deliver, RotInv, SendsBytes, DoomedOld
  <1>3. CASE job.item \notin States
    <2>1. \A q \in People : OnRomM(q)' = OnRomM(q)
      BY <1>1, <1>3 DEF OnRomM, File, Item
    <2>2. older' = older
      BY <1>3 DEF Deliver
    <2> QED
      BY <2>1, <2>2 DEF Deliver, RotInv, Ordered, SendsBytes, DoomedOld
  <1> QED
    BY <1>2, <1>3

\* What is listed to go is what is not among the newest, where the one sent is.
LEMMA RotListed == ASSUME ConstAssumption, IndInv, RotInv, RotateList PROVE RotInv'
  <1>1. UNCHANGED <<server, older, job, current>>
    BY DEF RotateList, romm, person
  <1>2. Ordered'
    BY <1>1 DEF RotInv, Ordered, OnRomM
  <1>3. SendsBytes'
    BY DEF RotateList, SendsBytes
  <1>4. DoomedOld'
    <2> SUFFICES ASSUME wpc' = "delete"
                 PROVE  /\ job.item \notin wtodo' /\ wtodo' \subseteq OnRomM(current)
                        /\ \A s \in wtodo' :
                              Cardinality(After(older[current], s, OnRomM(current) \ wtodo'))
                                  >= Kept
      BY <1>1 DEF DoomedOld, OnRomM
    <2> DEFINE S == OnRomM(current)
               L == {s \in S : Cardinality(After(older[current], s, S)) < Kept}
    <2>1. current \in People /\ IsFiniteSet(S) /\ IsOrder(older[current], S)
      BY DEF IndInv, TypeOK, RotInv, Ordered
    <2>2. Newest(current) = L
      BY <2>1, PairsAre DEF Newest
    <2>3. wtodo' = Doomed(current, job.item) /\ wtodo' # {}
      BY DEF RotateList
    <2>4. job.item \in Newest(current) /\ wtodo' = S \ Newest(current)
      BY <2>3 DEF Doomed
    <2>5. S \ wtodo' = L
      BY <2>2, <2>4
    <2>6. ASSUME NEW s \in wtodo' PROVE Cardinality(After(older[current], s, L)) >= Kept
      <3>1. s \in S \ L
        BY <2>2, <2>4
      <3> HIDE DEF S
      <3> QED
        BY <2>1, <3>1, LastOnesStay DEF ConstAssumption
    <2> QED
      BY <2>2, <2>4, <2>5, <2>6
  <1> QED
    BY <1>2, <1>3, <1>4 DEF RotInv

\* What was to go is gone.
LEMMA DeletedIs ==
    ASSUME IndInv, RotInv, RotateDelete
    PROVE  \A p \in People :
             /\ OnRomM(p)' = IF p = current THEN OnRomM(p) \ wtodo ELSE OnRomM(p)
             /\ older'[p] = IF p = current
                            THEN {e \in older[p] : e[1] \notin wtodo /\ e[2] \notin wtodo}
                            ELSE older[p]
  <1> TAKE p \in People
  <1> TypeOK
    BY DEF IndInv
  <1>1. older'[p] = IF p = current
                    THEN {e \in older[p] : e[1] \notin wtodo /\ e[2] \notin wtodo}
                    ELSE older[p]
    BY DEF RotateDelete, TypeOK
  <1>2. ASSUME NEW s \in States
        PROVE  server'[p][s] = IF p = current /\ s \in wtodo THEN 0 ELSE server[p][s]
    BY DEF RotateDelete, TypeOK, File, Item
  <1>3. OnRomM(p)' = IF p = current THEN OnRomM(p) \ wtodo ELSE OnRomM(p)
    <2>1. \A s \in States : server[p][s] \in Int
      BY DEF TypeOK, File, Item
    <2> QED
      BY <1>2, <2>1 DEF OnRomM
  <1> QED
    BY <1>1, <1>3

LEMMA RotDeleted == ASSUME ConstAssumption, IndInv, RotInv, RotateDelete PROVE RotInv'
  <1>1. ASSUME NEW p \in People
        PROVE  IsFiniteSet(OnRomM(p)') /\ IsOrder(older'[p], OnRomM(p)')
    <2>1. IsFiniteSet(OnRomM(p)) /\ IsOrder(older[p], OnRomM(p))
      BY DEF RotInv, Ordered
    <2>2. CASE p = current
      <3>1. OnRomM(p)' = OnRomM(p) \ wtodo
        BY <2>2, DeletedIs
      <3>2. older'[p] = {e \in older[p] : e[1] \notin wtodo /\ e[2] \notin wtodo}
        BY <2>2, DeletedIs
      <3>3. IsFiniteSet(OnRomM(p)')
        <4>1. OnRomM(p) \ wtodo \in SUBSET OnRomM(p)
          OBVIOUS
        <4> QED
          BY <2>1, <3>1, <4>1, FS_Subset
      <3>4. IsOrder(older'[p], OnRomM(p)')
        <4>1. IsOrder({e \in older[p] : e[1] \notin wtodo /\ e[2] \notin wtodo},
                      OnRomM(p) \ wtodo)
          BY <2>1, TakeOut
        <4> QED
          BY <3>1, <3>2, <4>1
      <3> QED
        BY <3>3, <3>4
    <2>3. CASE p # current
      BY <2>1, <2>3, DeletedIs
    <2> QED
      BY <2>2, <2>3
  <1>2. Ordered'
    BY <1>1 DEF Ordered
  <1> QED
    BY <1>2 DEF RotateDelete, RotInv, SendsBytes, DoomedOld

LEMMA RotWorker == ASSUME ConstAssumption, IndInv, RotInv, Worker PROVE RotInv'
  <1> USE DEF disk, romm, qvars, memory, person, link, frame
  <1>1. CASE Take
    <2>1. /\ UNCHANGED <<server, older, current>> /\ wpc' = "read"
      BY <1>1 DEF Take
    <2> QED
      BY <2>1 DEF RotInv, Ordered, OnRomM, SendsBytes, DoomedOld
  <1>2. CASE Read
    <2>1. /\ UNCHANGED <<server, older, current>> /\ wpc' \in {"clear", "finish", "send"}
      BY <1>2 DEF Read
    <2>2. SendsBytes'
      <3> SUFFICES ASSUME wpc' = "send", job'.item \in File PROVE job'.ver > 0
        BY DEF SendsBytes
      <3>1. job' = [job EXCEPT !.ver = IF job.ver = 0 THEN Disk(job.who, job.item)
                                       ELSE job.ver]
        BY <1>2 DEF Read
      <3>2. job'.item = job.item
            /\ job'.ver = IF job.ver = 0 THEN Disk(job.who, job.item) ELSE job.ver
        BY <3>1 DEF IndInv, TypeOK, Job
      <3>3. job.item \notin Lists
        BY <3>2 DEF ConstAssumption, File
      <3> QED
        BY <1>2, <3>2, <3>3 DEF Read
    <2> QED
      BY <2>1, <2>2 DEF RotInv, Ordered, OnRomM, DoomedOld
  <1>3. CASE Unreachable \/ AnswerLost \/ ServerError \/ Refuse \/ NoteRefused \/ Park
             \/ Answered \/ ClearOwed \/ CountOff
    <2>1. /\ UNCHANGED <<server, older, job, wtodo, current>>
          /\ wpc' \notin {"send", "delete"}
      BY <1>3 DEF Unreachable, AnswerLost, ServerError, Fail, Refuse, NoteRefused, Park,
                  Answered, ClearOwed, CountOff
    <2> QED
      BY <2>1, RotKept
  <1>4. CASE Finish \/ \E i \in Item : WorkerResend(i)
    <2>1. /\ UNCHANGED <<server, older, job, current>> /\ wpc' \notin {"send", "delete"}
      BY <1>4 DEF Finish, WorkerResend
    <2> QED
      BY <2>1 DEF RotInv, Ordered, OnRomM, SendsBytes, DoomedOld
  <1>5. CASE RotateFails \/ RotateAnswered \/ RotateAnswerLost
             \/ \E s \in States : RotateErase(s)
    <2>1. /\ UNCHANGED <<server, older, job, current>> /\ wpc' \notin {"send", "delete"}
      BY <1>5 DEF RotateFails, RotateAnswered, RotateAnswerLost, RotateErase
    <2> QED
      BY <2>1 DEF RotInv, Ordered, OnRomM, SendsBytes, DoomedOld
  <1> QED
    BY <1>1, <1>2, <1>3, <1>4, <1>5, RotDeliver, RotListed, RotDeleted DEF Worker

\* A state of another device comes last, and is not one of those to go.
LEMMA RotForeign ==
    ASSUME ConstAssumption, IndInv, RotInv, NEW p \in People, NEW s \in States,
           ForeignState(p, s)
    PROVE  RotInv'
  <1> TypeOK /\ Ordered /\ DoomedOld
    BY DEF IndInv, RotInv
  <1>1. /\ UNCHANGED <<wpc, job, wtodo, current>>
        /\ server' = [server EXCEPT ![p][s] = 1] /\ server[p][s] = 0
        /\ older' = Updated(p, s)
    BY DEF ForeignState, worker, person
  <1>2. ASSUME NEW q \in People
        PROVE  OnRomM(q)' = IF q = p THEN OnRomM(q) \cup {s} ELSE OnRomM(q)
    <2>1. ASSUME NEW t \in States
          PROVE  server'[q][t] = IF q = p /\ t = s THEN 1 ELSE server[q][t]
      BY <1>1 DEF TypeOK, File, Item
    <2> QED
      BY <2>1 DEF OnRomM
  <1>3. Ordered'
    BY <1>1, <1>2, OrderedUpdated
  <1>4. SendsBytes'
    BY <1>1 DEF RotInv, SendsBytes
  <1>5. DoomedOld'
    <2> SUFFICES ASSUME wpc = "delete"
                 PROVE  /\ job.item \notin wtodo /\ wtodo \subseteq OnRomM(current)'
                        /\ \A d \in wtodo :
                              Cardinality(After(older'[current], d, OnRomM(current)' \ wtodo))
                                  >= Kept
      BY <1>1 DEF DoomedOld
    <2>1. current \in People
      BY DEF TypeOK
    <2>2. job.item \notin wtodo /\ wtodo \subseteq OnRomM(current)'
      BY <1>1, <1>2, <2>1 DEF DoomedOld
    <2>3. ASSUME NEW d \in wtodo
          PROVE  Cardinality(After(older'[current], d, OnRomM(current)' \ wtodo)) >= Kept
      <3> DEFINE was == After(older[current], d, OnRomM(current) \ wtodo)
                 is  == After(older'[current], d, OnRomM(current)' \ wtodo)
      <3>1. Cardinality(was) >= Kept
        BY DEF DoomedOld
      <3>2. IsFiniteSet(is)
        <4>1. is \in SUBSET OnRomM(current)'
          BY DEF After
        <4>2. IsFiniteSet(OnRomM(current)')
          BY <1>1, <1>3, <2>1 DEF Ordered
        <4> QED
          BY <4>1, <4>2, FS_Subset
      <3>3. was \in SUBSET is
        <4> SUFFICES ASSUME NEW t \in was PROVE t \in is
          OBVIOUS
        <4>1. t \in OnRomM(current) \ wtodo /\ <<d, t>> \in older[current]
          BY DEF After
        <4>2. t \in OnRomM(current)' \ wtodo
          BY <1>1, <1>2, <2>1, <4>1
        <4>3. current = p => s \notin {d, t}
          BY <1>1, <4>1 DEF DoomedOld, OnRomM
        <4>4. <<d, t>> \in older'[current]
          BY <1>1, <2>1, <4>1, <4>3 DEF Updated, TypeOK
        <4> QED
          BY <4>2, <4>4 DEF After
      <3>4. Cardinality(was) \in Nat /\ Cardinality(is) \in Nat
            /\ Cardinality(was) <= Cardinality(is)
        <4>1. IsFiniteSet(was)
          BY <3>2, <3>3, FS_Subset
        <4> QED
          BY <3>2, <3>3, <4>1, FS_Subset, FS_CardinalityType
      <3> QED
        BY <3>1, <3>4 DEF ConstAssumption
    <2> QED
      BY <2>2, <2>3
  <1> QED
    BY <1>3, <1>4, <1>5 DEF RotInv

LEMMA RotOutside ==
    ASSUME ConstAssumption, IndInv, RotInv, Process \/ Environment PROVE RotInv'
  <1> USE DEF disk, romm, qvars, memory, person, worker, frame, link
  <1>1. CASE Crash \/ Drained
    <2>1. /\ UNCHANGED <<server, older, job, current>> /\ wpc' = "idle"
      BY <1>1 DEF Crash, Drained, NewProcess
    <2> QED
      BY <2>1 DEF RotInv, Ordered, OnRomM, SendsBytes, DoomedOld
  <1>2. CASE Quit \/ ServerGoes \/ ServerReturns \/ Reconnect
    <2>1. UNCHANGED <<server, older, job, wtodo, wpc, current>>
      BY <1>2 DEF Quit, ServerGoes, ServerReturns, Reconnect
    <2> QED
      BY <2>1, RotKept
  <1> QED
    BY <1>1, <1>2, RotForeign DEF Process, Environment

\* The invariant of the rotation, beside that of the queue.
THEOREM RotationInvariant == Spec => [](IndInv /\ RotInv)
  <1>1. Init => IndInv /\ RotInv
    BY IndInit, RotInit, ConstAssumption
  <1>2. IndInv /\ RotInv /\ [Next]_vars => (IndInv /\ RotInv)'
    <2> SUFFICES ASSUME IndInv, RotInv, [Next]_vars PROVE RotInv'
      BY IndStep, ConstAssumption
    <2>1. CASE Next
      BY <2>1, RotFrame, RotWorker, RotOutside, ConstAssumption DEF Next
    <2>2. CASE UNCHANGED vars
      BY <2>2, RotKept DEF vars, romm, worker, person
    <2> QED
      BY <2>1, <2>2
  <1> QED
    BY <1>1, <1>2, PTL DEF Spec
\* Only a rotation takes a state off RomM.
LEMMA OnlyRotation ==
    ASSUME ConstAssumption, IndInv, RotInv, Next, ~RotateDelete, NEW p \in People
    PROVE  OnRomM(p) \subseteq OnRomM(p)'
  <1> USE DEF disk, romm, qvars, memory, person, worker, frame, link
  <1> TypeOK
    BY DEF IndInv
  <1>1. CASE Frame
    BY <1>1, FrameLeaves DEF OnRomM
  <1>2. CASE Deliver
    <2>1. /\ current \in People /\ job.item \in Item
          /\ server' = [server EXCEPT ![current][job.item] = job.ver]
      BY <1>2, KeysOfJob DEF TypeOK, Deliver
    <2>2. job.item \in States => job.ver > 0
      BY <1>2 DEF Deliver, RotInv, SendsBytes, File
    <2>3. ASSUME NEW s \in States
          PROVE  server'[p][s] = IF p = current /\ s = job.item THEN job.ver
                                 ELSE server[p][s]
      BY <2>1 DEF TypeOK, File, Item
    <2> QED
      BY <2>2, <2>3 DEF OnRomM
  <1>3. CASE Worker /\ ~Deliver
    <2>1. server' = server
      BY <1>3 DEF Worker, Take, Read, Unreachable, AnswerLost, ServerError, Fail, Refuse,
             NoteRefused, Park, Answered, ClearOwed, RotateList, RotateFails,
             RotateAnswered, RotateAnswerLost, RotateErase, Finish, WorkerResend, CountOff
    <2> QED
      BY <2>1 DEF OnRomM
  <1>4. CASE Process
    <2>1. server' = server
      BY <1>4 DEF Process, Crash, Drained, NewProcess, Quit
    <2> QED
      BY <2>1 DEF OnRomM
  <1>5. ASSUME NEW q \in People, NEW s \in States, ForeignState(q, s)
        PROVE  OnRomM(p) \subseteq OnRomM(p)'
    <2>1. \A t \in States : server'[p][t] = IF p = q /\ t = s THEN 1 ELSE server[p][t]
      BY <1>5 DEF ForeignState, TypeOK, File, Item
    <2> QED
      BY <2>1 DEF OnRomM
  <1>6. CASE ServerGoes \/ ServerReturns \/ Reconnect
    BY <1>6 DEF ServerGoes, ServerReturns, Reconnect, OnRomM
  <1> QED
    BY <1>1, <1>2, <1>3, <1>4, <1>5, <1>6 DEF Next, Environment

\* A state that goes off RomM has Kept newer ones that stay there, and is not the
\* one just sent, whatever other devices save meanwhile (uploader.cpp, rotate).
THEOREM RotationKeepsNewest == Spec => RotationKeeps
  <1>1. ASSUME IndInv, RotInv, [Next]_vars,
               NEW p \in People, NEW s \in OnRomM(p) \ OnRomM(p)'
        PROVE  /\ s # job.item
               /\ Cardinality({t \in OnRomM(p)' : <<s, t>> \in older[p]}) >= Kept
    <2>1. CASE RotateDelete
      <3>1. p = current /\ s \in wtodo /\ OnRomM(p)' = OnRomM(p) \ wtodo
        BY <1>1, <2>1, DeletedIs
      <3>2. wpc = "delete" /\ DoomedOld
        BY <1>1, <2>1 DEF RotateDelete, RotInv
      <3>3. /\ s # job.item
            /\ Cardinality(After(older[p], s, OnRomM(p) \ wtodo)) >= Kept
        BY <3>1, <3>2 DEF DoomedOld
      <3>4. {t \in OnRomM(p)' : <<s, t>> \in older[p]} = After(older[p], s, OnRomM(p) \ wtodo)
        BY <3>1 DEF After
      <3> QED
        BY <3>3, <3>4
    <2>2. CASE Next /\ ~RotateDelete
      BY <1>1, <2>2, OnlyRotation, ConstAssumption
    <2>3. CASE UNCHANGED vars
      BY <1>1, <2>3 DEF vars, romm, OnRomM
    <2> QED
      BY <1>1, <2>1, <2>2, <2>3
  <1>2. IndInv /\ RotInv /\ [Next]_vars
          => [\A p \in People : \A s \in OnRomM(p) \ OnRomM(p)' :
                /\ s # job.item
                /\ Cardinality({t \in OnRomM(p)' : <<s, t>> \in older[p]}) >= Kept]_vars
    BY <1>1
  <1> QED
    BY <1>2, RotationInvariant, PTL DEF Spec, RotationKeeps

-----------------------------------------------------------------------------
(* Who is which player. *)

SeatOf == [pad : Pad!Pads, on : BOOLEAN]

\* Outside a game no seat is held and no pad is expected back.
Settled == ~padInGame
      => (\A k \in Pad!Kind : Pad!Held(padSeats[k]) = {}) /\ \A p \in Pad!Pads : padHad[p] = 0

\* What is in a kind's seats: the pads of that kind, in a seat each, but those
\* that are not known again may have left seats held as well.
SeatsOk(s, k, o) ==
    /\ s \in Seq(SeatOf) /\ Len(s) <= Seats
    /\ \A n \in 1 .. Len(s) : Pad!Of(s[n].pad) = k /\ (s[n].on => s[n].pad \in o)
    /\ \A m, n \in 1 .. Len(s) :
          s[m].pad = s[n].pad /\ (s[m].pad \notin Keyless \/ (s[m].on /\ s[n].on)) => m = n

\* The number a pad had is that of the seat held for it.
Had(s, o, n, p) ==
    n # 0 => /\ p \notin o /\ p \notin Keyless
             /\ n \in Pad!Held(s) /\ s[n].pad = p

PadsInv ==
    /\ Pad!TypeOK /\ padSeats \in [Pad!Kind -> Seq(SeatOf)] /\ Settled
    /\ \A k \in Pad!Kind : SeatsOk(padSeats[k], k, padOn)
    /\ \A p \in Pad!Pads : Had(padSeats[Pad!Of(p)], padOn, padHad[p], p)

LEMMA LeastIs ==
    ASSUME NEW T \in SUBSET Nat, T # {}
    PROVE  Pad!Min(T) \in T /\ \A n \in T : Pad!Min(T) <= n
  BY LeastOf DEF Pad!Min

LEMMA PadKind == ASSUME NEW p \in Pad!Pads PROVE Pad!Of(p) \in Pad!Kind
  BY DEF Pad!Of, Pad!Kind

LEMMA SeatIs ==
    ASSUME NEW p \in Pad!Pads
    PROVE  Pad!Seat(p) \in SeatOf /\ Pad!Seat(p).pad = p /\ Pad!Seat(p).on = TRUE
  BY DEF Pad!Seat, SeatOf

LEMMA SeatEq ==
    ASSUME NEW t \in SeatOf, NEW p
    PROVE  t = Pad!Seat(p) <=> t.pad = p /\ t.on
  BY DEF Pad!Seat, SeatOf

LEMMA HeldIs ==
    ASSUME NEW s \in Seq(SeatOf)
    PROVE  Pad!Held(s) \in SUBSET Nat /\ Pad!Held(s) \subseteq 1 .. Len(s)
  BY DEF Pad!Held

\* A pad's number is that of its first seat, or 0.
LEMMA PlayerIs ==
    ASSUME NEW s \in Seq(SeatOf), NEW p \in Pad!Pads
    PROVE  \/ Pad!PlayerOf(s, p) = 0 /\ \A n \in 1 .. Len(s) : s[n] # Pad!Seat(p)
           \/ /\ Pad!PlayerOf(s, p) \in 1 .. Len(s) /\ s[Pad!PlayerOf(s, p)] = Pad!Seat(p)
              /\ \A n \in 1 .. Len(s) : s[n] = Pad!Seat(p) => Pad!PlayerOf(s, p) <= n
  <1> DEFINE at == {n \in 1 .. Len(s) : s[n] = Pad!Seat(p)}
  <1>1. Pad!PlayerOf(s, p) = IF at = {} THEN 0 ELSE Pad!Min(at)
    BY DEF Pad!PlayerOf
  <1>2. CASE at = {}
    BY <1>1, <1>2
  <1>3. CASE at # {}
    <2>1. Pad!Min(at) \in at /\ \A n \in at : Pad!Min(at) <= n
      <3>1. at \in SUBSET Nat
        OBVIOUS
      <3> HIDE DEF at
      <3> QED
        BY <1>3, <3>1, LeastIs
    <2> QED
      BY <1>1, <1>3, <2>1
  <1> QED
    BY <1>2, <1>3

\* A pad in the same seats has the same number.
LEMMA SamePlayer ==
    ASSUME NEW s, NEW r, NEW p,
           {n \in 1 .. Len(s) : s[n] = Pad!Seat(p)} = {n \in 1 .. Len(r) : r[n] = Pad!Seat(p)}
    PROVE  Pad!PlayerOf(r, p) = Pad!PlayerOf(s, p)
  BY DEF Pad!PlayerOf

OwnHeld(s, p) == {n \in Pad!Held(s) : s[n].pad = p /\ p \notin Keyless}

LEMMA AddIs ==
    ASSUME Pad!PadsAssumption, NEW s \in Seq(SeatOf), Len(s) <= Seats, NEW p \in Pad!Pads
    PROVE  \/ Pad!Add(s, p) = s /\ Pad!Held(s) = {} /\ Len(s) = Seats
           \/ Pad!Add(s, p) = Append(s, Pad!Seat(p)) /\ Len(s) < Seats /\ OwnHeld(s, p) = {}
           \/ \E n \in Pad!Held(s) :
                /\ Pad!Add(s, p) = [s EXCEPT ![n] = Pad!Seat(p)]
                /\ n \in OwnHeld(s, p) \/ (OwnHeld(s, p) = {} /\ Len(s) = Seats)
  <1> DEFINE own == OwnHeld(s, p)
             at  == IF own # {} THEN own ELSE IF Len(s) < Seats THEN {} ELSE Pad!Held(s)
  <1>1. Pad!Add(s, p) = CASE at # {}                    -> [s EXCEPT ![Pad!Min(at)] = Pad!Seat(p)]
                      [] at = {} /\ Len(s) < Seats  -> Append(s, Pad!Seat(p))
                      [] OTHER                      -> s
    BY DEF Pad!Add, OwnHeld
  <1>2. own \in SUBSET Nat /\ own \subseteq Pad!Held(s) /\ at \in SUBSET Nat /\ Len(s) \in Nat
    BY HeldIs DEF OwnHeld
  <1>3. Len(s) < Seats \/ Len(s) = Seats
    BY <1>2 DEF Pad!PadsAssumption
  <1>4. CASE at # {}
    <2>1. Pad!Min(at) \in at
      <3> HIDE DEF at
      <3> QED
        BY <1>2, <1>4, LeastIs
    <2>2. Pad!Add(s, p) = [s EXCEPT ![Pad!Min(at)] = Pad!Seat(p)]
      <3> HIDE DEF at
      <3> QED
        BY <1>1, <1>4
    <2>3. Pad!Min(at) \in Pad!Held(s) /\ (Pad!Min(at) \in own \/ (own = {} /\ Len(s) = Seats))
      BY <1>2, <1>3, <2>1
    <2> QED
      BY <2>2, <2>3
  <1>5. CASE at = {} /\ Len(s) < Seats
    <2>1. own = {}
      BY <1>5
    <2>2. Pad!Add(s, p) = Append(s, Pad!Seat(p))
      <3> HIDE DEF at
      <3> QED
        BY <1>1, <1>5
    <2> QED
      BY <1>5, <2>1, <2>2
  <1>6. CASE at = {} /\ ~(Len(s) < Seats)
    <2>1. Pad!Held(s) = {} /\ Len(s) = Seats
      BY <1>2, <1>3, <1>6
    <2>2. Pad!Add(s, p) = s
      <3> HIDE DEF at
      <3> QED
        BY <1>1, <1>6
    <2> QED
      BY <2>1, <2>2
  <1> QED
    BY <1>4, <1>5, <1>6

LEMMA AddKeeps ==
    ASSUME Pad!PadsAssumption, NEW p \in Pad!Pads, NEW o, p \notin o,
           NEW s, SeatsOk(s, Pad!Of(p), o)
    PROVE  /\ SeatsOk(Pad!Add(s, p), Pad!Of(p), o \cup {p})
           /\ Pad!Held(s) = {} => Pad!Held(Pad!Add(s, p)) = {}
  <1> DEFINE r == Pad!Add(s, p)
  <1> s \in Seq(SeatOf) /\ Len(s) <= Seats /\ Len(s) \in Nat
    BY DEF SeatsOk
  <1>1. Pad!Seat(p) \in SeatOf /\ Pad!Seat(p).pad = p /\ Pad!Seat(p).on = TRUE
    BY SeatIs
  <1>2. \A n \in 1 .. Len(s) : s[n].pad = p => ~s[n].on
    BY DEF SeatsOk
  <1>3. CASE r = s
    BY <1>3 DEF SeatsOk
  <1>4. CASE r = Append(s, Pad!Seat(p)) /\ Len(s) < Seats /\ OwnHeld(s, p) = {}
    <2>1. /\ r \in Seq(SeatOf) /\ Len(r) = Len(s) + 1 /\ r[Len(r)] = Pad!Seat(p)
          /\ \A n \in 1 .. Len(s) : r[n] = s[n]
      BY <1>1, <1>4
    <2>2. \A n \in 1 .. Len(r) : n = Len(r) \/ n \in 1 .. Len(s)
      BY <2>1
    <2>3. \A n \in 1 .. Len(s) : s[n].pad = p => p \in Keyless
      BY <1>2, <1>4 DEF OwnHeld, Pad!Held
    <2>4. Len(r) <= Seats
      BY <1>4, <2>1 DEF Pad!PadsAssumption
    <2>5. \A n \in 1 .. Len(r) : Pad!Of(r[n].pad) = Pad!Of(p) /\ (r[n].on
          => r[n].pad \in o \cup {p})
      BY <1>1, <2>1, <2>2 DEF SeatsOk
    <2>6. ASSUME NEW m \in 1 .. Len(r), NEW n \in 1 .. Len(r), r[m].pad = r[n].pad,
                 r[m].pad \notin Keyless \/ (r[m].on /\ r[n].on)
          PROVE  m = n
      <3>1. CASE m \in 1 .. Len(s) /\ n \in 1 .. Len(s)
        BY <2>1, <2>6, <3>1 DEF SeatsOk
      <3>2. CASE m = Len(r) /\ n \in 1 .. Len(s)
        BY <1>1, <1>2, <2>1, <2>3, <2>6, <3>2
      <3>3. CASE n = Len(r) /\ m \in 1 .. Len(s)
        BY <1>1, <1>2, <2>1, <2>3, <2>6, <3>3
      <3> QED
        BY <2>2, <3>1, <3>2, <3>3
    <2>7. Pad!Held(s) = {} => Pad!Held(r) = {}
      BY <1>1, <2>1, <2>2 DEF Pad!Held
    <2> QED
      BY <2>1, <2>4, <2>5, <2>6, <2>7 DEF SeatsOk
  <1>5. ASSUME NEW x \in Pad!Held(s), r = [s EXCEPT ![x] = Pad!Seat(p)],
               x \in OwnHeld(s, p) \/ (OwnHeld(s, p) = {} /\ Len(s) = Seats)
        PROVE  SeatsOk(r, Pad!Of(p), o \cup {p}) /\ Pad!Held(s) # {}
    <2>1. x \in 1 .. Len(s)
      BY DEF Pad!Held
    <2>2. /\ r \in Seq(SeatOf) /\ Len(r) = Len(s) /\ r[x] = Pad!Seat(p)
          /\ \A n \in 1 .. Len(s) : n # x => r[n] = s[n]
      BY <1>1, <1>5, <2>1
    <2>3. \A n \in 1 .. Len(s) : n # x /\ s[n].pad = p => p \in Keyless
      <3>1. CASE x \in OwnHeld(s, p)
        BY <3>1, <2>1 DEF OwnHeld, SeatsOk
      <3>2. CASE OwnHeld(s, p) = {}
        BY <1>2, <3>2 DEF OwnHeld, Pad!Held
      <3> QED
        BY <1>5, <3>1, <3>2
    <2>4. \A n \in 1 .. Len(r) : Pad!Of(r[n].pad) = Pad!Of(p) /\ (r[n].on
          => r[n].pad \in o \cup {p})
      BY <1>1, <2>2 DEF SeatsOk
    <2>5. ASSUME NEW m \in 1 .. Len(r), NEW n \in 1 .. Len(r), r[m].pad = r[n].pad,
                 r[m].pad \notin Keyless \/ (r[m].on /\ r[n].on)
          PROVE  m = n
      <3>1. CASE m # x /\ n # x
        BY <2>2, <2>5, <3>1 DEF SeatsOk
      <3>2. CASE m = x /\ n # x
        BY <1>1, <1>2, <2>2, <2>3, <2>5, <3>2
      <3>3. CASE n = x /\ m # x
        BY <1>1, <1>2, <2>2, <2>3, <2>5, <3>3
      <3> QED
        BY <3>1, <3>2, <3>3
    <2> QED
      BY <2>2, <2>4, <2>5 DEF SeatsOk
  <1> HIDE DEF r
  <1>6. r = Pad!Add(s, p)
    BY DEF r
  <1> QED
    BY <1>3, <1>4, <1>5, <1>6, AddIs

Off(p) == [pad |-> p, on |-> FALSE]

LEMMA RemoveIs ==
    ASSUME NEW s \in Seq(SeatOf), NEW p \in Pad!Pads
    PROVE  LET n    == Pad!PlayerOf(s, p)
               left == [s EXCEPT ![n] = Off(p)]
           IN  \/ n = 0 /\ Pad!Remove(s, p) = s
               \/ n # 0 /\ ~padInGame /\ Pad!Remove(s, p) = Pad!CloseUp(s, p)
               \/ n # 0 /\ padInGame /\ Pad!Held(left) = 1 .. Len(s) /\ Pad!Remove(s, p) = <<>>
               \/ n # 0 /\ padInGame /\ Pad!Held(left) # 1 .. Len(s) /\ Pad!Remove(s, p) = left
  <1> DEFINE n    == Pad!PlayerOf(s, p)
             left == [s EXCEPT ![n].on = FALSE]
  <1>1. Pad!Remove(s, p) =
            CASE n = 0                                -> s
              [] n # 0 /\ ~padInGame                     -> Pad!CloseUp(s, p)
              [] n # 0 /\ padInGame /\ Pad!Held(left) = 1 .. Len(s) -> <<>>
              [] OTHER                                -> left
    BY DEF Pad!Remove
  <1>2. n # 0 => left = [s EXCEPT ![n] = Off(p)]
    <2> SUFFICES ASSUME n # 0 PROVE left = [s EXCEPT ![n] = Off(p)]
      OBVIOUS
    <2>1. n \in 1 .. Len(s) /\ s[n] = Pad!Seat(p)
      BY PlayerIs
    <2>2. [s[n] EXCEPT !.on = FALSE] = Off(p)
      <3> HIDE DEF n
      <3> DEFINE t == [s[n] EXCEPT !.on = FALSE]
      <3>1. s[n] \in SeatOf /\ s[n].pad = p
        BY <2>1, SeatIs
      <3>2. t \in SeatOf /\ t.pad = p /\ t.on = FALSE
        BY <3>1 DEF SeatOf
      <3> HIDE DEF t
      <3>3. t = Off(p)
        BY <3>2 DEF SeatOf, Off
      <3> QED
        BY <3>3 DEF t
    <2> HIDE DEF n
    <2> QED
      BY <2>1, <2>2
  <1> HIDE DEF n, left
  <1>3. CASE n = 0
    BY <1>1, <1>3 DEF n
  <1>4. CASE n # 0 /\ ~padInGame
    BY <1>1, <1>4 DEF n
  <1>5. CASE n # 0 /\ padInGame /\ Pad!Held(left) = 1 .. Len(s)
    <2>1. Pad!Remove(s, p) = <<>>
      BY <1>1, <1>5
    <2> QED
      BY <1>2, <1>5, <2>1 DEF n
  <1>6. CASE n # 0 /\ padInGame /\ Pad!Held(left) # 1 .. Len(s)
    <2>1. Pad!Remove(s, p) = left
      BY <1>1, <1>6
    <2> QED
      BY <1>2, <1>6, <2>1 DEF n
  <1> QED
    BY <1>3, <1>4, <1>5, <1>6

\* Seats closed up: of pads that are on, none of them twice.
LEMMA ChosenKeeps ==
    ASSUME Pad!PadsAssumption, NEW s, NEW k, NEW o, SeatsOk(s, k, o), NEW q
    PROVE  LET r == Pad!Chosen(s, {Pad!Seat(p) : p \in Pad!Pads \ q})
           IN  SeatsOk(r, k, o \ q) /\ Pad!Held(r) = {}
  <1> DEFINE S == {Pad!Seat(p) : p \in Pad!Pads \ q}
             r == Pad!Chosen(s, S)
  <1> s \in Seq(SeatOf) /\ Len(s) <= Seats
    BY DEF SeatsOk
  <1>1. r \in Seq(SeatOf) /\ IsChosen(r, s, S, Len(s))
    <2> HIDE DEF S
    <2>1. r = Chosen(s, S)
      BY DEF Pad!Chosen, Chosen
    <2> QED
      BY <2>1, ChosenIs
  <1>2. \A t \in S : t.pad \in Pad!Pads \ q /\ t.on = TRUE
    BY SeatIs
  <1> HIDE DEF S, r
  <1>3. ASSUME NEW i \in 1 .. Len(r)
        PROVE  /\ r[i].pad \in o \ q /\ r[i].on = TRUE /\ Pad!Of(r[i].pad) = k
    <2>1. PICK a \in 1 .. Len(s) : s[a] = r[i] /\ s[a] \in S
      BY <1>1 DEF IsChosen
    <2> QED
      BY <1>2, <2>1 DEF SeatsOk
  <1>4. ASSUME NEW i \in 1 .. Len(r), NEW j \in 1 .. Len(r), i < j, r[i].pad = r[j].pad
        PROVE  FALSE
    <2>1. PICK a, b \in 1 .. Len(s) : a < b /\ s[a] = r[i] /\ s[b] = r[j]
      BY <1>1, <1>4 DEF IsChosen
    <2>2. s[a].on /\ s[b].on
      BY <1>3, <2>1
    <2> QED
      BY <1>4, <2>1, <2>2 DEF SeatsOk
  <1>5. Len(r) <= Seats /\ Len(r) \in Nat
    BY <1>1 DEF IsChosen, Pad!PadsAssumption
  <1>6. \A i, j \in 1 .. Len(r) : r[i].pad = r[j].pad => i = j
    <2> SUFFICES ASSUME NEW i \in 1 .. Len(r), NEW j \in 1 .. Len(r), r[i].pad = r[j].pad
                 PROVE  i = j
      OBVIOUS
    <2> i < j \/ j < i \/ i = j
      BY <1>5
    <2> QED
      BY <1>4
  <1>7. SeatsOk(r, k, o \ q)
    BY <1>1, <1>3, <1>5, <1>6 DEF SeatsOk
  <1>8. Pad!Held(r) = {}
    BY <1>3 DEF Pad!Held
  <1> QED
    BY <1>7, <1>8 DEF r, S

LEMMA RemoveKeeps ==
    ASSUME Pad!PadsAssumption, NEW p \in Pad!Pads, NEW o, NEW s, SeatsOk(s, Pad!Of(p), o)
    PROVE  /\ SeatsOk(Pad!Remove(s, p), Pad!Of(p), o \ {p})
           /\ ~padInGame /\ Pad!Held(s) = {} => Pad!Held(Pad!Remove(s, p)) = {}
  <1> DEFINE n    == Pad!PlayerOf(s, p)
             left == [s EXCEPT ![n] = Off(p)]
  <1>s. s \in Seq(SeatOf) /\ Len(s) <= Seats /\ Len(s) \in Nat
    BY DEF SeatsOk
  <1>1. CASE n = 0 /\ Pad!Remove(s, p) = s
    <2>1. \A x \in 1 .. Len(s) : s[x] # Pad!Seat(p)
      BY <1>s, <1>1, PlayerIs
    <2>2. \A x \in 1 .. Len(s) : s[x] \in SeatOf
      BY <1>s
    <2> QED
      BY <1>s, <1>1, <2>1, <2>2, SeatEq DEF SeatsOk
  <1>2. CASE Pad!Remove(s, p) = Pad!CloseUp(s, p)
    <2>1. LET r == Pad!Chosen(s, {Pad!Seat(x) : x \in Pad!Pads \ {p}})
          IN  SeatsOk(r, Pad!Of(p), o \ {p}) /\ Pad!Held(r) = {}
      BY ChosenKeeps
    <2> QED
      BY <1>2, <2>1 DEF Pad!CloseUp
  <1>3. CASE padInGame /\ Pad!Remove(s, p) = <<>>
    BY <1>3 DEF SeatsOk, Pad!PadsAssumption
  <1>4. CASE n # 0 /\ padInGame /\ Pad!Remove(s, p) = left
    <2>1. n \in 1 .. Len(s) /\ s[n].pad = p /\ s[n].on
      BY <1>s, <1>4, PlayerIs, SeatIs
    <2>2. Off(p) \in SeatOf /\ Off(p).pad = p /\ Off(p).on = FALSE
      BY DEF Off, SeatOf
    <2> HIDE DEF n
    <2>3. /\ left \in Seq(SeatOf) /\ Len(left) = Len(s) /\ left[n] = Off(p)
          /\ \A m \in 1 .. Len(s) : m # n => left[m] = s[m]
      BY <1>s, <2>1, <2>2
    <2> HIDE DEF left
    <2>4. \A m \in 1 .. Len(s) : m # n /\ s[m].on => s[m].pad # p
      BY <2>1 DEF SeatsOk
    <2>5. \A m \in 1 .. Len(s) : left[m].pad = s[m].pad /\ (left[m].on => s[m].on /\ m # n)
      BY <2>1, <2>2, <2>3
    <2>6. \A m \in 1 .. Len(left) : 
             Pad!Of(left[m].pad) = Pad!Of(p) /\ (left[m].on => left[m].pad \in o \ {p})
      BY <2>3, <2>4, <2>5 DEF SeatsOk
    <2>7. \A a, b \in 1 .. Len(left) :
             left[a].pad = left[b].pad
             /\ (left[a].pad \notin Keyless \/ (left[a].on /\ left[b].on)) => a = b
      BY <2>3, <2>5 DEF SeatsOk
    <2>8. SeatsOk(left, Pad!Of(p), o \ {p})
      BY <1>s, <2>3, <2>6, <2>7 DEF SeatsOk
    <2> QED
      BY <1>4, <2>8
  <1>5. \/ n = 0 /\ Pad!Remove(s, p) = s
        \/ n # 0 /\ ~padInGame /\ Pad!Remove(s, p) = Pad!CloseUp(s, p)
        \/ n # 0 /\ padInGame /\ Pad!Held(left) = 1 .. Len(s) /\ Pad!Remove(s, p) = <<>>
        \/ n # 0 /\ padInGame /\ Pad!Held(left) # 1 .. Len(s) /\ Pad!Remove(s, p) = left
    BY <1>s, RemoveIs
  <1> HIDE DEF n, left
  <1> QED
    BY <1>1, <1>2, <1>3, <1>4, <1>5

LEMMA SwapKeeps ==
    ASSUME Pad!PadsAssumption, NEW k, NEW o, NEW s, SeatsOk(s, k, o), NEW a, NEW b
    PROVE  /\ SeatsOk(Pad!Swapped(s, a, b), k, o)
           /\ padInGame => Pad!Swapped(s, a, b) = s
           /\ Pad!Held(s) = {} => Pad!Held(Pad!Swapped(s, a, b)) = {}
  <1> DEFINE r == [s EXCEPT ![a] = s[b], ![b] = s[a]]
  <1>1. CASE ~padInGame /\ {a, b} \subseteq 1 .. Len(s) \ Pad!Held(s)
    <2>1. Pad!Swapped(s, a, b) = r
      BY <1>1 DEF Pad!Swapped
    <2>2. /\ r \in Seq(SeatOf) /\ Len(r) = Len(s)
          /\ \A n \in 1 .. Len(s) :
                r[n] = IF n = b THEN s[a] ELSE IF n = a THEN s[b] ELSE s[n]
      BY <1>1 DEF SeatsOk
    <2> HIDE DEF r
    <2>3. \A m, n \in 1 .. Len(r) :
             r[m].pad = r[n].pad
             /\ (r[m].pad \notin Keyless \/ (r[m].on /\ r[n].on)) => m = n
      BY <1>1, <2>2 DEF SeatsOk
    <2>4. SeatsOk(r, k, o)
      BY <1>1, <2>2, <2>3 DEF SeatsOk
    <2>5. Pad!Held(s) = {} => Pad!Held(r) = {}
      BY <1>1, <2>2 DEF Pad!Held
    <2> QED
      BY <1>1, <2>1, <2>4, <2>5
  <1>2. CASE ~(~padInGame /\ {a, b} \subseteq 1 .. Len(s) \ Pad!Held(s))
    BY <1>2 DEF Pad!Swapped
  <1> QED
    BY <1>1, <1>2

\* The parts of the invariant that a step makes up from its parts.
LEMMA InvIs ==
    ASSUME Pad!PadsAssumption,
           padOn \subseteq Pad!Pads, padSeats \in [Pad!Kind -> Seq(SeatOf)],
           \A k \in Pad!Kind : SeatsOk(padSeats[k], k, padOn),
           padInGame \in BOOLEAN, padStreaming \in BOOLEAN,
           padAsk # None => padAsk.pad \in Pad!Pads
                 /\ padAsk.numbers \subseteq 1 .. Seats \ {padAsk.me},
           padHad \in [Pad!Pads -> 0 .. Seats], Settled,
           \A p \in Pad!Pads : Had(padSeats[Pad!Of(p)], padOn, padHad[p], p)
    PROVE  PadsInv
  <1>1. Pad!TypeOK
    BY DEF Pad!TypeOK, SeatsOk
  <1> QED
    BY <1>1 DEF PadsInv

LEMMA PadsStart == ASSUME Pad!PadsAssumption, Pad!Init PROVE PadsInv
  <1>1. <<>> \in Seq(SeatOf) /\ Len(<<>>) = 0 /\ Pad!Held(<<>>) = {}
    BY DEF Pad!Held
  <1>2. \A k \in Pad!Kind : padSeats[k] = <<>>
    BY DEF Pad!Init
  <1>3. padSeats \in [Pad!Kind -> Seq(SeatOf)]
    BY <1>1 DEF Pad!Init
  <1>4. \A k \in Pad!Kind : SeatsOk(padSeats[k], k, padOn)
    <2> SUFFICES ASSUME NEW k \in Pad!Kind PROVE SeatsOk(<<>>, k, padOn)
      BY <1>2
    <2>1. 1 .. Len(<<>>) = {} /\ Len(<<>>) <= Seats
      BY <1>1 DEF Pad!PadsAssumption
    <2> QED
      BY <1>1, <2>1 DEF SeatsOk
  <1>5. \A p \in Pad!Pads : padHad[p] = 0
    BY DEF Pad!Init
  <1>6. Settled
    BY <1>1, <1>2, <1>5 DEF Settled
  <1>7. padHad \in [Pad!Pads -> 0 .. Seats]
    BY DEF Pad!Init, Pad!PadsAssumption
  <1> QED
    BY <1>3, <1>4, <1>5, <1>6, <1>7, InvIs DEF Pad!Init, Had

\* A pad that is on, when no other was, has the seat it was given.
LEMMA PadOnIs ==
    ASSUME Pad!PadsAssumption, PadsInv, NEW p \in Pad!Pads, Pad!PadOn(p)
    PROVE  LET s == padSeats[Pad!Of(p)]
               r == padSeats'[Pad!Of(p)]
           IN  /\ s \in Seq(SeatOf) /\ r \in Seq(SeatOf) /\ Len(s) <= Seats
               /\ padSeats' = [padSeats EXCEPT ![Pad!Of(p)] = r]
               /\ r = Pad!Add(s, p)
               /\ \A n \in 1 .. Len(s) : s[n] # Pad!Seat(p)
               /\ SeatsOk(r, Pad!Of(p), padOn') /\ (Pad!Held(s) = {} => Pad!Held(r) = {})
  <1>1. Pad!Of(p) \in Pad!Kind
    BY PadKind
  <1>2. padSeats' = [padSeats EXCEPT ![Pad!Of(p)] = Pad!Add(padSeats[Pad!Of(p)], p)]
        /\ padOn' = padOn \cup {p}
    BY DEF Pad!PadOn
  <1>3. padSeats'[Pad!Of(p)] = Pad!Add(padSeats[Pad!Of(p)], p)
    BY <1>1, <1>2 DEF PadsInv
  <1>4. p \notin padOn /\ SeatsOk(padSeats[Pad!Of(p)], Pad!Of(p), padOn)
    BY <1>1 DEF Pad!PadOn, PadsInv
  <1>5. \A n \in 1 .. Len(padSeats[Pad!Of(p)]) : padSeats[Pad!Of(p)][n] # Pad!Seat(p)
    BY <1>4, SeatIs DEF SeatsOk
  <1>6. /\ SeatsOk(Pad!Add(padSeats[Pad!Of(p)], p), Pad!Of(p), padOn')
        /\ Pad!Held(padSeats[Pad!Of(p)]) = {} => Pad!Held(Pad!Add(padSeats[Pad!Of(p)], p)) = {}
    BY <1>2, <1>4, AddKeeps
  <1>7. /\ padSeats[Pad!Of(p)] \in Seq(SeatOf) /\ Pad!Add(padSeats[Pad!Of(p)], p) \in Seq(SeatOf)
        /\ Len(padSeats[Pad!Of(p)]) <= Seats
    BY <1>4, <1>6 DEF SeatsOk
  <1> HIDE DEF PadsInv
  <1> QED
    BY <1>2, <1>3, <1>5, <1>6, <1>7

\* What becomes of another's seat, or of the one that is held for it.
LEMMA AddMoves ==
    ASSUME Pad!PadsAssumption, NEW p \in Pad!Pads, NEW s \in Seq(SeatOf), Len(s) <= Seats,
           \A n \in 1 .. Len(s) : s[n] # Pad!Seat(p)
    PROVE  /\ \A q \in Pad!Pads \ {p} : Pad!PlayerOf(Pad!Add(s, p), q) = Pad!PlayerOf(s, q)
           /\ \A n \in Pad!Held(s) :
                \/ n \in Pad!Held(Pad!Add(s, p)) /\ Pad!Add(s, p)[n] = s[n]
                \/ /\ n = Pad!PlayerOf(Pad!Add(s, p), p)
                   /\ Len(s) = Seats \/ s[n].pad = p
           /\ \A n \in OwnHeld(s, p) :
                 Pad!PlayerOf(Pad!Add(s, p), p) \in OwnHeld(s, p)
  <1> DEFINE r == Pad!Add(s, p)
  <1>1. Pad!Seat(p) \in SeatOf /\ Pad!Seat(p).pad = p /\ Pad!Seat(p).on = TRUE
    BY SeatIs
  <1>n. Len(s) \in Nat
    OBVIOUS
  <1>2. \A q \in Pad!Pads \ {p} : Pad!Seat(q) # Pad!Seat(p)
    BY SeatIs
  <1>3. CASE r = s /\ Pad!Held(s) = {}
    BY <1>3 DEF OwnHeld
  <1>4. CASE r = Append(s, Pad!Seat(p)) /\ OwnHeld(s, p) = {}
    <2>1. /\ Len(r) = Len(s) + 1 /\ r[Len(r)] = Pad!Seat(p)
          /\ \A n \in 1 .. Len(s) : r[n] = s[n] /\ n \in 1 .. Len(r)
      BY <1>1, <1>4
    <2>2. \A n \in 1 .. Len(r) : n = Len(r) \/ n \in 1 .. Len(s)
      BY <2>1
    <2> HIDE DEF r
    <2>3. ASSUME NEW q \in Pad!Pads \ {p}
          PROVE  Pad!PlayerOf(r, q) = Pad!PlayerOf(s, q)
      <3>1. {n \in 1 .. Len(s) : s[n] = Pad!Seat(q)} = {n \in 1 .. Len(r) : r[n] = Pad!Seat(q)}
        BY <1>2, <2>1, <2>2
      <3> QED
        BY <3>1, SamePlayer
    <2>4. \A n \in Pad!Held(s) : n \in Pad!Held(r) /\ r[n] = s[n]
      BY <2>1 DEF Pad!Held
    <2> QED
      BY <1>4, <2>3, <2>4 DEF r
  <1>5. ASSUME NEW x \in Pad!Held(s), r = [s EXCEPT ![x] = Pad!Seat(p)],
               x \in OwnHeld(s, p) \/ (OwnHeld(s, p) = {} /\ Len(s) = Seats)
        PROVE  /\ \A q \in Pad!Pads \ {p} : Pad!PlayerOf(r, q) = Pad!PlayerOf(s, q)
               /\ \A n \in Pad!Held(s) :
                    \/ n \in Pad!Held(r) /\ r[n] = s[n]
                    \/ n = Pad!PlayerOf(r, p) /\ (Len(s) = Seats \/ s[n].pad = p)
               /\ \A n \in OwnHeld(s, p) : Pad!PlayerOf(r, p) \in OwnHeld(s, p)
    <2>1. x \in 1 .. Len(s) /\ ~s[x].on
      BY DEF Pad!Held
    <2>2. /\ r \in Seq(SeatOf) /\ Len(r) = Len(s) /\ r[x] = Pad!Seat(p)
          /\ \A n \in 1 .. Len(s) : n # x => r[n] = s[n]
      BY <1>1, <1>5, <2>1
    <2> HIDE DEF r
    <2>3. ASSUME NEW q \in Pad!Pads \ {p}
          PROVE  Pad!PlayerOf(r, q) = Pad!PlayerOf(s, q)
      <3>1. s[x] # Pad!Seat(q)
        BY <2>1, SeatIs
      <3>2. {n \in 1 .. Len(s) : s[n] = Pad!Seat(q)} = {n \in 1 .. Len(r) : r[n] = Pad!Seat(q)}
        BY <1>2, <2>2, <3>1
      <3> QED
        BY <3>2, SamePlayer
    <2>4. Pad!PlayerOf(r, p) = x
      <3>1. \A n \in 1 .. Len(r) : r[n] = Pad!Seat(p) => n = x
        BY <2>2
      <3> QED
        BY <2>1, <2>2, <3>1, PlayerIs
    <2>5. \A n \in Pad!Held(s) : n # x => n \in Pad!Held(r) /\ r[n] = s[n]
      BY <2>2 DEF Pad!Held
    <2> QED
      BY <1>5, <2>3, <2>4, <2>5 DEF OwnHeld
  <1>6. \/ r = s /\ Pad!Held(s) = {} /\ Len(s) = Seats
        \/ r = Append(s, Pad!Seat(p)) /\ Len(s) < Seats /\ OwnHeld(s, p) = {}
        \/ \E n \in Pad!Held(s) :
             /\ r = [s EXCEPT ![n] = Pad!Seat(p)]
             /\ n \in OwnHeld(s, p) \/ (OwnHeld(s, p) = {} /\ Len(s) = Seats)
    BY AddIs
  <1> HIDE DEF r
  <1>7. r = Pad!Add(s, p)
    BY DEF r
  <1> QED
    BY <1>3, <1>4, <1>5, <1>6, <1>7

LEMMA PadOnStep ==
    ASSUME Pad!PadsAssumption, PadsInv, NEW p \in Pad!Pads, Pad!PadOn(p)
    PROVE  PadsInv'
  <1> DEFINE k == Pad!Of(p)
             s == padSeats[k]
             r == padSeats'[k]
  <1>1. /\ s \in Seq(SeatOf) /\ r \in Seq(SeatOf) /\ Len(s) <= Seats
        /\ padSeats' = [padSeats EXCEPT ![k] = r]
        /\ r = Pad!Add(s, p)
        /\ \A n \in 1 .. Len(s) : s[n] # Pad!Seat(p)
        /\ SeatsOk(r, k, padOn') /\ (Pad!Held(s) = {} => Pad!Held(r) = {})
    BY PadOnIs
  <1>2. k \in Pad!Kind /\ padOn' = padOn \cup {p} /\ padOn' \subseteq Pad!Pads
    BY PadKind DEF Pad!PadOn, PadsInv, Pad!TypeOK
  <1> HIDE DEF r
  <1>3. padSeats' \in [Pad!Kind -> Seq(SeatOf)]
    BY <1>1, <1>2 DEF PadsInv
  <1>4. \A j \in Pad!Kind : padSeats'[j] = IF j = k THEN r ELSE padSeats[j]
    BY <1>1, <1>2 DEF PadsInv
  <1>5. ASSUME NEW j \in Pad!Kind PROVE SeatsOk(padSeats'[j], j, padOn')
    <2>1. CASE j = k
      BY <1>1, <1>4, <2>1
    <2>2. CASE j # k
      BY <1>2, <1>4, <2>2 DEF PadsInv, SeatsOk
    <2> QED
      BY <2>1, <2>2
  <1>6. \A q \in Pad!Pads :
           padHad'[q] = IF q = p \/ (Pad!Of(q) = k /\ Len(s) = Seats
                 /\ padHad[q] = Pad!PlayerOf(r, p))
                        THEN 0 ELSE padHad[q]
    BY DEF Pad!PadOn, r
  <1>7. padHad' \in [Pad!Pads -> 0 .. Seats]
    <2>1. padHad' = [q \in Pad!Pads |->
              IF q = p \/ (Pad!Of(q) = k /\ Len(s) = Seats /\ padHad[q] = Pad!PlayerOf(r, p))
              THEN 0 ELSE padHad[q]]
      BY DEF Pad!PadOn, r
    <2>2. 0 \in 0 .. Seats /\ padHad \in [Pad!Pads -> 0 .. Seats]
      BY DEF Pad!PadsAssumption, PadsInv, Pad!TypeOK
    <2> QED
      BY <2>1, <2>2
  <1>8. Settled'
    <2> SUFFICES ASSUME ~padInGame'
                 PROVE  /\ \A j \in Pad!Kind : Pad!Held(padSeats'[j]) = {}
                        /\ \A q \in Pad!Pads : padHad'[q] = 0
      BY DEF Settled, Pad!Held, Pad!Kind, Pad!Pads
    <2>1. /\ \A j \in Pad!Kind : Pad!Held(padSeats[j]) = {}
          /\ \A q \in Pad!Pads : padHad[q] = 0
      BY DEF Pad!PadOn, PadsInv, Settled
    <2> QED
      BY <1>1, <1>2, <1>4, <1>6, <2>1
  <1>9. ASSUME NEW q \in Pad!Pads, padHad'[q] # 0
        PROVE  Had(padSeats'[Pad!Of(q)], padOn', padHad'[q], q)
    <2>1. padHad'[q] = padHad[q] /\ q # p
      BY <1>6, <1>9
    <2>2. /\ q \notin padOn /\ q \notin Keyless
          /\ padHad[q] \in Pad!Held(padSeats[Pad!Of(q)]) /\ padSeats[Pad!Of(q)][padHad[q]].pad = q
      BY <1>9, <2>1 DEF PadsInv, Had
    <2>3. CASE Pad!Of(q) # k
      BY <1>2, <1>4, <2>1, <2>2, <2>3, PadKind DEF Had
    <2>4. CASE Pad!Of(q) = k
      <3>1. padHad[q] # Pad!PlayerOf(r, p) \/ Len(s) # Seats
        BY <1>6, <1>9, <2>1, <2>4
      <3>2. padHad[q] \in Pad!Held(r) /\ r[padHad[q]] = s[padHad[q]]
        BY <1>1, <2>1, <2>2, <2>4, <3>1, AddMoves
      <3> QED
        BY <1>2, <1>4, <2>1, <2>2, <2>4, <3>2 DEF Had
    <2> QED
      BY <2>3, <2>4
  <1>10. /\ padInGame' \in BOOLEAN /\ padStreaming' \in BOOLEAN
         /\ padAsk' # None => padAsk'.pad \in Pad!Pads
               /\ padAsk'.numbers \subseteq 1 .. Seats \ {padAsk'.me}
    BY DEF Pad!PadOn, PadsInv, Pad!TypeOK
  <1>11. \A q \in Pad!Pads : Had(padSeats'[Pad!Of(q)], padOn', padHad'[q], q)
    BY <1>9 DEF Had
  <1> QED
    BY <1>2, <1>3, <1>5, <1>7, <1>8, <1>10, <1>11
       DEF PadsInv, Pad!TypeOK, SeatsOk, Pad!Kind, Pad!Pads

\* A pad that goes off leaves the others where they are while a game is up, and one
\* of them is there: its own seat is held.
LEMMA RemoveMoves ==
    ASSUME NEW p \in Pad!Pads, NEW s \in Seq(SeatOf), padInGame
    PROVE  /\ \A q \in Pad!Pads \ {p} : Pad!PlayerOf(Pad!Remove(s, p), q) = Pad!PlayerOf(s, q)
           /\ \A q \in Pad!Pads \ {p} : Pad!PlayerOf(s, q) # 0 =>
                /\ \A n \in Pad!Held(s) : n \in Pad!Held(Pad!Remove(s, p))
                      /\ Pad!Remove(s, p)[n] = s[n]
                /\ Pad!PlayerOf(s, p) # 0 =>
                     /\ Pad!PlayerOf(s, p) \in Pad!Held(Pad!Remove(s, p))
                     /\ Pad!Remove(s, p)[Pad!PlayerOf(s, p)] = Off(p)
  <1> DEFINE r    == Pad!Remove(s, p)
             n    == Pad!PlayerOf(s, p)
             left == [s EXCEPT ![n] = Off(p)]
  <1>1. CASE n = 0 /\ r = s
    BY <1>1
  <1>2. ASSUME n # 0
        PROVE  /\ n \in 1 .. Len(s) /\ s[n] = Pad!Seat(p) /\ s[n].on /\ ~Off(p).on
               /\ Len(left) = Len(s) /\ left[n] = Off(p)
               /\ \A m \in 1 .. Len(s) : m # n => left[m] = s[m]
               /\ \A q \in Pad!Pads \ {p} : Pad!Seat(q) # Pad!Seat(p) /\ Pad!Seat(q) # Off(p)
    <2>1. n \in 1 .. Len(s) /\ s[n] = Pad!Seat(p) /\ s[n].on
      BY <1>2, PlayerIs, SeatIs
    <2>2. Off(p) \in SeatOf /\ Off(p).on = FALSE
      BY DEF Off, SeatOf
    <2>3. \A q \in Pad!Pads \ {p} : Pad!Seat(q) # Pad!Seat(p) /\ Pad!Seat(q) # Off(p)
      BY <2>2, SeatIs
    <2> HIDE DEF n
    <2> QED
      BY <2>1, <2>2, <2>3
  <1> HIDE DEF n, left
  <1>3. CASE n # 0 /\ Pad!Held(left) = 1 .. Len(s) /\ r = <<>>
    <2>1. \A m \in 1 .. Len(s) : ~left[m].on
      BY <1>3 DEF Pad!Held
    <2>2. ASSUME NEW q \in Pad!Pads \ {p} PROVE Pad!PlayerOf(s, q) = 0 /\ Pad!PlayerOf(<<>>, q) = 0
      <3>1. \A m \in 1 .. Len(s) : s[m] # Pad!Seat(q)
        BY <1>2, <1>3, <2>1, SeatIs
      <3>2. <<>> \in Seq(SeatOf) /\ 1 .. Len(<<>>) = {}
        OBVIOUS
      <3> QED
        BY <3>1, <3>2, PlayerIs
    <2> QED
      BY <1>3, <2>2
  <1>4. CASE n # 0 /\ r = left
    <2>1. ASSUME NEW q \in Pad!Pads \ {p} PROVE Pad!PlayerOf(left, q) = Pad!PlayerOf(s, q)
      <3>1. {m \in 1 .. Len(s) : s[m] = Pad!Seat(q)} = {m \in 1 .. Len(left) : left[m]
            = Pad!Seat(q)}
        BY <1>2, <1>4
      <3> QED
        BY <3>1, SamePlayer
    <2>2. \A m \in Pad!Held(s) : m \in Pad!Held(left) /\ left[m] = s[m]
      BY <1>2, <1>4 DEF Pad!Held
    <2>3. n \in Pad!Held(left) /\ left[n] = Off(p)
      BY <1>2, <1>4 DEF Pad!Held
    <2> QED
      BY <1>4, <2>1, <2>2, <2>3 DEF n
  <1>5. \/ n = 0 /\ r = s
        \/ n # 0 /\ Pad!Held(left) = 1 .. Len(s) /\ r = <<>>
        \/ n # 0 /\ r = left
    BY RemoveIs DEF n, left
  <1> QED
    BY <1>1, <1>3, <1>4, <1>5 DEF n

LEMMA PadOffStep ==
    ASSUME Pad!PadsAssumption, PadsInv, NEW p \in Pad!Pads, Pad!PadOff(p)
    PROVE  PadsInv'
  <1> DEFINE k == Pad!Of(p)
             s == padSeats[k]
             r == Pad!Remove(s, p)
             seated == {q \in padOn' : Pad!Of(q) = Pad!Of(p) /\ Pad!Number(q) # 0}
  <1>1. k \in Pad!Kind /\ p \in padOn /\ padOn' = padOn \ {p} /\ padOn' \subseteq Pad!Pads
    BY PadKind DEF Pad!PadOff, PadsInv, Pad!TypeOK
  <1>2. padSeats' = [padSeats EXCEPT ![k] = r]
    BY DEF Pad!PadOff
  <1>3. /\ s \in Seq(SeatOf)
        /\ SeatsOk(r, k, padOn') /\ (~padInGame /\ Pad!Held(s) = {} => Pad!Held(r) = {})
    BY <1>1, RemoveKeeps DEF PadsInv
  <1>4. r \in Seq(SeatOf)
    BY <1>3 DEF SeatsOk
  <1>6. padHad' = [q \in Pad!Pads |->
              CASE q = p /\ padInGame /\ q \notin Keyless /\ seated # {} -> Pad!Number(q)
                [] Pad!Of(q) = Pad!Of(p) /\ seated = {}                       -> 0
                [] OTHER                                              -> padHad[q]]
    BY DEF Pad!PadOff
  <1>n. Pad!Number(p) = Pad!PlayerOf(s, p) /\ Pad!Number(p) \in 0 .. Seats
    <2>1. Pad!Number(p) = Pad!PlayerOf(s, p)
      BY DEF Pad!Number
    <2>2. Len(s) \in Nat /\ Len(s) <= Seats
      BY <1>1, <1>3 DEF PadsInv, SeatsOk
    <2> QED
      BY <1>3, <2>1, <2>2, PlayerIs DEF Pad!PadsAssumption
  <1> HIDE DEF r, seated
  <1>7. padSeats' \in [Pad!Kind -> Seq(SeatOf)]
    BY <1>1, <1>2, <1>4 DEF PadsInv
  <1>8. \A j \in Pad!Kind : padSeats'[j] = IF j = k THEN r ELSE padSeats[j]
    BY <1>1, <1>2 DEF PadsInv
  <1>9. ASSUME NEW j \in Pad!Kind PROVE SeatsOk(padSeats'[j], j, padOn')
    <2>1. CASE j = k
      BY <1>3, <1>8, <2>1
    <2>2. CASE j # k
      BY <1>1, <1>8, <2>2 DEF PadsInv, SeatsOk
    <2> QED
      BY <2>1, <2>2
  <1>10. ASSUME NEW q \in Pad!Pads
         PROVE  \/ /\ q = p /\ padInGame /\ q \notin Keyless /\ seated # {}
                   /\ padHad'[q] = Pad!Number(p)
                \/ padHad'[q] = 0
                \/ /\ ~(Pad!Of(q) = k /\ seated = {})
                   /\ padHad'[q] = padHad[q]
    <2>1. CASE q = p /\ padInGame /\ q \notin Keyless /\ seated # {}
      BY <1>6, <2>1
    <2>2. CASE ~(q = p /\ padInGame /\ q \notin Keyless /\ seated # {}) 
                /\ Pad!Of(q) = Pad!Of(p) /\ seated = {}
      BY <1>6, <2>2
    <2>3. CASE ~(q = p /\ padInGame /\ q \notin Keyless /\ seated # {})
                /\ ~(Pad!Of(q) = Pad!Of(p) /\ seated = {})
      <3>1. padHad'[q] = CASE q = p /\ padInGame /\ q \notin Keyless
            /\ seated # {} -> Pad!Number(q)
                        [] Pad!Of(q) = Pad!Of(p) /\ seated = {}                       -> 0
                        [] OTHER                                              -> padHad[q]
        BY <1>6, Zenon
      <3>2. padHad'[q] = padHad[q]
        BY <2>3, <3>1
      <3> QED
        BY <2>3, <3>2
    <2> QED
      BY <2>1, <2>2, <2>3
  <1>11. padHad' \in [Pad!Pads -> 0 .. Seats]
    <2>1. \A q \in Pad!Pads : padHad'[q] \in 0 .. Seats
      BY <1>10, <1>n DEF PadsInv, Pad!TypeOK, Pad!PadsAssumption
    <2>2. padHad' = [q \in Pad!Pads |-> padHad'[q]]
      BY <1>6, Zenon
    <2> QED
      BY <2>1, <2>2
  <1>12. Settled'
    <2> SUFFICES ASSUME ~padInGame'
                 PROVE  /\ \A j \in Pad!Kind : Pad!Held(padSeats'[j]) = {}
                        /\ \A q \in Pad!Pads : padHad'[q] = 0
      BY DEF Settled, Pad!Held, Pad!Kind, Pad!Pads
    <2>1. /\ ~padInGame /\ \A j \in Pad!Kind : Pad!Held(padSeats[j]) = {}
          /\ \A q \in Pad!Pads : padHad[q] = 0
      BY DEF Pad!PadOff, PadsInv, Settled
    <2> QED
      BY <1>1, <1>3, <1>8, <1>10, <2>1
  <1>13. ASSUME NEW q \in Pad!Pads, padHad'[q] # 0
         PROVE  Had(padSeats'[Pad!Of(q)], padOn', padHad'[q], q)
    <2>1. ASSUME seated # {}
          PROVE  \E x \in Pad!Pads \ {p} : Pad!PlayerOf(s, x) # 0
      BY <1>1, <2>1 DEF seated, Pad!Number
    <2>2. CASE /\ q = p /\ padInGame /\ q \notin Keyless /\ seated # {}
               /\ padHad'[q] = Pad!Number(p)
      <3>1. Pad!Number(p) \in Pad!Held(r) /\ r[Pad!Number(p)] = Off(p)
        BY <1>3, <1>13, <1>n, <2>1, <2>2, RemoveMoves DEF r
      <3> QED
        BY <1>1, <1>8, <2>2, <3>1 DEF Had, Off
    <2>3. CASE /\ ~(Pad!Of(q) = k /\ seated = {})
               /\ padHad'[q] = padHad[q]
      <3>1. /\ q \notin padOn /\ q \notin Keyless
            /\ padHad[q] \in Pad!Held(padSeats[Pad!Of(q)])
                  /\ padSeats[Pad!Of(q)][padHad[q]].pad = q
            /\ padInGame
        BY <1>13, <2>3 DEF PadsInv, Had, Settled
      <3>2. CASE Pad!Of(q) # k
        BY <1>1, <1>8, <2>3, <3>1, <3>2, PadKind DEF Had
      <3>3. CASE Pad!Of(q) = k
        <4>1. padHad[q] \in Pad!Held(r) /\ r[padHad[q]] = s[padHad[q]]
          BY <1>3, <2>1, <2>3, <3>1, <3>3, RemoveMoves DEF r
        <4> QED
          BY <1>1, <1>8, <2>3, <3>1, <3>3, <4>1 DEF Had
      <3> QED
        BY <3>2, <3>3
    <2> QED
      BY <1>10, <1>13, <2>2, <2>3
  <1>14. /\ padInGame' \in BOOLEAN /\ padStreaming' \in BOOLEAN
         /\ padAsk' # None => padAsk'.pad \in Pad!Pads
               /\ padAsk'.numbers \subseteq 1 .. Seats \ {padAsk'.me}
    BY DEF Pad!PadOff, PadsInv, Pad!TypeOK
  <1>15. \A q \in Pad!Pads : Had(padSeats'[Pad!Of(q)], padOn', padHad'[q], q)
    BY <1>13 DEF Had
  <1> QED
    BY <1>1, <1>7, <1>9, <1>11, <1>12, <1>14, <1>15
       DEF PadsInv, Pad!TypeOK, SeatsOk, Pad!Kind, Pad!Pads

LEMMA GameEndsStep ==
    ASSUME Pad!PadsAssumption, PadsInv, Pad!GameEnds
    PROVE  PadsInv'
  <1> DEFINE r(k) == Pad!Chosen(padSeats[k], {Pad!Seat(p) : p \in Pad!Pads})
  <1>1. /\ padSeats' = [k \in Pad!Kind |-> r(k)] /\ padOn' = padOn
        /\ padHad' = [p \in Pad!Pads |-> 0]
        /\ padInGame' = FALSE /\ padStreaming' = padStreaming /\ padAsk' = padAsk
    BY DEF Pad!GameEnds
  <1>2. ASSUME NEW k \in Pad!Kind PROVE SeatsOk(r(k), k, padOn) /\ Pad!Held(r(k)) = {}
    <2>1. SeatsOk(padSeats[k], k, padOn)
      BY DEF PadsInv
    <2>2. Pad!Pads \ {} = Pad!Pads /\ padOn \ {} = padOn
      OBVIOUS
    <2>3. LET c == Pad!Chosen(padSeats[k], {Pad!Seat(p) : p \in Pad!Pads \ {}})
          IN  SeatsOk(c, k, padOn \ {}) /\ Pad!Held(c) = {}
      BY <2>1, ChosenKeeps
    <2> QED
      BY <2>2, <2>3
  <1> HIDE DEF r
  <1>3. \A k \in Pad!Kind : SeatsOk(padSeats'[k], k, padOn') /\ Pad!Held(padSeats'[k]) = {}
    BY <1>1, <1>2
  <1>4. padSeats' \in [Pad!Kind -> Seq(SeatOf)]
    BY <1>1, <1>2 DEF SeatsOk
  <1>5. padHad' \in [Pad!Pads -> 0 .. Seats] /\ \A p \in Pad!Pads : padHad'[p] = 0
    BY <1>1 DEF Pad!PadsAssumption
  <1>6. Settled'
    BY <1>1, <1>3, <1>5 DEF Settled, Pad!Held, Pad!Kind, Pad!Pads
  <1>7. Pad!TypeOK'
    BY <1>1, <1>3, <1>5 DEF PadsInv, Pad!TypeOK, SeatsOk, Pad!Kind, Pad!Pads
  <1>8. \A k \in Pad!Kind : SeatsOk(padSeats[k], k, padOn)'
    BY <1>1, <1>3 DEF SeatsOk
  <1>9. \A p \in Pad!Pads : Had(padSeats[Pad!Of(p)], padOn, padHad[p], p)'
    BY <1>5 DEF Had
  <1> QED
    BY <1>4, <1>6, <1>7, <1>8, <1>9 DEF PadsInv, Pad!Kind, Pad!Pads

LEMMA MakePlayerStep ==
    ASSUME Pad!PadsAssumption, PadsInv, NEW n, Pad!MakePlayer(n)
    PROVE  PadsInv'
  <1> DEFINE r == Pad!Swapped(padSeats[Pad!Active], padAsk.me, n)
  <1>1. Pad!Active \in Pad!Kind
    BY DEF Pad!Active, Pad!Kind
  <1>2. /\ padSeats' = [padSeats EXCEPT ![Pad!Active] = r] /\ padAsk' = None
        /\ UNCHANGED <<padOn, padInGame, padStreaming, padHad>>
    BY DEF Pad!MakePlayer
  <1>3. /\ SeatsOk(r, Pad!Active, padOn) /\ (padInGame => r = padSeats[Pad!Active])
        /\ Pad!Held(padSeats[Pad!Active]) = {} => Pad!Held(r) = {}
    BY <1>1, SwapKeeps DEF PadsInv
  <1> HIDE DEF r
  <1>4. \A k \in Pad!Kind : padSeats'[k] = IF k = Pad!Active THEN r ELSE padSeats[k]
    BY <1>1, <1>2 DEF PadsInv
  <1>5. \A k \in Pad!Kind : SeatsOk(padSeats'[k], k, padOn)
    BY <1>3, <1>4 DEF PadsInv
  <1>6. padSeats' \in [Pad!Kind -> Seq(SeatOf)]
    BY <1>1, <1>2, <1>3 DEF PadsInv, SeatsOk
  <1>7. ~padInGame => \A k \in Pad!Kind : Pad!Held(padSeats'[k]) = {}
    BY <1>1, <1>3, <1>4 DEF PadsInv, Settled
  <1>8. padInGame => \A k \in Pad!Kind : padSeats'[k] = padSeats[k]
    BY <1>3, <1>4
  <1>9. \A p \in Pad!Pads : Had(padSeats'[Pad!Of(p)], padOn, padHad[p], p)
    <2> SUFFICES ASSUME NEW p \in Pad!Pads, padHad[p] # 0
                 PROVE  Had(padSeats'[Pad!Of(p)], padOn, padHad[p], p)
      BY DEF Had
    <2>1. padInGame
      BY DEF PadsInv, Settled
    <2> QED
      BY <1>8, <2>1, PadKind DEF PadsInv
  <1>10. Settled'
    BY <1>2, <1>7 DEF PadsInv, Settled, Pad!Held, Pad!Kind, Pad!Pads
  <1>11. Pad!TypeOK'
    BY <1>2, <1>5 DEF PadsInv, Pad!TypeOK, SeatsOk, Pad!Kind, Pad!Pads
  <1>12. \A k \in Pad!Kind : SeatsOk(padSeats[k], k, padOn)'
    BY <1>2, <1>5 DEF SeatsOk
  <1>13. \A p \in Pad!Pads : Had(padSeats[Pad!Of(p)], padOn, padHad[p], p)'
    BY <1>2, <1>9 DEF Had, Pad!Held
  <1> QED
    BY <1>6, <1>10, <1>11, <1>12, <1>13 DEF PadsInv, Pad!Kind, Pad!Pads

LEMMA AskStep ==
    ASSUME Pad!PadsAssumption, PadsInv, NEW p \in Pad!Pads, Pad!AskNumber(p)
    PROVE  PadsInv'
  <1> DEFINE others == {Pad!Number(q) : q \in {r \in padOn : Pad!Of(r)
        = Pad!Active}} \ {0, Pad!Number(p)}
  <1>1. /\ padAsk' = [pad |-> p, me |-> Pad!Number(p), numbers |-> others]
        /\ UNCHANGED <<padOn, padSeats, padInGame, padStreaming, padHad>>
    BY DEF Pad!AskNumber
  <1>2. \A q \in Pad!Pads : Pad!Number(q) \in 0 .. Seats
    <2> SUFFICES ASSUME NEW q \in Pad!Pads PROVE Pad!Number(q) \in 0 .. Seats
      OBVIOUS
    <2>1. padSeats[Pad!Of(q)] \in Seq(SeatOf) /\ Len(padSeats[Pad!Of(q)]) <= Seats
      BY PadKind DEF PadsInv, SeatsOk
    <2>2. Len(padSeats[Pad!Of(q)]) \in Nat
      BY <2>1
    <2> QED
      BY <2>1, <2>2, PlayerIs DEF Pad!Number, Pad!PadsAssumption
  <1>3. others \subseteq 1 .. Seats \ {Pad!Number(p)}
    BY <1>2 DEF PadsInv, Pad!TypeOK
  <1> HIDE DEF others
  <1>4. padAsk'.pad \in Pad!Pads /\ padAsk'.numbers \subseteq 1 .. Seats \ {padAsk'.me}
    BY <1>1, <1>3
  <1> QED
    BY <1>1, <1>4 DEF PadsInv, Pad!TypeOK, SeatsOk, Pad!Kind, Pad!Pads, Settled, Pad!Held, Had

LEMMA PadsStep ==
    ASSUME Pad!PadsAssumption, PadsInv, [Pad!Next]_Pad!vars
    PROVE  PadsInv'
  <1>1. CASE Pad!GameBegins \/ Pad!StreamBegins \/ Pad!StreamEnds \/ Pad!Cancel
        \/ UNCHANGED Pad!vars
    <2>1. /\ UNCHANGED <<padOn, padSeats, padHad>>
          /\ padInGame' = padInGame \/ padInGame' = TRUE
          /\ padStreaming' = padStreaming \/ padStreaming' \in BOOLEAN
          /\ padAsk' = padAsk \/ padAsk' = None
      BY <1>1 DEF Pad!GameBegins, Pad!StreamBegins, Pad!StreamEnds, Pad!Cancel, Pad!vars
    <2>2. Settled'
      BY <2>1 DEF PadsInv, Settled, Pad!Held, Pad!Kind, Pad!Pads
    <2>3. Pad!TypeOK'
      BY <2>1 DEF PadsInv, Pad!TypeOK, SeatsOk, Pad!Kind, Pad!Pads
    <2>4. \A k \in Pad!Kind : SeatsOk(padSeats[k], k, padOn)'
      BY <2>1 DEF PadsInv, SeatsOk
    <2>5. \A p \in Pad!Pads : Had(padSeats[Pad!Of(p)], padOn, padHad[p], p)'
      BY <2>1 DEF PadsInv, Had, Pad!Held, Pad!Of
    <2> QED
      BY <2>1, <2>2, <2>3, <2>4, <2>5 DEF PadsInv, Pad!Kind, Pad!Pads
  <1>2. CASE Pad!GameEnds
    BY <1>2, GameEndsStep
  <1>3. CASE \E n \in 1 .. Seats : Pad!MakePlayer(n)
    BY <1>3, MakePlayerStep
  <1>4. CASE \E p \in Pad!Pads : Pad!PadOn(p) \/ Pad!PadOff(p) \/ Pad!AskNumber(p)
    BY <1>4, PadOnStep, PadOffStep, AskStep
  <1> QED
    BY <1>1, <1>2, <1>3, <1>4 DEF Pad!Next

\* The invariant of the seats.
THEOREM PadsInvariant == ASSUME Pad!PadsAssumption PROVE Pad!Spec => []PadsInv
  <1>1. Pad!Init => PadsInv
    BY PadsStart
  <1>2. PadsInv /\ [Pad!Next]_Pad!vars => PadsInv'
    BY PadsStep
  <1> QED
    BY <1>1, <1>2, PTL DEF Pad!Spec

\* In a game a number stands while its pad is on; one that comes back has its own.
LEMMA NumbersStand ==
    ASSUME Pad!PadsAssumption, PadsInv, [Pad!Next]_Pad!vars
    PROVE  /\ padInGame /\ padInGame'
                 => \A p \in padOn \cap padOn' : Pad!Number(p)' = Pad!Number(p)
           /\ padInGame => \A p \in padOn' \ padOn : padHad[p] # 0 => Pad!Number(p)' = padHad[p]
           /\ ~padInGame' => \A k \in Pad!Kind : Pad!Held(padSeats'[k]) = {}
  <1>1. ~padInGame' => \A k \in Pad!Kind : Pad!Held(padSeats'[k]) = {}
    <2>1. Settled'
      BY PadsStep DEF PadsInv
    <2> QED
      BY <2>1 DEF Settled, Pad!Held, Pad!Kind
  <1>2. \A p \in Pad!Pads : Pad!Of(p) \in Pad!Kind
        /\ Pad!Number(p) = Pad!PlayerOf(padSeats[Pad!Of(p)], p)
                       /\ Pad!Number(p)' = Pad!PlayerOf(padSeats'[Pad!Of(p)], p)
    BY PadKind DEF Pad!Number, Pad!PlayerOf, Pad!Seat, Pad!Of, Pad!Min
  <1>3. padOn \subseteq Pad!Pads /\ padOn' \subseteq Pad!Pads
    BY PadsStep DEF PadsInv, Pad!TypeOK, Pad!Pads
  <1>4. ASSUME NEW p \in Pad!Pads, Pad!PadOn(p), padInGame
        PROVE  /\ \A q \in padOn \cap padOn' : Pad!Number(q)' = Pad!Number(q)
               /\ \A q \in padOn' \ padOn : padHad[q] # 0 => Pad!Number(q)' = padHad[q]
    <2> DEFINE s == padSeats[Pad!Of(p)]
               r == padSeats'[Pad!Of(p)]
    <2>1. /\ s \in Seq(SeatOf) /\ Len(s) <= Seats
          /\ padSeats' = [padSeats EXCEPT ![Pad!Of(p)] = r]
          /\ r = Pad!Add(s, p)
          /\ \A n \in 1 .. Len(s) : s[n] # Pad!Seat(p)
      BY <1>4, PadOnIs
    <2>2. \A q \in Pad!Pads : Pad!Of(q) # Pad!Of(p) => padSeats'[Pad!Of(q)] = padSeats[Pad!Of(q)]
      BY <1>2, <2>1 DEF PadsInv
    <2>3. padOn' = padOn \cup {p} /\ p \notin padOn
      BY <1>4 DEF Pad!PadOn
    <2>4. ASSUME NEW q \in padOn PROVE Pad!Number(q)' = Pad!Number(q)
      <3>1. q \in Pad!Pads \ {p}
        BY <1>3, <2>3
      <3>2. CASE Pad!Of(q) = Pad!Of(p)
        BY <1>2, <2>1, <3>1, <3>2, AddMoves
      <3>3. CASE Pad!Of(q) # Pad!Of(p)
        BY <1>2, <2>2, <3>1, <3>3
      <3> QED
        BY <3>2, <3>3
    <2>5. ASSUME padHad[p] # 0 PROVE Pad!Number(p)' = padHad[p]
      <3>1. p \notin Keyless /\ padHad[p] \in Pad!Held(s) /\ s[padHad[p]].pad = p
        BY <2>5 DEF PadsInv, Had
      <3>2. padHad[p] \in OwnHeld(s, p)
        BY <3>1 DEF OwnHeld
      <3>3. Pad!PlayerOf(r, p) \in OwnHeld(s, p)
        BY <2>1, <3>2, AddMoves
      <3>4. Pad!PlayerOf(r, p) = padHad[p]
        BY <1>2, <3>2, <3>3 DEF OwnHeld, Pad!Held, PadsInv, SeatsOk
      <3> QED
        BY <1>2, <3>4
    <2> QED
      BY <2>3, <2>4, <2>5
  <1>5. ASSUME NEW p \in Pad!Pads, Pad!PadOff(p), padInGame
        PROVE  padOn' \subseteq padOn
              /\ \A q \in padOn \cap padOn' : Pad!Number(q)' = Pad!Number(q)
    <2>1. /\ padSeats' = [padSeats EXCEPT ![Pad!Of(p)] = Pad!Remove(padSeats[Pad!Of(p)], p)]
          /\ padOn' = padOn \ {p}
      BY <1>5 DEF Pad!PadOff
    <2>2. \A q \in Pad!Pads : 
             padSeats'[Pad!Of(q)] = IF Pad!Of(q)
                   = Pad!Of(p) THEN Pad!Remove(padSeats[Pad!Of(p)], p) ELSE padSeats[Pad!Of(q)]
      BY <1>2, <2>1 DEF PadsInv
    <2>3. padSeats[Pad!Of(p)] \in Seq(SeatOf)
      BY <1>2 DEF PadsInv
    <2>4. \A q \in Pad!Pads \ {p} :
             Pad!PlayerOf(Pad!Remove(padSeats[Pad!Of(p)], p), q)
                   = Pad!PlayerOf(padSeats[Pad!Of(p)], q)
      BY <1>5, <2>3, RemoveMoves
    <2> QED
      BY <1>2, <1>3, <2>1, <2>2, <2>4
  <1>6. ASSUME NEW n, Pad!MakePlayer(n), padInGame
        PROVE  padOn' = padOn /\ \A q \in Pad!Pads : Pad!Number(q)' = Pad!Number(q)
    <2>1. /\ padSeats' = [padSeats EXCEPT ![Pad!Active]
                = Pad!Swapped(padSeats[Pad!Active], padAsk.me, n)]
          /\ padOn' = padOn
      BY <1>6 DEF Pad!MakePlayer
    <2>2. Pad!Active \in Pad!Kind
      BY DEF Pad!Active, Pad!Kind
    <2>3. Pad!Swapped(padSeats[Pad!Active], padAsk.me, n) = padSeats[Pad!Active]
      BY <1>6 DEF Pad!Swapped
    <2>4. \A k \in Pad!Kind : padSeats'[k] = padSeats[k]
      BY <2>1, <2>2, <2>3 DEF PadsInv
    <2> QED
      BY <1>2, <2>1, <2>4
  <1>7. CASE \/ \E p \in Pad!Pads : Pad!AskNumber(p)
             \/ Pad!GameBegins \/ Pad!StreamBegins \/ Pad!StreamEnds \/ Pad!Cancel
                   \/ UNCHANGED Pad!vars
    <2>1. padOn' = padOn /\ padSeats' = padSeats
      BY <1>7 DEF Pad!AskNumber, Pad!GameBegins, Pad!StreamBegins, Pad!StreamEnds, Pad!Cancel,
                  Pad!vars
    <2> QED
      BY <1>1, <1>2, <1>3, <2>1
  <1>8. CASE Pad!GameEnds
    BY <1>1, <1>8 DEF Pad!GameEnds
  <1> QED
    BY <1>1, <1>3, <1>4, <1>5, <1>6, <1>7, <1>8 DEF Pad!Next

\* In a game nobody's number changes while their pad is on, and a pad that comes
\* back has the number it had (players.h), for any pads and any number of seats.
THEOREM NumbersStandInAGame == ASSUME Pad!PadsAssumption PROVE Pad!Spec => Pad!NumbersHold
  <1>1. PadsInv /\ [Pad!Next]_Pad!vars =>
          [/\ padInGame /\ padInGame'
                 => \A p \in padOn \cap padOn' : Pad!Number(p)' = Pad!Number(p)
           /\ padInGame => \A p \in padOn' \ padOn : padHad[p] # 0 => Pad!Number(p)' = padHad[p]
           /\ ~padInGame' => \A k \in Pad!Kind : Pad!Held(padSeats'[k]) = {}]_Pad!vars
    BY NumbersStand
  <1> QED
    BY <1>1, PadsInvariant, PTL DEF Pad!Spec, Pad!NumbersHold

-----------------------------------------------------------------------------
(* Going back in a game. *)

\* Where the machine has been, or what a step back left being compressed.
Been(p, q) == p \in rewLate \/ p \subseteq q

\* The worker's snapshot is one that would be kept.
Current == rewPending # None /\ rewPending.gen = rewGeneration

\* Nothing has been through a half second that is yet to come.
Past == SUBSET (Games \X (1 .. rewClock))
Dated ==
    /\ \A n \in 1 .. Len(rewSnaps) : rewSnaps[n].past \in Past
    /\ rewPending # None => rewPending.snap.past \in Past
    /\ \A g \in Games : rewSaved[g] # None => rewSaved[g].past \in Past

\* Each snapshot was before the next, and the last before where the machine is.
Chain ==
    /\ \A n \in 1 .. Len(rewSnaps) : Been(rewSnaps[n].past, rewPast)
    /\ \A m, n \in 1 .. Len(rewSnaps) : m < n => Been(rewSnaps[m].past, rewSnaps[n].past)
    /\ Current => /\ Been(rewPending.snap.past, rewPast)
                  /\ \A n \in 1 .. Len(rewSnaps) : Been(rewSnaps[n].past, rewPending.snap.past)

\* and with the disc that is in.
DiscIn ==
    ~rewSwapped => /\ \A n \in 1 .. Len(rewSnaps) : rewSnaps[n].disc = rewDisc
                   /\ Current => rewPending.snap.disc = rewDisc

\* With no game up there is nothing to step back to, nor coming.
NoGame == rewGame = None => rewSnaps = <<>> /\ ~Current

RewindInv == Back!TypeOK /\ rewSnaps \in Seq(Back!Snap) /\ Dated /\ Chain /\ DiscIn /\ NoGame

LEMMA PastGrows ==
    ASSUME Back!RewindAssumption, Back!TypeOK, NEW c \in 0 .. MaxClock, rewClock <= c
    PROVE  Past \subseteq SUBSET (Games \X (1 .. c))
  BY DEF Past, Back!TypeOK, Back!RewindAssumption

\* A reset leaves nothing to step back to, and nothing coming.
LEMMA ResetIs ==
    ASSUME RewindInv, Back!Reset
    PROVE  /\ rewSnaps' = <<>> /\ rewSnaps' \in Seq(Back!Snap) /\ Len(rewSnaps') = 0
           /\ rewPending' = rewPending /\ rewGeneration' \in Nat /\ rewSwapped' = FALSE
           /\ rewPending # None
                 => rewPending.gen \in 0 .. rewGeneration' /\ rewPending.gen # rewGeneration'
  BY DEF RewindInv, Back!TypeOK, Back!Reset

LEMMA ResetKeeps ==
    ASSUME Back!RewindAssumption, RewindInv, Back!Reset,
           UNCHANGED <<rewChange, rewClock, rewSaved, rewLate>>, rewTurns' \in 0 .. MaxTurns,
           rewGame' \in Games \cup {None}, rewPast' \in Past, rewDisc' \in Discs,
           rewInserting' \in Discs \cup {None}, rewLoading' \in Games \cup {None}
    PROVE  RewindInv'
  <1>1. /\ rewSnaps' = <<>> /\ rewSnaps' \in Seq(Back!Snap) /\ Len(rewSnaps') = 0
        /\ rewPending' = rewPending /\ rewGeneration' \in Nat /\ rewSwapped' = FALSE
        /\ rewPending # None
              => rewPending.gen \in 0 .. rewGeneration' /\ rewPending.gen # rewGeneration'
    BY ResetIs
  <1>2. ~Current'
    BY <1>1 DEF Current
  <1>3. 1 .. Len(rewSnaps') = {}
    BY <1>1
  <1>4. Back!TypeOK'
    <2>1. /\ rewChange' \in {"insert", "startOver"} /\ rewClock' \in 0 .. MaxClock
          /\ rewGame' \in Games \cup {None} /\ rewPast' \subseteq Games \X (1 .. rewClock')
          /\ rewDisc' \in Discs /\ rewInserting' \in Discs \cup {None}
          /\ \A g \in Games : rewSaved'[g] = None \/ rewSaved'[g] \in Back!Snap
          /\ rewTurns' \in 0 .. MaxTurns /\ rewLate' \subseteq SUBSET Back!Moment
      BY DEF RewindInv, Back!TypeOK, Past
    <2>2. \A n \in 1 .. Len(rewSnaps') : rewSnaps'[n] \in Back!Snap
      BY <1>3
    <2>3. Len(rewSnaps') <= Keep
      BY <1>1 DEF Back!RewindAssumption
    <2>4. rewPending' # None
          => rewPending'.snap \in Back!Snap /\ rewPending'.gen \in 0 .. rewGeneration'
      BY <1>1 DEF RewindInv, Back!TypeOK
    <2> QED
      BY <1>1, <2>1, <2>2, <2>3, <2>4 DEF Back!TypeOK, Back!Snap, Back!Moment
  <1>5. Dated'
    BY <1>1, <1>3 DEF RewindInv, Dated, Past
  <1>6. Chain' /\ DiscIn' /\ NoGame'
    BY <1>1, <1>2, <1>3 DEF Chain, DiscIn, NoGame
  <1> QED
    BY <1>1, <1>4, <1>5, <1>6 DEF RewindInv, Back!Snap, Back!Moment

\* What is left of the snapshots when the worker is done, or after a step back.
LEMMA PartOf ==
    ASSUME NEW T, NEW s \in Seq(T), NEW a \in 1 .. Len(s) + 1, NEW b \in 0 .. Len(s),
           NEW r, r = SubSeq(s, a, b)
    PROVE  /\ r \in Seq(T)
           /\ Len(r) = IF a <= b THEN b - a + 1 ELSE 0
           /\ \A n \in 1 .. Len(r) : n + a - 1 \in 1 .. Len(s) /\ r[n] = s[n + a - 1]
  <1>1. \A i \in a .. b : s[i] \in T
    OBVIOUS
  <1>2. /\ SubSeq(s, a, b) \in Seq(T)
        /\ Len(SubSeq(s, a, b)) = IF a <= b THEN b - a + 1 ELSE 0
        /\ \A i \in 1 .. b - a + 1 : SubSeq(s, a, b)[i] = s[a + i - 1]
    <2>1. a \in Int /\ b \in Int
      OBVIOUS
    <2> QED
      BY <1>1, <2>1, SubSeqProperties
  <1>3. a \in Nat /\ b \in Nat /\ a >= 1 /\ b <= Len(s) /\ Len(s) \in Nat
    OBVIOUS
  <1>4. ASSUME NEW n \in 1 .. Len(r)
        PROVE  n + a - 1 \in 1 .. Len(s) /\ r[n] = s[n + a - 1]
    <2>1. n \in 1 .. b - a + 1
      BY <1>2, <1>3
    <2>2. n + a - 1 = a + n - 1 /\ n + a - 1 \in 1 .. Len(s)
      BY <1>3, <2>1
    <2> QED
      BY <1>2, <2>1, <2>2
  <1> QED
    BY <1>2, <1>4

LEMMA CompressedStep ==
    ASSUME Back!RewindAssumption, RewindInv, Back!Compressed
    PROVE  RewindInv'
  <1>0. /\ rewPending # None /\ rewPending' = None
        /\ UNCHANGED <<rewChange, rewClock, rewGame, rewPast, rewDisc, rewInserting,
                       rewGeneration, rewSaved, rewLoading,
                       rewTurns, rewLate, rewSwapped>>
        /\ rewPending.snap \in Back!Snap
    BY DEF Back!Compressed, Back!machine, Back!states, Back!history, RewindInv, Back!TypeOK
  <1>1. CASE rewSnaps' = rewSnaps
    BY <1>0, <1>1 DEF RewindInv, Back!TypeOK, Dated, Past, Chain, Been, DiscIn, NoGame, Current,
                      Back!Snap, Back!Moment
  <1>2. ASSUME rewPending.gen = rewGeneration,
               NEW n \in 0 .. Len(Append(rewSnaps, rewPending.snap)),
               Len(Append(rewSnaps, rewPending.snap)) - n <= Keep,
               rewSnaps' = SubSeq(Append(rewSnaps, rewPending.snap), n + 1,
                               Len(Append(rewSnaps, rewPending.snap)))
        PROVE  RewindInv'
    <2> DEFINE all == Append(rewSnaps, rewPending.snap)
    <2>1. /\ rewSnaps \in Seq(Back!Snap) /\ all \in Seq(Back!Snap) /\ Len(all) = Len(rewSnaps) + 1
          /\ all[Len(all)] = rewPending.snap /\ \A i \in 1 .. Len(rewSnaps) : all[i] = rewSnaps[i]
      BY <1>0 DEF RewindInv
    <2>2. \A i \in 1 .. Len(all) : i = Len(all) \/ i \in 1 .. Len(rewSnaps)
      BY <2>1
    <2>c. Current
      BY <1>0, <1>2 DEF Current
    <2> HIDE DEF all
    <2>3. /\ rewSnaps' \in Seq(Back!Snap) /\ Len(rewSnaps') <= Keep /\ n \in Nat
          /\ \A i \in 1 .. Len(rewSnaps') : i + n \in 1 .. Len(all) /\ rewSnaps'[i] = all[i + n]
      <3>1. n \in Nat /\ n + 1 \in 1 .. Len(all) + 1 /\ Len(all) \in 0 .. Len(all)
        BY <1>2, <2>1 DEF all
      <3>2. rewSnaps' = SubSeq(all, n + 1, Len(all)) /\ Len(all) - n <= Keep
        BY <1>2 DEF all
      <3>3. /\ rewSnaps' \in Seq(Back!Snap)
            /\ Len(rewSnaps') = IF n + 1 <= Len(all) THEN Len(all) - (n + 1) + 1 ELSE 0
            /\ \A i \in 1 .. Len(rewSnaps') : i + (n + 1) - 1 \in 1 .. Len(all)
                                          /\ rewSnaps'[i] = all[i + (n + 1) - 1]
        BY <2>1, <3>1, <3>2, PartOf
      <3>4. \A i \in Nat : i + (n + 1) - 1 = i + n
        BY <3>1
      <3>5. Len(rewSnaps') <= Keep
        BY <2>1, <3>1, <3>2, <3>3 DEF Back!RewindAssumption
      <3> QED
        BY <3>1, <3>3, <3>4, <3>5
    <2>4. \A i \in 1 .. Len(all) : 
             /\ all[i].past \in Past /\ Been(all[i].past, rewPast)
             /\ ~rewSwapped => all[i].disc = rewDisc
      BY <1>0, <2>1, <2>2, <2>c DEF RewindInv, Dated, Chain, DiscIn
    <2>5. \A i, j \in 1 .. Len(all) : i < j => Been(all[i].past, all[j].past)
      BY <2>1, <2>2, <2>c DEF RewindInv, Chain
    <2>6. \A i, j \in 1 .. Len(rewSnaps') : i < j => Been(rewSnaps'[i].past, rewSnaps'[j].past)
      <3> SUFFICES ASSUME NEW i \in 1 .. Len(rewSnaps'), NEW j \in 1 .. Len(rewSnaps'), i < j
                   PROVE  Been(rewSnaps'[i].past, rewSnaps'[j].past)
        OBVIOUS
      <3>1. i + n \in 1 .. Len(all) /\ j + n \in 1 .. Len(all) /\ i + n < j + n
        BY <2>3
      <3>2. Been(all[i + n].past, all[j + n].past)
        BY <2>5, <3>1
      <3> QED
        BY <2>3, <3>2
    <2>7. \A i \in 1 .. Len(rewSnaps') : rewSnaps'[i] \in Back!Snap
      BY <2>3
    <2>8. rewGame # None
      BY <2>c DEF RewindInv, NoGame
    <2>9. Back!TypeOK'
      BY <1>0, <2>3, <2>7 DEF RewindInv, Back!TypeOK, Back!Snap, Back!Moment
    <2>10. Dated' /\ Chain' /\ DiscIn' /\ NoGame'
      BY <1>0, <2>3, <2>4, <2>6, <2>8
         DEF RewindInv, Dated, Past, Chain, Been, DiscIn, NoGame, Current
    <2> QED
      BY <2>3, <2>9, <2>10 DEF RewindInv, Back!Snap, Back!Moment
  <1> QED
    BY <1>0, <1>1, <1>2 DEF Back!Compressed

LEMMA StepBackStep ==
    ASSUME Back!RewindAssumption, RewindInv, Back!StepBack
    PROVE  /\ RewindInv'
           /\ rewPast' \subseteq rewPast \/ rewPast' \in rewLate
           /\ Back!Last(rewSnaps).disc = rewDisc \/ rewSwapped
  <1>0. /\ rewSnaps # <<>> /\ rewSnaps \in Seq(Back!Snap)
        /\ UNCHANGED <<rewChange, rewGame, rewClock, rewDisc, rewInserting, rewGeneration,
                       rewPending, rewSaved,
                       rewLoading, rewTurns, rewSwapped>>
        /\ rewLate' = rewLate \cup (IF rewPending = None THEN {} ELSE {rewPending.snap.past})
        /\ rewPast' \in {Back!Last(rewSnaps).past, rewPast}
    BY DEF Back!StepBack, Back!states, RewindInv
  <1> DEFINE n == Len(rewSnaps)
  <1>1. n \in 1 .. Len(rewSnaps) /\ Back!Last(rewSnaps) = rewSnaps[n] /\ rewSnaps[n] \in Back!Snap
    <2>1. Len(rewSnaps) \in Nat /\ Len(rewSnaps) # 0
      BY <1>0
    <2> QED
      BY <1>0, <2>1 DEF Back!Last
  <1>2. /\ rewSnaps' \in Seq(Back!Snap) /\ Len(rewSnaps') = n - 1
        /\ \A i \in 1 .. Len(rewSnaps') : 
              i \in 1 .. n /\ i < n /\ rewSnaps'[i] = rewSnaps[i]
    <2>1. rewSnaps' = SubSeq(rewSnaps, 1, n - 1)
      BY DEF Back!StepBack, Back!Front
    <2>2. n - 1 \in 0 .. n /\ 1 \in 1 .. n + 1
      BY <1>1
    <2>3. /\ rewSnaps' \in Seq(Back!Snap)
                /\ Len(rewSnaps') = IF 1 <= n - 1 THEN n - 1 - 1 + 1 ELSE 0
          /\ \A i \in 1 .. Len(rewSnaps') :
                i + 1 - 1 \in 1 .. Len(rewSnaps) /\ rewSnaps'[i] = rewSnaps[i + 1 - 1]
      BY <1>0, <2>1, <2>2, PartOf
    <2>4. n \in Nat /\ n >= 1
      BY <1>1
    <2> HIDE DEF n
    <2>5. Len(rewSnaps') = n - 1
      BY <2>3, <2>4
    <2>6. \A i \in 1 .. Len(rewSnaps') : i \in 1 .. n /\ i < n /\ i + 1 - 1 = i
      BY <2>4, <2>5
    <2> QED
      BY <2>3, <2>5, <2>6
  <1>n. n \in Nat /\ n <= Keep
    BY <1>1 DEF RewindInv, Back!TypeOK
  <1> HIDE DEF n
  <1>3. rewPast' \in Past /\ Past' = Past
    BY <1>0, <1>1 DEF n, RewindInv, Back!TypeOK, Dated, Past
  <1>4. rewLate \subseteq rewLate' /\ rewLate' \subseteq SUBSET Back!Moment
        /\ (rewPending # None => rewPending.snap.past \in rewLate')
    BY <1>0 DEF RewindInv, Back!TypeOK, Back!Snap
  <1>5. \A i \in 1 .. Len(rewSnaps') : rewSnaps'[i] \in Back!Snap
    BY <1>2
  <1>6. Back!TypeOK'
    <2>1. Len(rewSnaps') <= Keep
      BY <1>2, <1>n DEF Back!RewindAssumption
    <2> QED
      BY <1>0, <1>3, <1>4, <1>5, <2>1 DEF RewindInv, Back!TypeOK, Past, Back!Snap, Back!Moment
  <1>7. Dated'
    BY <1>0, <1>2, <1>3 DEF n, RewindInv, Dated
  <1>8. \A i \in 1 .. Len(rewSnaps') : rewSnaps'[i].past \in rewLate'
        \/ rewSnaps'[i].past \subseteq rewPast'
    BY <1>0, <1>1, <1>2, <1>4 DEF n, RewindInv, Chain, Been
  <1>9. Chain'
    BY <1>0, <1>2, <1>4, <1>8 DEF n, RewindInv, Chain, Been, Current
  <1>10. DiscIn' /\ NoGame'
    BY <1>0, <1>1, <1>2 DEF n, RewindInv, DiscIn, NoGame, Current
  <1>11. rewPast' \subseteq rewPast \/ rewPast' \in rewLate
    BY <1>0, <1>1 DEF n, RewindInv, Chain, Been
  <1>12. Back!Last(rewSnaps).disc = rewDisc \/ rewSwapped
    BY <1>1 DEF n, RewindInv, DiscIn
  <1> QED
    BY <1>2, <1>6, <1>7, <1>9, <1>10, <1>11, <1>12 DEF RewindInv, Back!Snap, Back!Moment

LEMMA PlayStep ==
    ASSUME Back!RewindAssumption, RewindInv, Back!PlayOn
    PROVE  RewindInv'
  <1>1. /\ rewGame # None /\ rewClock' = rewClock + 1 /\ rewClock' \in 0 .. MaxClock
        /\ rewPast' = rewPast \cup {<<rewGame, rewClock'>>}
        /\ UNCHANGED <<rewChange, rewGame, rewDisc, rewInserting, rewSaved, rewLoading, rewTurns,
                       rewLate, rewSwapped,
                       rewSnaps, rewGeneration>>
        /\ \/ rewPending = None /\ rewPending' = [snap |-> [past |-> rewPast', disc |-> rewDisc],
                                            gen |-> rewGeneration]
           \/ rewPending' = rewPending
    BY DEF Back!PlayOn, Back!Offer, Back!keep, Back!states, Back!history, RewindInv, Back!TypeOK,
           Back!RewindAssumption
  <1>2. Past \subseteq Past' /\ rewPast \subseteq rewPast' /\ rewClock \in Nat
    BY <1>1 DEF RewindInv, Back!TypeOK, Past
  <1>3. rewPast' \in Past'
    <2>1. <<rewGame, rewClock'>> \in Games \X (1 .. rewClock')
      BY <1>1, <1>2 DEF RewindInv, Back!TypeOK
    <2>2. rewPast \in Past
      BY DEF RewindInv, Back!TypeOK, Past
    <2> QED
      BY <1>1, <1>2, <2>1, <2>2 DEF Past
  <1>4. Past' \subseteq SUBSET Back!Moment /\ [past |-> rewPast', disc |-> rewDisc] \in Back!Snap
    <2>1. 1 .. rewClock' \subseteq 1 .. MaxClock
      BY <1>1, <1>2 DEF Back!RewindAssumption
    <2>2. Past' \subseteq SUBSET Back!Moment
      BY <2>1 DEF Past, Back!Moment
    <2> QED
      BY <1>3, <2>2 DEF Back!Snap, RewindInv, Back!TypeOK
  <1>5. Back!TypeOK'
    <2>1. rewPast' \subseteq Games \X (1 .. rewClock')
      BY <1>3 DEF Past
    <2>2. rewPending' # None
          => rewPending'.snap \in Back!Snap /\ rewPending'.gen \in 0 .. rewGeneration
      <3>1. rewGeneration \in 0 .. rewGeneration
        BY DEF RewindInv, Back!TypeOK
      <3> DEFINE s == [past |-> rewPast', disc |-> rewDisc]
      <3>2. CASE rewPending' = [snap |-> s, gen |-> rewGeneration]
        <4> HIDE DEF s
        <4>1. rewPending'.snap = s /\ rewPending'.gen = rewGeneration
          BY <3>2
        <4> QED
          BY <1>4, <3>1, <4>1 DEF s
      <3>3. CASE rewPending' = rewPending
        BY <3>3 DEF RewindInv, Back!TypeOK
      <3> QED
        BY <1>1, <3>2, <3>3
    <2> QED
      BY <1>1, <2>1, <2>2 DEF RewindInv, Back!TypeOK, Back!Snap, Back!Moment
  <1>6. Dated'
    <2>1. rewPending' # None => rewPending'.snap.past \in Past'
      <3>1. CASE rewPending'
            = [snap |-> [past |-> rewPast', disc |-> rewDisc], gen |-> rewGeneration]
        BY <1>3, <3>1
      <3>2. CASE rewPending' = rewPending
        BY <1>2, <3>2 DEF RewindInv, Dated
      <3> QED
        BY <1>1, <3>1, <3>2
    <2> QED
      BY <1>1, <1>2, <2>1 DEF RewindInv, Dated
  <1>7. ASSUME NEW q, Been(q, rewPast) PROVE Been(q, rewPast')
    BY <1>2, <1>7 DEF Been
  <1>8. Chain'
    <2>1. CASE rewPending' = rewPending
      BY <1>1, <1>2, <2>1 DEF RewindInv, Chain, Been, Current
    <2>2. CASE rewPending'.snap.past = rewPast'
      <3>1. \A n \in 1 .. Len(rewSnaps) : Been(rewSnaps[n].past, rewPast')
        BY <1>7 DEF RewindInv, Chain
      <3> QED
        BY <1>1, <2>2, <3>1 DEF RewindInv, Chain, Been, Current
    <2> QED
      BY <1>1, <2>1, <2>2
  <1>9. DiscIn' /\ NoGame'
    BY <1>1 DEF RewindInv, DiscIn, NoGame, Current
  <1> QED
    BY <1>1, <1>5, <1>6, <1>8, <1>9 DEF RewindInv, Back!Snap, Back!Moment

\* The state that pumpStateLoad has is one that was saved.
LEMMA FetchedIs ==
    ASSUME RewindInv, NEW s \in Back!Fetched
    PROVE  s \in Back!Snap /\ s.past \in Past
  <1>1. PICK g \in {rewLoading, rewGame} \ {None} : s = rewSaved[g] /\ rewSaved[g] # None
    BY DEF Back!Fetched
  <1>2. g \in Games
    BY <1>1 DEF RewindInv, Back!TypeOK
  <1> QED
    BY <1>1, <1>2 DEF RewindInv, Back!TypeOK, Dated

LEMMA RefusedStep ==
    ASSUME Back!RewindAssumption, RewindInv, NEW s \in Back!Fetched, Back!StateRefused(s)
    PROVE  RewindInv'
  <1>1. /\ rewLoading' = None /\ rewDisc' \in Discs
              /\ rewSwapped' = (rewSwapped \/ rewDisc' # rewDisc)
        /\ UNCHANGED <<rewChange, rewGame, rewClock, rewPast, rewInserting, rewSnaps,
                       rewGeneration, rewPending, rewSaved,
                       rewTurns, rewLate>>
    <2>1. s.disc \in Discs /\ rewDisc \in Discs
      BY FetchedIs DEF Back!Snap, RewindInv, Back!TypeOK
    <2>2. rewDisc' \in {rewDisc, s.disc}
      BY DEF Back!StateRefused
    <2> QED
      BY <2>1, <2>2 DEF Back!StateRefused, Back!keep
  <1>2. rewSwapped' \in BOOLEAN
    BY <1>1
  <1>3. Back!TypeOK' /\ Dated' /\ Chain' /\ NoGame'
    BY <1>1, <1>2 DEF RewindInv, Back!TypeOK, Dated, Past, Chain, Been, NoGame, Current, Back!Snap,
                      Back!Moment
  <1>4. DiscIn'
    <2>1. CASE rewSwapped'
      BY <2>1 DEF DiscIn
    <2>2. CASE ~rewSwapped'
      <3>1. ~rewSwapped /\ rewDisc' = rewDisc
        BY <1>1, <2>2
      <3> QED
        BY <1>1, <3>1 DEF RewindInv, DiscIn, Current
    <2> QED
      BY <2>1, <2>2
  <1> QED
    BY <1>1, <1>3, <1>4 DEF RewindInv, Back!Snap, Back!Moment

LEMMA ResetSteps ==
    ASSUME Back!RewindAssumption, RewindInv,
           \/ \E s \in Back!Fetched : Back!StateLoads(s)
           \/ Back!StateAtOnce \/ Back!InsertEnds \/ Back!LeaveGame
    PROVE  RewindInv'
  <1>0. rewTurns \in 0 .. MaxTurns
    BY DEF RewindInv, Back!TypeOK
  <1>1. ASSUME NEW s \in Back!Fetched, Back!StateLoads(s) PROVE RewindInv'
    <2>1. /\ Back!Reset /\ UNCHANGED <<rewChange, rewClock, rewSaved, rewTurns, rewLate, rewGame,
                                       rewInserting>>
          /\ rewPast' = s.past /\ rewDisc' \in {rewDisc, s.disc} /\ rewLoading' = None
      BY <1>1 DEF Back!StateLoads
    <2>2. rewPast' \in Past /\ rewDisc' \in Discs
      BY <2>1, FetchedIs DEF RewindInv, Back!TypeOK, Back!Snap
    <2>3. rewGame' \in Games \cup {None} /\ rewInserting' \in Discs \cup {None}
      BY <2>1 DEF RewindInv, Back!TypeOK
    <2> QED
      BY <1>0, <2>1, <2>2, <2>3, ResetKeeps
  <1>2. CASE Back!InsertEnds
    <2>1. /\ Back!Reset /\ UNCHANGED <<rewChange, rewClock, rewSaved, rewTurns, rewLate, rewGame,
                                       rewLoading, rewPast>>
          /\ rewInserting # None /\ rewDisc' \in {rewDisc, rewInserting} /\ rewInserting' = None
      BY <1>2 DEF Back!InsertEnds, Back!states
    <2>2. /\ rewPast' \in Past /\ rewDisc' \in Discs /\ rewGame' \in Games \cup {None}
          /\ rewLoading' \in Games \cup {None}
      BY <2>1 DEF RewindInv, Back!TypeOK, Past
    <2> QED
      BY <1>0, <2>1, <2>2, ResetKeeps
  <1>3. CASE Back!LeaveGame
    <2>1. /\ Back!Reset /\ UNCHANGED <<rewChange, rewClock, rewSaved, rewTurns, rewLate, rewDisc,
                                       rewLoading>>
          /\ rewGame' = None /\ rewPast' = {} /\ rewInserting' = None
      BY <1>3 DEF Back!LeaveGame, Back!states
    <2>2. rewPast' \in Past /\ rewDisc' \in Discs /\ rewLoading' \in Games \cup {None}
      BY <2>1 DEF RewindInv, Back!TypeOK, Past
    <2> QED
      BY <1>0, <2>1, <2>2, ResetKeeps
  <1>4. CASE Back!StateAtOnce
    <2>1. /\ Back!Reset /\ UNCHANGED <<rewChange, rewClock, rewSaved, rewLate, rewGame,
                                       rewLoading, rewInserting>>
          /\ rewGame # None /\ rewSaved[rewGame] # None
          /\ rewPast' \in {rewSaved[rewGame].past} \cup Back!StepsTo
          /\ rewDisc' \in {rewDisc, rewSaved[rewGame].disc}
          /\ rewTurns < MaxTurns /\ rewTurns' = rewTurns + 1
      BY <1>4 DEF Back!StateAtOnce, Back!states, Back!Turn
    <2>2. rewTurns' \in 0 .. MaxTurns
      BY <1>0, <2>1 DEF Back!RewindAssumption
    <2>3. /\ rewGame' \in Games \cup {None} /\ rewInserting' \in Discs \cup {None}
          /\ rewLoading' \in Games \cup {None}
      BY <2>1 DEF RewindInv, Back!TypeOK
    <2>4. rewGame \in Games /\ rewSaved[rewGame] \in Back!Snap /\ rewSaved[rewGame].past \in Past
      BY <2>1 DEF RewindInv, Back!TypeOK, Dated
    <2>5. Back!StepsTo \subseteq Past
      <3>1. DOMAIN rewSnaps = 1 .. Len(rewSnaps)
        BY DEF RewindInv
      <3> QED
        BY <3>1 DEF RewindInv, Dated, Back!StepsTo
    <2>6. rewPast' \in Past /\ rewDisc' \in Discs
      BY <2>1, <2>4, <2>5 DEF Back!Snap, RewindInv, Back!TypeOK
    <2> QED
      BY <2>1, <2>2, <2>3, <2>6, ResetKeeps
  <1> QED
    BY <1>1, <1>2, <1>3, <1>4

LEMMA OtherSteps ==
    ASSUME Back!RewindAssumption, RewindInv,
           \/ Back!SaveState \/ Back!AskState \/ Back!NoState
           \/ \E d \in Discs : Back!BeginInsert(d)
           \/ \E g \in Games, d \in Discs : Back!StartGame(g, d)
           \/ UNCHANGED Back!vars
    PROVE  RewindInv'
  <1>1. CASE Back!SaveState
    <2>1. /\ rewGame \in Games /\ rewSaved' = [rewSaved EXCEPT ![rewGame] = Back!Now]
          /\ UNCHANGED <<rewChange, rewClock, rewGame, rewPast, rewDisc, rewInserting, rewSnaps,
                         rewGeneration,
                         rewPending, rewLoading, rewTurns, rewLate, rewSwapped>>
      BY <1>1 DEF Back!SaveState, Back!machine, Back!keep, Back!history, RewindInv, Back!TypeOK
    <2>2. Back!Now \in Back!Snap /\ Back!Now.past \in Past
      BY DEF Back!Now, Back!Snap, Back!Moment, Past, RewindInv, Back!TypeOK, Back!RewindAssumption
    <2>3. \A g \in Games : rewSaved'[g] = None \/ (rewSaved'[g] \in Back!Snap
          /\ rewSaved'[g].past \in Past)
      BY <2>1, <2>2 DEF RewindInv, Back!TypeOK, Dated
    <2>4. Back!TypeOK' /\ Dated'
      BY <2>1, <2>3 DEF RewindInv, Back!TypeOK, Dated, Past, Back!Snap, Back!Moment
    <2>5. Chain' /\ DiscIn' /\ NoGame'
      BY <2>1 DEF RewindInv, Chain, Been, DiscIn, NoGame, Current
    <2> QED
      BY <2>1, <2>4, <2>5 DEF RewindInv, Back!Snap, Back!Moment
  <1>2. CASE \/ Back!AskState \/ Back!NoState \/ UNCHANGED Back!vars
             \/ \E d \in Discs : Back!BeginInsert(d)
    <2>1. /\ UNCHANGED <<rewChange, rewClock, rewGame, rewPast, rewDisc, rewSnaps, rewGeneration,
                         rewPending, rewSaved,
                         rewLate, rewSwapped>>
          /\ rewLoading' \in Games \cup {None} /\ rewInserting' \in Discs \cup {None}
          /\ rewTurns' \in 0 .. MaxTurns
      BY <1>2 DEF Back!AskState, Back!NoState, Back!BeginInsert, Back!Turn, Back!vars,
                  Back!machine, Back!keep, Back!states, Back!history,
                  RewindInv, Back!TypeOK, Back!RewindAssumption
    <2>2. Back!TypeOK' /\ Dated'
      BY <2>1 DEF RewindInv, Back!TypeOK, Dated, Past, Back!Snap, Back!Moment
    <2>3. Chain' /\ DiscIn' /\ NoGame'
      BY <2>1 DEF RewindInv, Chain, Been, DiscIn, NoGame, Current
    <2> QED
      BY <2>1, <2>2, <2>3 DEF RewindInv, Back!Snap, Back!Moment
  <1>3. ASSUME NEW g \in Games, NEW d \in Discs, Back!StartGame(g, d)
        PROVE  RewindInv'
    <2>1. /\ UNCHANGED <<rewChange, rewClock, rewPast, rewInserting, rewSnaps, rewGeneration,
                         rewPending, rewSaved,
                         rewLoading, rewLate, rewSwapped>>
          /\ rewGame = None /\ rewGame' = g /\ rewDisc' = d /\ rewTurns' \in 0 .. MaxTurns
      BY <1>3 DEF Back!StartGame, Back!Turn, Back!keep, Back!states, Back!history, RewindInv,
                  Back!TypeOK, Back!RewindAssumption
    <2>2. rewSnaps = <<>> /\ ~Current /\ 1 .. Len(rewSnaps) = {}
      BY <2>1 DEF RewindInv, NoGame
    <2>3. Back!TypeOK' /\ Dated'
      BY <2>1 DEF RewindInv, Back!TypeOK, Dated, Past, Back!Snap, Back!Moment
    <2>4. Chain' /\ DiscIn' /\ NoGame'
      BY <2>1, <2>2 DEF Chain, DiscIn, NoGame, Current
    <2> QED
      BY <2>1, <2>3, <2>4 DEF RewindInv, Back!Snap, Back!Moment
  <1> QED
    BY <1>1, <1>2, <1>3

LEMMA RewindStep == ASSUME Back!RewindAssumption, RewindInv, [Back!Next]_Back!vars PROVE RewindInv'
  <1>1. CASE Back!Next
    <2>1. CASE Back!PlayOn \/ Back!StepBack \/ Back!Compressed
      BY <2>1, PlayStep, StepBackStep, CompressedStep
    <2>2. CASE \E s \in Back!Fetched : Back!StateRefused(s)
      BY <2>2, RefusedStep
    <2>3. CASE \/ \E s \in Back!Fetched : Back!StateLoads(s)
               \/ Back!StateAtOnce \/ Back!InsertEnds \/ Back!LeaveGame
      BY <2>3, ResetSteps
    <2>4. CASE \/ Back!SaveState \/ Back!AskState \/ Back!NoState
               \/ \E d \in Discs : Back!BeginInsert(d)
      BY <2>4, OtherSteps
    <2>5. CASE \E g \in Games, d \in Discs : Back!StartGame(g, d)
      BY <2>5, OtherSteps
    <2>6. CASE Back!Home
      BY <2>6, OtherSteps DEF Back!Home
    <2> QED
      BY <1>1, <2>1, <2>2, <2>3, <2>4, <2>5, <2>6 DEF Back!Next
  <1>2. CASE UNCHANGED Back!vars
    BY <1>2, OtherSteps
  <1> QED
    BY <1>1, <1>2

\* The invariant of the snapshots.
THEOREM RewindInvariant == ASSUME Back!RewindAssumption PROVE Back!Spec => []RewindInv
  <1>1. Back!Init => RewindInv
    <2> SUFFICES ASSUME Back!Init PROVE RewindInv
      OBVIOUS
    <2>1. /\ rewSnaps = <<>> /\ rewSnaps \in Seq(Back!Snap) /\ Len(rewSnaps) = 0
                /\ 1 .. Len(rewSnaps) = {}
          /\ ~Current
      BY DEF Back!Init, Current
    <2>2. Back!TypeOK
      <3>1. /\ rewChange \in {"insert", "startOver"} /\ rewClock = 0 /\ rewGame = None
                  /\ rewPast = {}
            /\ rewDisc \in Discs /\ rewInserting = None /\ rewGeneration = 0 /\ rewPending = None
            /\ \A g \in Games : rewSaved[g] = None
            /\ rewLoading = None /\ rewTurns = 0 /\ rewLate = {} /\ rewSwapped = FALSE
        BY DEF Back!Init
      <3>2. 0 \in 0 .. MaxClock /\ 0 \in 0 .. MaxTurns /\ 0 <= Keep
        BY DEF Back!RewindAssumption
      <3> QED
        BY <2>1, <3>1, <3>2 DEF Back!TypeOK
    <2>3. Dated /\ Chain /\ DiscIn /\ NoGame
      BY <2>1 DEF Back!Init, Dated, Chain, DiscIn, NoGame
    <2> QED
      BY <2>1, <2>2, <2>3 DEF RewindInv
  <1>2. RewindInv /\ [Back!Next]_Back!vars => RewindInv'
    BY RewindStep
  <1> QED
    BY <1>1, <1>2, PTL DEF Back!Spec

\* A step back goes to where this machine has been, with its disc in, or to what was
\* being compressed at a step back, or with the disc of a refused state (rewind.cpp,
\* pace.cpp, states.cpp), for any games, discs and bounds.
THEOREM BackIsWhereItWas == ASSUME Back!RewindAssumption PROVE Back!Spec => Back!RewindsBack
  <1>1. RewindInv /\ [Back!Next]_Back!vars =>
          [Back!StepBack =>
              /\ rewPast' \subseteq rewPast \/ rewPast' \in rewLate
              /\ Back!Last(rewSnaps).disc = rewDisc \/ rewSwapped]_Back!vars
    <2> SUFFICES ASSUME RewindInv, Back!StepBack
                 PROVE  /\ rewPast' \subseteq rewPast \/ rewPast' \in rewLate
                        /\ Back!Last(rewSnaps).disc = rewDisc \/ rewSwapped
      OBVIOUS
    <2> QED
      BY StepBackStep
  <1> QED
    BY <1>1, RewindInvariant, PTL DEF Back!Spec, Back!RewindsBack

-----------------------------------------------------------------------------
(* The five parts together, as Queue_all checks them. *)

\* A behaviour of the whole is one of each part.
LEMMA PartsAre ==
    QueuesSpec => Spec /\ Drive!Spec /\ Back!Spec /\ Pad!Spec
  <1>1. QueuesInit => Init /\ Drive!Init /\ Back!Init /\ Pad!Init
    BY DEF QueuesInit
  <1>2. UNCHANGED drvVars => UNCHANGED Drive!vars
    BY DEF drvVars, Drive!vars, Drive!game, Drive!place, Drive!own, Drive!frame, Drive!memory,
       Drive!history
  <1>3. UNCHANGED rewVars => UNCHANGED Back!vars
    BY DEF rewVars, Back!vars, Back!machine, Back!keep, Back!states, Back!history
  <1>4. UNCHANGED padVars => UNCHANGED Pad!vars
    BY DEF padVars, Pad!vars
  <1>5. [QueuesNext]_<<part, vars, drvVars, rewVars, padVars>>
          => /\ [Next]_vars /\ [Drive!Next]_Drive!vars
             /\ [Back!Next]_Back!vars /\ [Pad!Next]_Pad!vars
    BY <1>2, <1>3, <1>4 DEF QueuesNext
  <1> QED
    BY <1>1, <1>5, PTL DEF QueuesSpec, Spec, Drive!Spec, Back!Spec, Pad!Spec

\* Every variable of every part holds what its declaration says.
THEOREM QueuesTypes ==
    ASSUME Drive!DriveAssumption, Back!RewindAssumption, Pad!PadsAssumption
    PROVE  QueuesSpec => []Types
  <1>1. RewindInv /\ PadsInv => Back!TypeOK /\ Pad!TypeOK
    BY DEF RewindInv, PadsInv
  <1> QED
    BY <1>1, PartsAre, TypeCorrect, Drive!DriveSavesTypes, RewindInvariant, PadsInvariant, PTL
       DEF Types

\* Whoever made a save has it somewhere that is looked at, with an emulator run as a
\* program (standalone_xemu.cpp, beforeStart, afterEnd, recoverDriveSaves).
THEOREM QueuesAccounted ==
    ASSUME Drive!DriveAssumption PROVE QueuesSpec => []Accounted
  BY PartsAre, Drive!NewestIsFound, PTL DEF Accounted

\* What goes up is one save, never a mixture (standalone_xemu.cpp, afterEnd).
THEOREM QueuesWhole ==
    ASSUME Drive!DriveAssumption PROVE QueuesSpec => []WholeGoesUp
  BY PartsAre, Drive!NoMixtureGoesUp, PTL DEF WholeGoesUp

\* A step back goes to where this machine has been, with its disc in (pace.cpp).
THEOREM QueuesRewind ==
    ASSUME Back!RewindAssumption PROVE QueuesSpec => RewindsBack
  BY PartsAre, BackIsWhereItWas, PTL DEF RewindsBack

\* In a game nobody's number changes, and it is theirs when they are back (players.cpp).
THEOREM QueuesNumbers ==
    ASSUME Pad!PadsAssumption PROVE QueuesSpec => NumbersHold
  BY PartsAre, NumbersStandInAGame, PTL DEF NumbersHold

\* What the upload queue promises, in the behaviours Queue_all checks: its types and
\* its inductive invariant, everything sent as its owner, what is owed known, and
\* the states a rotation keeps.
THEOREM QueuesUploads ==
    QueuesSpec => [](TypeOK /\ IndInv /\ SentAsOwner /\ OwedKnown) /\ RotationKeeps
  BY PartsAre, TypeCorrect, Invariant, SentAsOwnerHolds, OwedKnownHolds,
     RotationKeepsNewest, PTL
=============================================================================
