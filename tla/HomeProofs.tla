--------------------------- MODULE HomeProofs ---------------------------
(***************************************************************************)
(* Proofs about PlayTime, Favourites and FileWrite, for any values of      *)
(* their constants, and about what Home_all checks of the parts together.  *)
(*                                                                         *)
(* Play time. The record is rewritten by the frame thread and by the       *)
(* upload worker, one reading what the other has changed since.  That      *)
(* nothing is lost or counted twice rests on two facts: what ended and     *)
(* counts is known by its start alone (Starting), and what the worker      *)
(* works from, list, batch and outcome, is still owed when sent rewrites   *)
(* the record (Sending).                                                   *)
(*                                                                         *)
(* Favourites. What is owed is the last press (LastIsOwed) and is what the *)
(* list shows; what the worker sends is still owed, perhaps pressed again  *)
(* (Hearing).                                                              *)
(*                                                                         *)
(* Files. cab::writeBytes keeps its promise (OneWrite) whatever the size   *)
(* of the file, provided one writer is at it at a time: two that share the *)
(* temporary break it (README.md, Files_together). The file's name, and    *)
(* the one the disk may bring back, are always of an inode that is whole   *)
(* and synced and that no writer has open (Sound).                         *)
(***************************************************************************)
EXTENDS MCHome, ListsProofs

\* Sets that are counted are finite.
Finite == IsFiniteSet(owed) /\ IsFiniteSet(onRomM)

\* What the worker works from is still owed, and RomM has what it said it has.
Sending ==
    /\ list \subseteq owed /\ batch \subseteq list /\ outcome \subseteq batch
    /\ outcome \ denied \subseteq onRomM

\* Sessions are owed, refused or, but those of before, on RomM after they ended.
Ending ==
    /\ owed \subseteq ended /\ refused \subseteq ended
    /\ \A s \in onRomM : s.start # 0 => s \in ended

\* At most one session is played and one written as open, perhaps not the same;
\* neither has ended, and no session has yet the start of the next.
Starting ==
    /\ \A c, d \in clock : c = d
    /\ \A s, t \in open : s = t
    /\ \A c \in clock : c.start \in 1 .. begun
    /\ \A s \in open : s.start \in 1 .. begun
    /\ \A s \in ended : s.start \in 1 .. begun
    /\ \A s \in open, t \in ended : s.start # t.start

\* The checkpoint comes when its minute is over, and a start plays nothing.
Paced ==
    /\ fpc # "checkpoint" => sinceCheck < Minute
    /\ fpc = "start" => clock = None

\* What the clock says and the last checkpoint does not is since the checkpoint.
Checked ==
    \A c \in clock :
        Counted(c) <= sinceCheck \/ \E s \in open : /\ s.start = c.start
                                                    /\ Counted(c) <= s.ms + sinceCheck

\* What a power cut ended is still open at the start, as recover will find it.
ToRecover ==
    fpc = "start" =>
        \A c \in cut : c.ms >= 2 * Minute
            => \E s \in open : s.start = c.start /\ s.ms + Minute >= c.ms

IInv ==
    /\ TypeOK /\ Finite /\ Sending /\ Ending /\ Starting /\ Paced /\ Checked /\ ToRecover
    /\ NoneLost /\ EndsOnce /\ CutLosesAMinute /\ KnownExact

-----------------------------------------------------------------------------
(* Totals.                                                                 *)

\* The sessions of one start in a finite set are finitely many.
LEMMA CountedOnce ==
    ASSUME NEW S, IsFiniteSet(S), NEW n
    PROVE  /\ IsFiniteSet({s \in S : s.start = n})
           /\ Cardinality({s \in S : s.start = n}) \in Nat
  <1>1. {s \in S : s.start = n} \in SUBSET S
    OBVIOUS
  <1> QED
    BY <1>1, FS_Subset, FS_CardinalityType

LEMMA TotalType ==
    ASSUME NEW S, IsFiniteSet(S)
    PROVE  TotalOf(S) \in Total
  <1>1. \A n \in Starts : Cardinality({s \in S : s.start = n}) \in Nat
    BY CountedOnce
  <1> QED
    BY <1>1 DEF TotalOf, Total

\* The total of two sets with nothing in common is the sum of theirs.
LEMMA TotalAdds ==
    ASSUME NEW S, NEW D, IsFiniteSet(S), IsFiniteSet(D), S \cap D = {}
    PROVE  TotalOf(S \cup D) = [n \in Starts |-> TotalOf(S)[n] + TotalOf(D)[n]]
  <1>1. ASSUME NEW n \in Starts
        PROVE  TotalOf(S \cup D)[n] = TotalOf(S)[n] + TotalOf(D)[n]
    <2> DEFINE inS == {s \in S : s.start = n}
               inD == {s \in D : s.start = n}
    <2>1. IsFiniteSet(inS) /\ IsFiniteSet(inD)
      BY CountedOnce
    <2>2. {s \in S \cup D : s.start = n} = inS \cup inD /\ inS \cap inD = {}
      OBVIOUS
    <2>3. Cardinality(inS) \in Nat /\ Cardinality(inD) \in Nat
      BY CountedOnce
    <2> HIDE DEF inS, inD
    <2>4. Cardinality(inS \cup inD) = Cardinality(inS) + Cardinality(inD)
      <3>1. Cardinality(inS \cap inD) = 0
        BY <2>2, FS_EmptySet
      <3>2. Cardinality(inS \cup inD)
              = Cardinality(inS) + Cardinality(inD) - Cardinality(inS \cap inD)
        BY <2>1, FS_Union
      <3> QED
        BY <2>3, <3>1, <3>2
    <2>5. /\ TotalOf(S)[n] = Cardinality(inS) /\ TotalOf(D)[n] = Cardinality(inD)
          /\ TotalOf(S \cup D)[n] = Cardinality(inS \cup inD)
      BY <2>2 DEF TotalOf, inS, inD
    <2> QED
      BY <2>4, <2>5
  <1> QED
    BY <1>1 DEF TotalOf

LEMMA FiniteOf ==
    ASSUME NEW S, IsFiniteSet(S), NEW g
    PROVE  IsFiniteSet(Of(g, S))
  <1>1. Of(g, S) \in SUBSET S
    BY DEF Of
  <1> QED
    BY <1>1, FS_Subset

-----------------------------------------------------------------------------
(* Types, and what is finite.                                              *)

LEMMA TypeInit == ASSUME PlayAssumption, Init PROVE TypeOK /\ Finite
  <1>1. onRomM \subseteq Session /\ IsFiniteSet(onRomM)
    <2>1. CASE onRomM = {}
      BY <2>1, FS_EmptySet
    <2>2. ASSUME NEW g \in Games, onRomM = {[game |-> g, start |-> 0, ms |-> Minute]}
          PROVE  onRomM \subseteq Session /\ IsFiniteSet(onRomM)
      <3>1. onRomM \subseteq Session
        BY <2>2 DEF PlayAssumption, Session, Starts
      <3>2. IsFiniteSet(onRomM)
        BY <2>2, FS_Singleton
      <3> QED
        BY <3>1, <3>2
    <2>3. onRomM = {} \/ \E g \in Games : onRomM = {[game |-> g, start |-> 0, ms |-> Minute]}
      BY ZenonT(30) DEF Init
    <2> QED
      BY <2>1, <2>2, <2>3
  <1>2. known \in [Games -> SUBSET Total]
    BY DEF Init, None
  <1> QED
    BY <1>1, <1>2, FS_EmptySet DEF Init, TypeOK, Finite, None, PlayAssumption

\* A session as its clock tells it.
LEMMA NowType ==
    ASSUME TypeOK, NEW c \in clock
    PROVE  /\ Now(c) \in Session /\ Now(c).start = c.start
           /\ Now(c).ms = Counted(c) /\ Counted(c) \in Nat
  BY DEF TypeOK, Now, Counted, Session

LEMMA OwingType ==
    ASSUME NEW s \in Session, NEW S, S \subseteq Session
    PROVE  /\ Owing(s, S) \subseteq Session /\ S \subseteq Owing(s, S)
           /\ Owing(s, S) \subseteq S \cup {s}
           /\ IsFiniteSet(S) => IsFiniteSet(Owing(s, S))
  BY FS_AddElement DEF Owing

LEMMA TypeFrame == ASSUME PlayAssumption, TypeOK, Finite, Paced, Frame PROVE TypeOK' /\ Finite'
  <1> USE DEF record, played, worker, page, history, None, Some
  <1>1. CASE Recover
    <2>1. CASE open = {} /\ UNCHANGED <<owed, ended>>
      BY <1>1, <2>1 DEF Recover, TypeOK, Finite
    <2>2. ASSUME NEW s \in open, owed' = Owing(s, owed), ended' = Owing(s, ended)
          PROVE  TypeOK' /\ Finite'
      <3>1. owed' \subseteq Session /\ ended' \subseteq Session /\ IsFiniteSet(owed')
        BY <2>2, OwingType DEF TypeOK, Finite
      <3> QED
        BY <1>1, <3>1 DEF Recover, TypeOK, Finite
    <2> QED
      BY <1>1, <2>1, <2>2 DEF Recover
  <1>2. CASE Touch
    <2>1. PICK c \in clock : clock' = {[c EXCEPT !.since = 0,
              !.kept = IF c.since < Unwatched THEN @ + c.since ELSE @]}
      BY <1>2 DEF Touch
    <2>2. c \in [game : Games, start : Starts, kept : Nat, since : Nat]
      BY DEF TypeOK
    <2>3. (IF c.since < Unwatched THEN c.kept + c.since ELSE c.kept) \in Nat
      BY <2>2
    <2> DEFINE kept == IF c.since < Unwatched THEN c.kept + c.since ELSE c.kept
    <2>4. [c EXCEPT !.since = 0, !.kept = kept]
             \in [game : Games, start : Starts, kept : Nat, since : Nat]
      <3> HIDE DEF kept
      <3> QED
        BY <2>2, <2>3 DEF kept
    <2>5. clock' \subseteq [game : Games, start : Starts, kept : Nat, since : Nat]
      BY <2>1, <2>4
    <2> QED
      BY <1>2, <2>5 DEF Touch, TypeOK, Finite
  <1>3. CASE Checkpoint
    <2>1. open' \subseteq Session
      BY <1>3, NowType DEF Checkpoint, Checkpointed
    <2> QED
      BY <1>3, <2>1 DEF Checkpoint, TypeOK, Finite, PlayAssumption
  <1>4. CASE Close
    <2>1. PICK c \in clock : owed' = Owing(Now(c), owed) /\ ended' = Owing(Now(c), ended)
      BY <1>4 DEF Close
    <2>2. owed' \subseteq Session /\ ended' \subseteq Session /\ IsFiniteSet(owed')
      BY <2>1, NowType, OwingType DEF TypeOK, Finite
    <2> QED
      BY <1>4, <2>2 DEF Close, Closed, TypeOK, Finite
  <1>5. CASE Abandon
    BY <1>5 DEF Abandon, TypeOK, Finite
  <1>6. ASSUME NEW g \in Games, Begin(g) PROVE TypeOK' /\ Finite'
    BY <1>6 DEF Begin, TypeOK, Finite, Starts, PlayAssumption
  <1>7. ASSUME NEW running \in BOOLEAN, Tick(running) PROVE TypeOK' /\ Finite'
    <2>1. sinceCheck' \in 0 .. Minute /\ fpc' \in {"checkpoint", "loop"}
      BY <1>7 DEF Tick, TypeOK, Paced, PlayAssumption
    <2>2. clock' \subseteq [game : Games, start : Starts, kept : Nat, since : Nat]
      BY <1>7 DEF Tick, TypeOK
    <2> QED
      BY <1>7, <2>1, <2>2 DEF Tick, TypeOK, Finite
  <1> QED
    BY <1>1, <1>2, <1>3, <1>4, <1>5, <1>6, <1>7 DEF Frame

LEMMA TypeWorker ==
    ASSUME TypeOK, Finite, Sending, Uploading
    PROVE  TypeOK' /\ Finite'
  <1> USE DEF record, played, worker, page, history, None, Some
  <1>1. CASE TakeList
    BY <1>1 DEF TakeList, TypeOK, Finite
  <1>2. CASE NotSent
    BY <1>2 DEF NotSent, EndJob, TypeOK, Finite
  <1>3. CASE Sent
    <2>1. owed' \in SUBSET owed /\ IsFiniteSet(owed')
      <3>1. owed' \in SUBSET owed
        BY <1>3 DEF Sent, StillOwed
      <3> QED
        BY <3>1, FS_Subset DEF Finite
    <2>2. known' \in [Games -> SUBSET Total]
      <3>1. ASSUME NEW g \in Games PROVE AddedTo(known[g], Of(g, outcome)) \subseteq Total
        <4>1. outcome \in SUBSET owed
          BY DEF Sending
        <4>2. IsFiniteSet(Of(g, outcome))
          BY <4>1, FS_Subset, FiniteOf DEF Finite
        <4>3. TotalOf(Of(g, outcome)) \in Total /\ known[g] \subseteq Total
          BY <4>2, TotalType DEF TypeOK
        <4> QED
          BY <4>3 DEF AddedTo, Total
      <3> QED
        BY <1>3, <3>1 DEF Sent
    <2>3. denied \subseteq Session /\ drift' \subseteq Games
      BY <1>3 DEF Sent, TypeOK, Session
    <2>4. wpc' \in {"post", "idle"}
      BY <1>3 DEF Sent
    <2> QED
      BY <1>3, <2>1, <2>2, <2>3, <2>4 DEF Sent, TypeOK, Finite
  <1>4. ASSUME NEW taken \in SUBSET list, NEW bad \in SUBSET list, Post(taken, bad)
        PROVE  TypeOK' /\ Finite'
    <2>1. taken \in SUBSET owed /\ IsFiniteSet(onRomM')
      <3>1. taken \in SUBSET owed
        BY DEF Sending
      <3>2. IsFiniteSet(taken)
        BY <3>1, FS_Subset DEF Finite
      <3> QED
        BY <1>4, <3>1, <3>2, FS_Union DEF Finite, Post
    <2> QED
      BY <1>4, <2>1 DEF Post, NextBatch, TypeOK, Finite
  <1> QED
    BY <1>1, <1>2, <1>3, <1>4 DEF Uploading

LEMMA TypeOutside ==
    ASSUME PlayAssumption, TypeOK, Finite, Page \/ Crash
    PROVE  TypeOK' /\ Finite'
  <1> USE DEF record, played, worker, page, history, None, Some
  <1>1. CASE Remember
    BY <1>1 DEF Remember, TypeOK, Finite
  <1>2. ASSUME NEW g \in Games, FetchPlayed(g) PROVE TypeOK' /\ Finite'
    <2>1. TotalOf(Of(g, onRomM)) \in Total
      BY FiniteOf, TotalType DEF Finite
    <2> QED
      BY <1>2, <2>1 DEF FetchPlayed, TypeOK, Finite
  <1>3. CASE Crash
    <2>1. cut' \subseteq Session
      BY <1>3, NowType DEF Crash
    <2> QED
      BY <1>3, <2>1 DEF Crash, EndJob, TypeOK, Finite, PlayAssumption
  <1> QED
    BY <1>1, <1>2, <1>3 DEF Page

-----------------------------------------------------------------------------
(* What each thread leaves alone.                                          *)

\* The frame thread owes more and sends nothing.
LEMMA FrameOwes ==
    ASSUME Frame
    PROVE  /\ owed \subseteq owed' /\ ended \subseteq ended'
           /\ UNCHANGED <<known, onRomM, worker, page, refused, cut, drift>>
  <1> USE DEF record, played, history, worker, page
  <1>1. CASE Recover \/ Close
    BY <1>1 DEF Recover, Close, Owing
  <1>2. CASE Touch \/ Checkpoint \/ Abandon
    BY <1>2 DEF Touch, Checkpoint, Abandon
  <1>3. CASE (\E g \in Games : Begin(g)) \/ (\E running \in BOOLEAN : Tick(running))
    BY <1>3 DEF Begin, Tick
  <1> QED
    BY <1>1, <1>2, <1>3 DEF Frame

\* The upload worker plays nothing and ends no session.
LEMMA WorkerSends ==
    ASSUME Uploading
    PROVE  UNCHANGED <<open, played, runs, fpc, page, ended, cut>>
  BY DEF Uploading, TakeList, NotSent, Sent, Post, record, history

LEMMA PageReads ==
    ASSUME Page
    PROVE  UNCHANGED <<open, owed, onRomM, played, runs, fpc, worker, ended, refused, cut>>
  BY DEF Page, Remember, FetchPlayed, record, history

\* A session is known by its start: what sent leaves owed is all but what RomM
\* answered for, though it looks at nothing but the game and the start.
LEMMA SentExactly ==
    ASSUME Sending, Ending, EndsOnce
    PROVE  StillOwed(outcome) = owed \ outcome
  <1>1. ASSUME NEW s \in owed, NEW d \in outcome, <<d.game, d.start>> = <<s.game, s.start>>
        PROVE  s \in outcome
    <2>1. s \in ended /\ d \in ended
      BY DEF Sending, Ending
    <2> QED
      BY <1>1, <2>1 DEF EndsOnce
  <1> QED
    BY <1>1 DEF StillOwed

-----------------------------------------------------------------------------
(* What the worker works from is still owed.                               *)

LEMMA SendingStep == ASSUME Sending, Ending, EndsOnce, Next PROVE Sending'
  <1>1. CASE Frame
    BY <1>1, FrameOwes DEF Sending, worker
  <1>2. CASE TakeList
    BY <1>2 DEF TakeList, Sending, record
  <1>3. CASE NotSent
    BY <1>3 DEF NotSent, EndJob, Sending, record
  <1>4. CASE Sent
    <2>1. owed' = owed \ outcome
      BY <1>4, SentExactly DEF Sent
    <2> QED
      BY <1>4, <2>1 DEF Sent, Sending
  <1>5. ASSUME NEW taken, NEW bad, Post(taken, bad) PROVE Sending'
    BY <1>5 DEF Post, NextBatch, Sending, record
  <1>6. CASE Page
    BY <1>6, PageReads DEF Sending, worker
  <1>7. CASE Crash
    BY <1>7 DEF Crash, EndJob, Sending, record
  <1> QED
    BY <1>1, <1>2, <1>3, <1>4, <1>5, <1>6, <1>7 DEF Next, Uploading

LEMMA EndingStep == ASSUME TypeOK, Sending, Ending, EndsOnce, Next PROVE Ending'
  <1>1. CASE Recover \/ Close
    BY <1>1 DEF Recover, Close, Ending, Owing
  <1>2. CASE Touch \/ Checkpoint \/ Abandon
    BY <1>2 DEF Touch, Checkpoint, Abandon, Ending, record, history
  <1>3. CASE (\E g \in Games : Begin(g)) \/ (\E running \in BOOLEAN : Tick(running))
    BY <1>3 DEF Begin, Tick, Ending, record, history
  <1>4. CASE TakeList \/ NotSent
    BY <1>4 DEF TakeList, NotSent, Ending, record, history
  <1>5. CASE Sent
    <2>1. denied \subseteq ended
      BY <1>5 DEF Sent, TypeOK, Sending, Ending
    <2> QED
      BY <1>5, <2>1 DEF Sent, StillOwed, Ending
  <1>6. ASSUME NEW taken, NEW bad, Post(taken, bad) PROVE Ending'
    BY <1>6 DEF Post, NextBatch, Sending, Ending, record, history
  <1>7. CASE Page
    BY <1>7, PageReads DEF Ending
  <1>8. CASE Crash
    BY <1>8 DEF Crash, Ending, record
  <1> QED
    BY <1>1, <1>2, <1>3, <1>4, <1>5, <1>6, <1>7, <1>8 DEF Next, Frame, Uploading

-----------------------------------------------------------------------------
(* A session is known by its start, and ends once.                         *)

LEMMA StartingFrame ==
    ASSUME PlayAssumption, TypeOK, Starting, Paced, EndsOnce, Frame
    PROVE  Starting' /\ EndsOnce'
  <1> USE DEF record, history, worker, page, None, Some
  <1>0. begun \in Nat
    BY DEF TypeOK, PlayAssumption
  <1>1. CASE Recover
    <2>1. clock = {} /\ clock' = {} /\ open' = {} /\ begun' = begun
      BY <1>1 DEF Recover, Paced, played
    <2>2. ended' = ended \/ \E s \in open : ended' = ended \cup {s}
      BY <1>1 DEF Recover, Owing
    <2> QED
      BY <2>1, <2>2 DEF Starting, EndsOnce
  <1>2. CASE Touch
    <2>1. PICK c \in clock : \A d \in clock' : d.start = c.start /\ \A e \in clock' : d = e
      BY <1>2 DEF Touch, TypeOK
    <2> QED
      BY <1>2, <2>1 DEF Touch, Starting, EndsOnce
  <1>3. CASE Checkpoint
    <2>1. \A s \in open' : \E c \in clock : s = Now(c) /\ s.start = c.start
      BY <1>3, NowType DEF Checkpoint, Checkpointed
    <2> QED
      BY <1>3, <2>1 DEF Checkpoint, Starting, EndsOnce
  <1>4. CASE Close
    <2>1. PICK c \in clock : ended' = Owing(Now(c), ended)
      BY <1>4 DEF Close
    <2>2. ended' = ended \/ ended' = ended \cup {Now(c)}
      BY <2>1 DEF Owing
    <2>3. Now(c).start = c.start
      BY NowType
    <2> QED
      BY <1>4, <2>2, <2>3 DEF Close, Closed, Starting, EndsOnce
  <1>5. CASE Abandon
    BY <1>5 DEF Abandon, Starting, EndsOnce
  <1>6. ASSUME NEW g \in Games, Begin(g) PROVE Starting' /\ EndsOnce'
    <2>1. /\ begun' = begun + 1 /\ UNCHANGED <<open, ended>>
          /\ \A c \in clock' : c.start = begun + 1 /\ \A d \in clock' : c = d
      BY <1>6 DEF Begin
    <2> QED
      BY <1>0, <2>1 DEF Starting, EndsOnce
  <1>7. ASSUME NEW running \in BOOLEAN, Tick(running) PROVE Starting' /\ EndsOnce'
    <2>1. PICK c \in clock : \A d \in clock' : d.start = c.start /\ \A e \in clock' : d = e
      BY <1>7 DEF Tick, TypeOK
    <2> QED
      BY <1>7, <2>1 DEF Tick, Starting, EndsOnce
  <1> QED
    BY <1>1, <1>2, <1>3, <1>4, <1>5, <1>6, <1>7 DEF Frame

LEMMA StartingStep ==
    ASSUME PlayAssumption, TypeOK, Starting, Paced, EndsOnce, Next
    PROVE  Starting' /\ EndsOnce'
  <1>1. CASE Uploading
    BY <1>1, WorkerSends DEF Starting, EndsOnce, played
  <1>2. CASE Page
    BY <1>2, PageReads DEF Starting, EndsOnce, played
  <1>3. CASE Crash
    BY <1>3 DEF Crash, Starting, EndsOnce, record, None
  <1> QED
    BY <1>1, <1>2, <1>3, StartingFrame DEF Next

-----------------------------------------------------------------------------
(* Nothing is lost.                                                        *)

LEMMA NoneLostStep ==
    ASSUME TypeOK, Sending, Ending, EndsOnce, NoneLost, Next
    PROVE  NoneLost'
  <1>1. CASE Recover \/ Close
    BY <1>1 DEF Recover, Close, NoneLost, Owing
  <1>2. CASE Touch \/ Checkpoint \/ Abandon
    BY <1>2 DEF Touch, Checkpoint, Abandon, NoneLost, record, history
  <1>3. CASE (\E g \in Games : Begin(g)) \/ (\E running \in BOOLEAN : Tick(running))
    BY <1>3 DEF Begin, Tick, NoneLost, record, history
  <1>4. CASE TakeList \/ NotSent
    BY <1>4 DEF TakeList, NotSent, NoneLost, record, history
  <1>5. CASE Sent
    <2>1. owed' = owed \ outcome
      BY <1>5, SentExactly DEF Sent
    <2>2. outcome \subseteq onRomM' \cup refused'
      BY <1>5 DEF Sent, Sending
    <2> QED
      BY <1>5, <2>1, <2>2 DEF Sent, NoneLost
  <1>6. ASSUME NEW taken, NEW bad, Post(taken, bad) PROVE NoneLost'
    BY <1>6 DEF Post, NoneLost, record, history
  <1>7. CASE Page
    BY <1>7, PageReads DEF NoneLost
  <1>8. CASE Crash
    BY <1>8 DEF Crash, NoneLost, record
  <1> QED
    BY <1>1, <1>2, <1>3, <1>4, <1>5, <1>6, <1>7, <1>8 DEF Next, Frame, Uploading

-----------------------------------------------------------------------------
(* A power cut takes no more than the play since the last checkpoint.      *)

LEMMA PacedStep == ASSUME PlayAssumption, TypeOK, Paced, Next PROVE Paced'
  <1> USE DEF PlayAssumption, Paced, TypeOK, record, history, worker, page, None
  <1>1. CASE Recover
    BY <1>1 DEF Recover, played
  <1>2. CASE Touch \/ Checkpoint \/ Close \/ Abandon
    <2>1. fpc' = "loop" /\ (sinceCheck' = 0 \/ (fpc = "loop" /\ sinceCheck' = sinceCheck))
      BY <1>2 DEF Touch, Checkpoint, Close, Abandon
    <2> QED
      BY <2>1
  <1>3. ASSUME NEW g \in Games, Begin(g) PROVE Paced'
    <2>1. sinceCheck' = 0 /\ fpc' = "loop" /\ Minute \in Nat \ {0}
      BY <1>3 DEF Begin
    <2> QED
      BY <2>1
  <1>4. ASSUME NEW running \in BOOLEAN, Tick(running) PROVE Paced'
    <2>1. /\ sinceCheck' = sinceCheck + 1 /\ sinceCheck \in Nat /\ Minute \in Nat
          /\ fpc' = IF sinceCheck' >= Minute THEN "checkpoint" ELSE "loop"
      BY <1>4 DEF Tick
    <2> QED
      BY <2>1
  <1>5. CASE Uploading
    BY <1>5, WorkerSends DEF played
  <1>6. CASE Page
    BY <1>6, PageReads DEF played
  <1>7. CASE Crash
    BY <1>7 DEF Crash
  <1> QED
    BY <1>1, <1>2, <1>3, <1>4, <1>5, <1>6, <1>7 DEF Next, Frame

\* A frame adds at most itself to what the clock counts; a press adds nothing.
LEMMA CountedTick ==
    ASSUME PlayAssumption, TypeOK, NEW running \in BOOLEAN, Tick(running)
    PROVE  \E c \in clock : \A d \in clock' :
              d.start = c.start /\ Counted(d) \in Nat /\ Counted(d) <= Counted(c) + 1
  <1>1. PICK c \in clock :
          clock' = {[c EXCEPT !.since = @ + (IF running THEN 1 ELSE 0)]}
    BY DEF Tick, Some
  <1>2. c \in [game : Games, start : Starts, kept : Nat, since : Nat]
    BY DEF TypeOK
  <1>3. \A d \in clock' : /\ d.start = c.start /\ d.kept = c.kept
                          /\ d.since = c.since \/ d.since = c.since + 1
    BY <1>1, <1>2
  <1> QED
    BY <1>2, <1>3 DEF Counted, PlayAssumption

LEMMA CountedTouch ==
    ASSUME PlayAssumption, TypeOK, Touch
    PROVE  \E c \in clock : \A d \in clock' :
              d.start = c.start /\ Counted(d) = Counted(c)
  <1>1. PICK c \in clock :
          clock' = {[c EXCEPT !.since = 0,
                              !.kept = IF c.since < Unwatched THEN @ + c.since ELSE @]}
    BY DEF Touch, Some
  <1>2. c \in [game : Games, start : Starts, kept : Nat, since : Nat]
    BY DEF TypeOK
  <1>3. \A d \in clock' : /\ d.start = c.start /\ d.since = 0
                          /\ d.kept = IF c.since < Unwatched THEN c.kept + c.since ELSE c.kept
    BY <1>1, <1>2
  <1> QED
    BY <1>2, <1>3 DEF Counted, PlayAssumption

LEMMA CheckedStep ==
    ASSUME PlayAssumption, TypeOK, Starting, Paced, Checked, Next
    PROVE  Checked'
  <1> USE DEF record, history, worker, page, None, Some
  <1>0. /\ sinceCheck \in Nat /\ \A c \in clock : Counted(c) \in Nat
        /\ \A s \in open : s.ms \in Nat
    BY NowType DEF TypeOK, Session, PlayAssumption
  <1>1. CASE Recover \/ Close \/ Abandon \/ Crash
    BY <1>1 DEF Recover, Close, Abandon, Crash, Checked, Paced, played
  <1>2. CASE Touch
    BY <1>2, CountedTouch DEF Touch, Checked
  <1>3. CASE Checkpoint
    <2>1. \A c \in clock : \E s \in open' :
              s.start = c.start /\ s.ms = Counted(c)
      BY <1>3, NowType DEF Checkpoint, Checkpointed
    <2>2. clock' = clock /\ sinceCheck' = 0
      BY <1>3 DEF Checkpoint
    <2> QED
      BY <1>0, <2>1, <2>2 DEF Checked, Counted
  <1>4. ASSUME NEW g \in Games, Begin(g) PROVE Checked'
    <2>1. \A d \in clock' : Counted(d) = 0 /\ sinceCheck' = 0
      BY <1>4 DEF Begin, Counted, PlayAssumption
    <2> QED
      BY <2>1 DEF Checked, Counted
  <1>5. ASSUME NEW running \in BOOLEAN, Tick(running) PROVE Checked'
    <2>1. PICK c \in clock : \A d \in clock' :
              d.start = c.start /\ Counted(d) \in Nat /\ Counted(d) <= Counted(c) + 1
      BY <1>5, CountedTick
    <2>2. sinceCheck' = sinceCheck + 1 /\ open' = open
      BY <1>5 DEF Tick
    <2>3. ASSUME NEW d \in clock'
          PROVE  \/ Counted(d) <= sinceCheck + 1
                 \/ \E s \in open : s.start = d.start /\ Counted(d) <= s.ms + (sinceCheck + 1)
      <3>1. CASE Counted(c) <= sinceCheck
        BY <1>0, <2>1, <3>1
      <3>2. ASSUME NEW s \in open, s.start = c.start, Counted(c) <= s.ms + sinceCheck
            PROVE  Counted(d) <= s.ms + (sinceCheck + 1) /\ s.start = d.start
        BY <1>0, <2>1, <3>2
      <3> QED
        BY <3>1, <3>2 DEF Checked
    <2> QED
      BY <2>2, <2>3 DEF Checked, Counted
  <1>6. CASE Uploading
    BY <1>6, WorkerSends DEF Checked, Counted, played
  <1>7. CASE Page
    BY <1>7, PageReads DEF Checked, Counted, played
  <1> QED
    BY <1>1, <1>2, <1>3, <1>4, <1>5, <1>6, <1>7 DEF Next, Frame

LEMMA ToRecoverStep ==
    ASSUME PlayAssumption, TypeOK, Checked, ToRecover, Next
    PROVE  ToRecover'
  <1>1. CASE Frame
    <2>1. fpc' # "start"
      BY <1>1 DEF Frame, Recover, Touch, Checkpoint, Close, Abandon, Begin, Tick
    <2> QED
      BY <2>1 DEF ToRecover
  <1>2. CASE Uploading
    BY <1>2, WorkerSends DEF ToRecover
  <1>3. CASE Page
    BY <1>3, PageReads DEF ToRecover
  <1>4. CASE Crash
    <2>1. ASSUME NEW c \in clock, Now(c).ms >= 2 * Minute
          PROVE  \E s \in open : s.start = Now(c).start /\ s.ms + Minute >= Now(c).ms
      <3>1. /\ Now(c).start = c.start /\ Now(c).ms = Counted(c) /\ Counted(c) \in Nat
            /\ sinceCheck \in 0 .. Minute /\ Minute \in Nat \ {0}
            /\ \A s \in open : s.ms \in Nat
        BY NowType DEF TypeOK, Session, PlayAssumption
      <3>2. ~ (Counted(c) <= sinceCheck)
        BY <2>1, <3>1
      <3>3. PICK s \in open : s.start = c.start /\ Counted(c) <= s.ms + sinceCheck
        BY <3>2 DEF Checked
      <3> QED
        BY <3>1, <3>3
    <2>2. cut' = {Now(c) : c \in clock} /\ open' = open
      BY <1>4 DEF Crash, record
    <2> QED
      BY <2>1, <2>2 DEF ToRecover
  <1> QED
    BY <1>1, <1>2, <1>3, <1>4 DEF Next

LEMMA CutLosesStep ==
    ASSUME PlayAssumption, TypeOK, Starting, ToRecover, CutLosesAMinute, Next
    PROVE  CutLosesAMinute'
  <1>1. CASE Recover
    <2>1. ASSUME NEW c \in cut, c.ms >= 2 * Minute
          PROVE  \E s \in ended' : s.start = c.start /\ s.ms + Minute >= c.ms
      <3>1. PICK s \in open : s.start = c.start /\ s.ms + Minute >= c.ms
        BY <1>1, <2>1 DEF Recover, ToRecover
      <3>2. s.ms \in Nat /\ c.ms \in Nat /\ Minute \in Nat
        BY <2>1 DEF TypeOK, Session, PlayAssumption
      <3>3. s.ms >= Minute
        BY <2>1, <3>1, <3>2
      <3>4. ended' = Owing(s, ended)
        BY <1>1, <3>1 DEF Recover, Starting, None
      <3>5. s \in ended'
        BY <3>3, <3>4 DEF Owing
      <3> QED
        BY <3>1, <3>5
    <2>2. cut' = cut
      BY <1>1 DEF Recover
    <2> QED
      BY <2>1, <2>2 DEF CutLosesAMinute
  <1>2. CASE Frame /\ ~Recover
    <2>1. fpc # "start"
      BY <1>2 DEF Frame, Touch, Checkpoint, Close, Abandon, Begin, Tick
    <2> QED
      BY <1>2, <2>1, FrameOwes DEF CutLosesAMinute
  <1>3. CASE Uploading
    BY <1>3, WorkerSends DEF CutLosesAMinute
  <1>4. CASE Page
    BY <1>4, PageReads DEF CutLosesAMinute
  <1>5. CASE Crash
    BY <1>5 DEF Crash, CutLosesAMinute
  <1> QED
    BY <1>1, <1>2, <1>3, <1>4, <1>5 DEF Next

-----------------------------------------------------------------------------
(* The total that is known.                                                *)

\* What RomM has and is not owed changes when sent says so and not before.
LEMMA SettledStays ==
    ASSUME TypeOK, Sending, Ending, Starting, EndsOnce, Next, ~Sent
    PROVE  onRomM' \ owed' = onRomM \ owed
  <1> USE DEF record, history, worker, page
  <1>1. CASE Recover
    <2>1. CASE owed' = owed
      BY <1>1, <2>1 DEF Recover
    <2>2. ASSUME NEW s \in open, owed' = Owing(s, owed)
          PROVE  onRomM' \ owed' = onRomM \ owed
      <3>1. s.start \in 1 .. begun /\ s \notin ended
        BY DEF Starting
      <3>2. s \notin onRomM
        BY <3>1 DEF Ending
      <3> QED
        BY <1>1, <2>2, <3>2 DEF Recover, Owing
    <2> QED
      BY <1>1, <2>1, <2>2 DEF Recover
  <1>2. CASE Close
    <2>1. PICK c \in clock : owed' = Owing(Now(c), owed)
      BY <1>2 DEF Close
    <2>2. Now(c).start = c.start /\ c.start \in 1 .. begun /\ Now(c) \notin ended
      BY NowType DEF Starting, EndsOnce
    <2>3. Now(c) \notin onRomM
      BY <2>2 DEF Ending
    <2> QED
      BY <1>2, <2>1, <2>3 DEF Close, Owing
  <1>3. CASE Touch \/ Checkpoint \/ Abandon
    BY <1>3 DEF Touch, Checkpoint, Abandon
  <1>4. CASE (\E g \in Games : Begin(g)) \/ (\E running \in BOOLEAN : Tick(running))
    BY <1>4 DEF Begin, Tick
  <1>5. CASE TakeList \/ NotSent
    BY <1>5 DEF TakeList, NotSent
  <1>6. ASSUME NEW taken \in SUBSET list, NEW bad \in SUBSET list, Post(taken, bad)
        PROVE  onRomM' \ owed' = onRomM \ owed
    BY <1>6 DEF Post, Sending
  <1>7. CASE Page
    BY <1>7, PageReads
  <1>8. CASE Crash
    BY <1>8 DEF Crash
  <1> QED
    BY <1>1, <1>2, <1>3, <1>4, <1>5, <1>6, <1>7, <1>8 DEF Next, Frame, Uploading

\* sent adds to a total what it takes from what is owed.
LEMMA SentAdds ==
    ASSUME TypeOK, Finite, Sending, Ending, EndsOnce, Sent,
           NEW g \in Games, g \notin drift', known[g] = Some(Settled(g))
    PROVE  known'[g] = Some(Settled(g)')
  <1> DEFINE before == Of(g, onRomM \ owed)
             added == Of(g, outcome)
  <1>1. owed' = owed \ outcome /\ onRomM' = onRomM
    BY SentExactly DEF Sent
  <1>2. added \subseteq onRomM
    <2>1. \A s \in denied : s.game \in drift'
      BY DEF Sent
    <2> QED
      BY <2>1 DEF Of, Sending
  <1>3. Of(g, onRomM' \ owed') = before \cup added /\ before \cap added = {}
    BY <1>1, <1>2 DEF Of, Sending
  <1>4. IsFiniteSet(before) /\ IsFiniteSet(added)
    <2>1. onRomM \ owed \in SUBSET onRomM /\ outcome \in SUBSET owed
      BY DEF Sending
    <2>2. IsFiniteSet(onRomM \ owed) /\ IsFiniteSet(outcome)
      BY <2>1, FS_Subset DEF Finite
    <2> QED
      BY <2>2, FiniteOf
  <1>5. known'[g] = AddedTo(known[g], added)
    BY DEF Sent, TypeOK
  <1> HIDE DEF before, added
  <1>6. TotalOf(before \cup added)
          = [n \in Starts |-> TotalOf(before)[n] + TotalOf(added)[n]]
    BY <1>3, <1>4, TotalAdds
  <1>7. known[g] = {TotalOf(before)}
    BY DEF Settled, Some, before
  <1>8. known'[g] = {TotalOf(before \cup added)}
    BY <1>5, <1>6, <1>7 DEF AddedTo
  <1> QED
    BY <1>3, <1>8 DEF Settled, Some

LEMMA KnownStep ==
    ASSUME TypeOK, Finite, Sending, Ending, Starting, EndsOnce, KnownExact, Next
    PROVE  KnownExact'
  <1>1. CASE Sent
    <2>1. ASSUME NEW g \in Games, g \notin drift'
          PROVE  known'[g] = None \/ known'[g] = Some(Settled(g)')
      <3>1. CASE known[g] = None
        BY <1>1, <3>1 DEF Sent, AddedTo, None
      <3>2. CASE known[g] = Some(Settled(g))
        BY <1>1, <2>1, <3>2, SentAdds
      <3> QED
        BY <1>1, <2>1, <3>1, <3>2 DEF Sent, KnownExact
    <2> QED
      BY <2>1 DEF KnownExact, Settled
  <1>2. CASE ~Sent
    <2>1. \A g \in Games : Settled(g)' = Settled(g)
      BY <1>2, SettledStays DEF Settled
    <2>2. CASE Remember
      <3>1. /\ known' = [known EXCEPT ![asked] = total]
            /\ drift' = IF total = Some(Settled(asked)) THEN drift \ {asked}
                        ELSE drift \cup {asked}
        BY <2>2 DEF Remember
      <3> QED
        BY <2>1, <3>1 DEF KnownExact, TypeOK
    <2>3. CASE UNCHANGED <<known, drift>>
      BY <2>1, <2>3 DEF KnownExact, Settled
    <2>4. Remember \/ UNCHANGED <<known, drift>>
      BY <1>2, FrameOwes DEF Next, Uploading, Page, TakeList, NotSent, Post, FetchPlayed,
         Crash, record, history
    <2> QED
      BY <2>2, <2>3, <2>4
  <1> QED
    BY <1>1, <1>2

-----------------------------------------------------------------------------
(* The invariant.                                                          *)

LEMMA IndInit == ASSUME PlayAssumption, Init PROVE IInv
  <1>1. TypeOK /\ Finite
    BY TypeInit
  <1>2. \A s \in onRomM : s.start = 0
    BY DEF Init
  <1> QED
    BY <1>1, <1>2 DEF Init, IInv, Sending, Ending, Starting, Paced, Checked, ToRecover,
       NoneLost, EndsOnce, CutLosesAMinute, KnownExact, None, PlayAssumption

LEMMA IndStep == ASSUME PlayAssumption, IInv, [Next]_vars PROVE IInv'
  <1>1. CASE Next
    <2>1. TypeOK' /\ Finite'
      BY <1>1, TypeFrame, TypeWorker, TypeOutside DEF Next, IInv
    <2>2. Sending' /\ Ending' /\ NoneLost'
      BY <1>1, SendingStep, EndingStep, NoneLostStep DEF IInv
    <2>3. Starting' /\ EndsOnce' /\ Paced'
      BY <1>1, StartingStep, PacedStep DEF IInv
    <2>4. Checked' /\ ToRecover' /\ CutLosesAMinute'
      BY <1>1, CheckedStep, ToRecoverStep, CutLosesStep DEF IInv
    <2>5. KnownExact'
      BY <1>1, KnownStep DEF IInv
    <2> QED
      BY <2>1, <2>2, <2>3, <2>4, <2>5 DEF IInv
  <1>2. CASE UNCHANGED vars
    BY <1>2 DEF vars, record, played, worker, page, history, IInv, TypeOK, Finite, Sending,
       Ending, Starting, Paced, Checked, Counted, ToRecover, NoneLost, EndsOnce,
       CutLosesAMinute, KnownExact, Settled
  <1> QED
    BY <1>1, <1>2

\* The invariant holds whatever the threads do between each other and wherever
\* the power is cut.
THEOREM PlayTimeInvariant == Spec => []IInv
  <1>1. Init => IInv
    BY IndInit, PlayAssumption
  <1>2. IInv /\ [Next]_vars => IInv'
    BY IndStep, PlayAssumption
  <1> QED
    BY <1>1, <1>2, PTL DEF Spec

\* Every variable keeps its type (playtime.cpp).
THEOREM PlayTimeTypes == Spec => []TypeOK
  <1>1. IInv => TypeOK
    BY DEF IInv
  <1> QED
    BY <1>1, PlayTimeInvariant, PTL

\* A session that counts is owed, on RomM or refused by it: close, recover and
\* sent, which all rewrite the one record, lose none between them.
THEOREM NoSessionIsLost == Spec => []NoneLost
  <1>1. IInv => NoneLost
    BY DEF IInv
  <1> QED
    BY <1>1, PlayTimeInvariant, PTL

\* A session ends once, by the game's end or by the recovery of what a crash
\* left open, and never both.
THEOREM SessionsEndOnce == Spec => []EndsOnce
  <1>1. IInv => EndsOnce
    BY DEF IInv
  <1> QED
    BY <1>1, PlayTimeInvariant, PTL

\* Of a session of two minutes a power cut takes at most a minute (frame.cpp's
\* checkpoints, recover).
THEOREM ACutTakesAMinute == Spec => []CutLosesAMinute
  <1>1. IInv => CutLosesAMinute
    BY DEF IInv
  <1> QED
    BY <1>1, PlayTimeInvariant, PTL

\* The total kept for when RomM is away counts each session once, but for the
\* two ways that drift names (sent, remember).
THEOREM KnownTotalIsExact == Spec => []KnownExact
  <1>1. IInv => KnownExact
    BY DEF IInv
  <1> QED
    BY <1>1, PlayTimeInvariant, PTL

-----------------------------------------------------------------------------
(* Favourites: what is so of them at every step.                           *)

\* What Favourites' variables are, and that what RomM listed has no game twice.
HeartTypes == Hearts!TypeOK /\ Hearts!IsInjective(favFetched)

\* What is owed is the last press of its game, which no other is, unless the
\* record of that press was lost.
LastIsOwed ==
    /\ \A g \in Hearts!AllGames, on, off \in BOOLEAN :
          on \in favWant[g] /\ off \in favWant[g] => on = off
    /\ \A o \in favOwed : o[1] \notin favLost => o[2] \in favWant[o[1]]

\* What the worker is at: its games are still owed, if not always as it has them,
\* and RomM has what is being sent, unless another device came in between.
Hearing ==
    /\ \A o \in favTodo : o[1] \in Hearts!OwedGames
    /\ \A o, q \in favTodo : o[1] = q[1] => o = q
    /\ favWpc = "idle" => favTodo = {}
    /\ favWpc = "answer" =>
          /\ favSending \in Hearts!Press /\ favSending[1] \in Hearts!OwedGames
          /\ \A o \in favTodo : o[1] # favSending[1]
          /\ \/ favSending[1] \in favElsewhere
             \/ favSending[1] \in favRomm <=> favSending[2]

\* What a load fetched is what was pressed last, but where a press is owed, was
\* sent since, or had its record lost.
Fetched ==
    favLpc = "keep" =>
        \A g \in Hearts!AllGames \ (favElsewhere \cup favSentSince \cup favLost) :
            \A on \in favWant[g] :
                g \notin Hearts!OwedGames => (g \in Hearts!OnServer <=> on)

HeartInv ==
    /\ HeartTypes /\ LastIsOwed /\ Hearing /\ Fetched
    /\ OwedIsShown /\ RommHeardLast /\ ListShowsLast

-----------------------------------------------------------------------------
(* What the lists of favourites are made of.                               *)

Elements(s) == {s[n] : n \in 1 .. Len(s)}

\* A list without a game twice.
IsList(s) == s \in Seq(Hearts!AllGames) /\ Hearts!IsInjective(s)

LEMMA ChosenList ==
    ASSUME NEW s, IsList(s), NEW S
    PROVE  /\ IsList(Hearts!Chosen(s, S)) /\ IsChosen(Hearts!Chosen(s, S), s, S, Len(s))
           /\ Elements(Hearts!Chosen(s, S)) = Elements(s) \cap S
  <1> DEFINE r == Hearts!Chosen(s, S)
  <1>1. s \in Seq(Hearts!AllGames) /\ \A a, b \in 1 .. Len(s) : s[a] = s[b] => a = b
    BY DEF IsList, Hearts!IsInjective
  <1>2. r \in Seq(Hearts!AllGames) /\ IsChosen(r, s, S, Len(s))
    <2>1. r = Chosen(s, S)
      BY DEF Hearts!Chosen, Chosen
    <2> QED
      BY <1>1, <2>1, ChosenIs
  <1> HIDE DEF r
  <1>3. ASSUME NEW i \in 1 .. Len(r), NEW j \in 1 .. Len(r), i < j PROVE r[i] # r[j]
    <2>1. PICK a, b \in 1 .. Len(s) : a < b /\ s[a] = r[i] /\ s[b] = r[j]
      BY <1>2, <1>3 DEF IsChosen
    <2> QED
      BY <1>1, <2>1
  <1>4. Hearts!IsInjective(r)
    <2>1. DOMAIN r = 1 .. Len(r) /\ Len(r) \in Nat
      BY <1>2
    <2> SUFFICES ASSUME NEW i \in 1 .. Len(r), NEW j \in 1 .. Len(r), r[i] = r[j]
                 PROVE  i = j
      BY <2>1 DEF Hearts!IsInjective
    <2>2. ~(i < j) /\ ~(j < i)
      BY <1>3
    <2> QED
      BY <2>1, <2>2
  <1>5. Elements(r) = Elements(s) \cap S
    <2>1. ASSUME NEW x \in Elements(r) PROVE x \in Elements(s) \cap S
      <3>1. PICK i \in 1 .. Len(r) : r[i] = x
        BY <2>1 DEF Elements
      <3>2. PICK a \in 1 .. Len(s) : s[a] = r[i] /\ s[a] \in S
        BY <1>2 DEF IsChosen
      <3> QED
        BY <3>1, <3>2 DEF Elements
    <2>2. ASSUME NEW x \in Elements(s), x \in S PROVE x \in Elements(r)
      <3>1. PICK a \in 1 .. Len(s) : s[a] = x
        BY <2>2 DEF Elements
      <3>2. PICK i \in 1 .. Len(r) : r[i] = x
        BY <1>2, <2>2, <3>1 DEF IsChosen
      <3> QED
        BY <3>2 DEF Elements
    <2> QED
      BY <2>1, <2>2
  <1> QED
    BY <1>2, <1>4, <1>5 DEF IsList, r

\* Two lists one after the other, of different games.
LEMMA JoinedList ==
    ASSUME NEW r, IsList(r), NEW s, IsList(s), Elements(r) \cap Elements(s) = {}
    PROVE  /\ IsList(r \o s) /\ Elements(r \o s) = Elements(r) \cup Elements(s)
           /\ Len(r \o s) = Len(r) + Len(s)
           /\ \A n \in 1 .. Len(r) : (r \o s)[n] = r[n]
           /\ \A n \in 1 .. Len(s) : (r \o s)[Len(r) + n] = s[n]
  <1> DEFINE t == r \o s
  <1>1. r \in Seq(Hearts!AllGames) /\ \A a, b \in 1 .. Len(r) : r[a] = r[b] => a = b
    BY DEF IsList, Hearts!IsInjective
  <1>2. s \in Seq(Hearts!AllGames) /\ \A a, b \in 1 .. Len(s) : s[a] = s[b] => a = b
    BY DEF IsList, Hearts!IsInjective
  <1>3. /\ t \in Seq(Hearts!AllGames) /\ Len(t) = Len(r) + Len(s) /\ Len(t) \in Nat
        /\ \A n \in 1 .. Len(r) : t[n] = r[n] /\ n \in 1 .. Len(t)
        /\ \A n \in 1 .. Len(s) : t[Len(r) + n] = s[n] /\ Len(r) + n \in 1 .. Len(t)
    BY <1>1, <1>2
  <1> HIDE DEF t
  <1>4. \A n \in 1 .. Len(t) :
          n \in 1 .. Len(r) \/ \E m \in 1 .. Len(s) : n = Len(r) + m
    <2> TAKE n \in 1 .. Len(t)
    <2>1. CASE n <= Len(r)
      BY <2>1, <1>1
    <2>2. CASE n > Len(r)
      <3>1. n - Len(r) \in 1 .. Len(s) /\ n = Len(r) + (n - Len(r))
        BY <2>2, <1>1, <1>2, <1>3
      <3> QED
        BY <3>1
    <2> QED
      BY <2>1, <2>2, <1>1
  <1>5. Elements(t) = Elements(r) \cup Elements(s)
    <2>1. ASSUME NEW x \in Elements(t) PROVE x \in Elements(r) \cup Elements(s)
      <3>1. PICK n \in 1 .. Len(t) : t[n] = x
        BY <2>1 DEF Elements
      <3>2. CASE n \in 1 .. Len(r)
        BY <1>3, <3>1, <3>2 DEF Elements
      <3>3. CASE \E m \in 1 .. Len(s) : n = Len(r) + m
        BY <1>3, <3>1, <3>3 DEF Elements
      <3> QED
        BY <1>4, <3>2, <3>3
    <2>2. ASSUME NEW x \in Elements(r) PROVE x \in Elements(t)
      BY <1>3 DEF Elements
    <2>3. ASSUME NEW x \in Elements(s) PROVE x \in Elements(t)
      BY <1>3 DEF Elements
    <2> QED
      BY <2>1, <2>2, <2>3
  <1>6. ASSUME NEW a \in 1 .. Len(t), NEW b \in 1 .. Len(t), t[a] = t[b] PROVE a = b
    <2>1. ASSUME NEW n \in 1 .. Len(r), NEW m \in 1 .. Len(s) PROVE t[n] # t[Len(r) + m]
      <3>1. t[n] \in Elements(r) /\ t[Len(r) + m] \in Elements(s)
        BY <1>3 DEF Elements
      <3> QED
        BY <3>1
    <2>2. CASE a \in 1 .. Len(r) /\ b \in 1 .. Len(r)
      BY <2>2, <1>1, <1>3, <1>6
    <2>3. CASE /\ \E m \in 1 .. Len(s) : a = Len(r) + m
               /\ \E m \in 1 .. Len(s) : b = Len(r) + m
      BY <2>3, <1>2, <1>3, <1>6
    <2> QED
      BY <1>4, <1>6, <2>1, <2>2, <2>3
  <1>7. DOMAIN t = 1 .. Len(t)
    BY <1>3
  <1>8. Hearts!IsInjective(t)
    BY <1>6, <1>7 DEF Hearts!IsInjective
  <1> QED
    BY <1>3, <1>5, <1>8 DEF IsList, t

\* The lists of a press and of a load: every game of one list, in the order of
\* titles or of ids, is a game of the other.
LEMMA OrdersAre ==
    ASSUME Hearts!FavouritesAssumption
    PROVE  /\ IsList(Ids) /\ Elements(Ids) = Hearts!AllGames
           /\ IsList(Titles) /\ Elements(Titles) = Hearts!AllGames
           /\ Hearts!AllGames \subseteq Nat \ {0}
  <1>1. Ids \in Seq(Nat \ {0}) /\ Titles \in Seq(Nat \ {0})
    BY DEF Hearts!FavouritesAssumption
  <1>2. Hearts!Range(Ids) = Hearts!AllGames /\ Hearts!Range(Titles) = Hearts!AllGames
    BY DEF Hearts!FavouritesAssumption, Hearts!AllGames
  <1>3. \A n \in 1 .. Len(Ids) : Ids[n] \in Hearts!AllGames
    BY <1>1, <1>2 DEF Hearts!Range
  <1>4. \A n \in 1 .. Len(Titles) : Titles[n] \in Hearts!AllGames
    BY <1>1, <1>2 DEF Hearts!Range
  <1>5. Ids \in Seq(Hearts!AllGames) /\ Titles \in Seq(Hearts!AllGames)
    <2>1. Ids \in [1 .. Len(Ids) -> Hearts!AllGames] /\ Len(Ids) \in Nat
      BY <1>1, <1>3
    <2>2. Titles \in [1 .. Len(Titles) -> Hearts!AllGames] /\ Len(Titles) \in Nat
      BY <1>1, <1>4
    <2> QED
      BY <2>1, <2>2
  <1>6. Hearts!IsInjective(Ids)
    <2>1. \A m, n \in 1 .. Len(Ids) : m < n => Ids[m] < Ids[n]
      BY DEF Hearts!FavouritesAssumption
    <2> SUFFICES ASSUME NEW m \in 1 .. Len(Ids), NEW n \in 1 .. Len(Ids), Ids[m] = Ids[n]
                 PROVE  m = n
      BY <1>1 DEF Hearts!IsInjective
    <2>2. Ids[m] \in Nat
      BY <1>1
    <2> QED
      BY <2>1, <2>2
  <1>7. Hearts!IsInjective(Titles)
    BY DEF Hearts!FavouritesAssumption
  <1>8. Elements(Ids) = Hearts!AllGames /\ Elements(Titles) = Hearts!AllGames
    BY <1>1, <1>2 DEF Elements, Hearts!Range
  <1>9. Hearts!AllGames \subseteq Nat \ {0}
    BY <1>1, <1>8 DEF Elements
  <1> QED
    BY <1>5, <1>6, <1>7, <1>8, <1>9 DEF IsList

\* A press puts its game first, or takes it off, and leaves the others.
LEMMA PressedIs ==
    ASSUME IsList(favList), NEW g \in Hearts!AllGames, NEW on \in BOOLEAN
    PROVE  /\ IsList(Hearts!PressedList(g, on))
           /\ Elements(Hearts!PressedList(g, on))
                  = (Hearts!Listed \ {g}) \cup (IF on THEN {g} ELSE {})
  <1> DEFINE first == IF on THEN <<g>> ELSE <<>>
             rest  == Hearts!Chosen(favList, Hearts!AllGames \ {g})
  <1>1. Elements(favList) = Hearts!Listed /\ Hearts!Listed \subseteq Hearts!AllGames
    BY DEF Elements, Hearts!Listed, IsList
  <1>2. IsList(rest) /\ Elements(rest) = Hearts!Listed \ {g}
    BY <1>1, ChosenList
  <1>3. IsList(first) /\ Elements(first) = IF on THEN {g} ELSE {}
    <2>1. CASE on
      <3>1. first = <<g>> /\ Len(first) = 1 /\ first[1] = g
        BY <2>1
      <3> QED
        BY <2>1, <3>1 DEF IsList, Elements, Hearts!IsInjective
    <2>2. CASE ~on
      BY <2>2 DEF IsList, Elements, Hearts!IsInjective
    <2> QED
      BY <2>1, <2>2
  <1>4. Hearts!PressedList(g, on) = first \o rest
    BY DEF Hearts!PressedList
  <1> HIDE DEF first, rest
  <1>5. Elements(first) \cap Elements(rest) = {}
    BY <1>2, <1>3
  <1> QED
    BY <1>2, <1>3, <1>4, <1>5, JoinedList

\* A load leaves the games wanted: those owed, and RomM's that are not.
LEMMA KeptIs ==
    ASSUME Hearts!FavouritesAssumption, IsList(favList), IsList(favFetched)
    PROVE  /\ IsList(Hearts!NewOnes) /\ Elements(Hearts!NewOnes) \cap Hearts!Listed = {}
           /\ IsList(Hearts!KeptList)
           /\ Elements(Hearts!KeptList) = Hearts!Wanted(Hearts!OnServer)
  <1> DEFINE W    == Hearts!Wanted(Hearts!OnServer)
             missing == {g \in Hearts!AllGames \ Hearts!Listed : <<g, TRUE>> \in favOwed}
             a    == Hearts!Chosen(Ids, missing)
             b    == Hearts!Chosen(favFetched, W \ (Hearts!Listed \cup missing))
             c    == Hearts!Chosen(favList, W)
  <1>1. Elements(favList) = Hearts!Listed /\ Elements(favFetched) = Hearts!OnServer
    BY DEF Elements, Hearts!Listed, Hearts!OnServer
  <1>2. IsList(a) /\ Elements(a) = missing
    <2>1. missing \subseteq Hearts!AllGames /\ IsList(Ids) /\ Elements(Ids) = Hearts!AllGames
      BY OrdersAre
    <2> HIDE DEF missing
    <2>2. IsList(a) /\ Elements(a) = Elements(Ids) \cap missing
      BY <2>1, ChosenList
    <2> QED
      BY <2>1, <2>2
  <1>3. IsList(b) /\ Elements(b) = Hearts!OnServer \cap (W \ (Hearts!Listed \cup missing))
    BY <1>1, ChosenList
  <1>4. IsList(c) /\ Elements(c) = Hearts!Listed \cap W
    BY <1>1, ChosenList
  <1>5. Hearts!NewOnes = a \o b /\ Hearts!KeptList = Hearts!NewOnes \o c
    BY DEF Hearts!NewOnes, Hearts!KeptList
  <1>6. missing \subseteq W /\ W \subseteq missing \cup Hearts!Listed \cup Hearts!OnServer
    BY DEF Hearts!Wanted
  <1> HIDE DEF W, missing, a, b, c
  <1>7. IsList(Hearts!NewOnes) /\ Elements(Hearts!NewOnes) = Elements(a) \cup Elements(b)
    <2>1. Elements(a) \cap Elements(b) = {}
      BY <1>2, <1>3
    <2> QED
      BY <1>2, <1>3, <1>5, <2>1, JoinedList
  <1>8. Elements(Hearts!NewOnes) \cap Hearts!Listed = {}
    BY <1>2, <1>3, <1>7 DEF missing
  <1>9. /\ IsList(Hearts!KeptList)
        /\ Elements(Hearts!KeptList) = Elements(Hearts!NewOnes) \cup Elements(c)
    <2>1. Elements(Hearts!NewOnes) \cap Elements(c) = {}
      BY <1>4, <1>8
    <2> QED
      BY <1>4, <1>5, <1>7, <2>1, JoinedList
  <1> QED
    BY <1>2, <1>3, <1>4, <1>6, <1>7, <1>8, <1>9 DEF W

\* The next press to send is one of those to send.
LEMMA NextOfTodo ==
    ASSUME Hearts!FavouritesAssumption, favTodo \subseteq Hearts!Press, favTodo # {}
    PROVE  Hearts!NextPress \in favTodo
  <1> DEFINE ids == {o[1] : o \in favTodo}
  <1>1. \A o \in favTodo : o[1] \in Nat
    BY OrdersAre DEF Hearts!Press
  <1>2. ids \in SUBSET Nat /\ ids # {}
    BY <1>1
  <1>3. PICK m \in ids : \A n \in ids : m <= n
    <2> HIDE DEF ids
    <2> QED
      BY <1>2, LeastOf
  <1>4. \E o \in favTodo : \A q \in favTodo : o[1] <= q[1]
    BY <1>3
  <1> QED
    BY <1>4 DEF Hearts!NextPress

-----------------------------------------------------------------------------
(* The invariant of favourites.                                            *)

LEMMA HeartInit == ASSUME Hearts!FavouritesAssumption, Hearts!Init PROVE HeartInv
  <1>1. IsList(favList) /\ IsList(favFetched)
    <2>1. IsList(favList)
      BY OrdersAre, ChosenList DEF Hearts!Init
    <2>2. IsList(favFetched)
      BY DEF Hearts!Init, IsList, Hearts!IsInjective
    <2> QED
      BY <2>1, <2>2
  <1>2. HeartTypes
    BY <1>1 DEF HeartTypes, IsList, Hearts!Init, Hearts!TypeOK, Hearts!None
  <1>3. LastIsOwed /\ Hearing /\ Fetched /\ OwedIsShown /\ RommHeardLast /\ ListShowsLast
    BY DEF LastIsOwed, Hearing, Fetched, OwedIsShown, RommHeardLast, ListShowsLast,
           Hearts!OwedIsShown, Hearts!RommHeardLast, Hearts!ListShowsLast, Hearts!Init
  <1> QED
    BY <1>2, <1>3 DEF HeartInv

\* A press, with either of its files written or not.
LEMMA PressStep ==
    ASSUME Hearts!FavouritesAssumption, HeartInv,
           NEW g \in Hearts!AllGames, NEW on \in BOOLEAN, Hearts!PressHeart(g, on)
    PROVE  HeartInv'
  <1> DEFINE noted == {o \in favOwed : o[1] # g} \cup {<<g, on>>}
  <1>1. /\ favList' \in {Hearts!PressedList(g, on), favList} /\ favOwed' \in {noted, favOwed}
        /\ favTorn' = IF favList' = Hearts!PressedList(g, on) /\ favOwed' = noted
                      THEN favTorn \ {g} ELSE favTorn \cup {g}
        /\ favLost' = IF favOwed' = noted THEN favLost \ {g} ELSE favLost \cup {g}
        /\ favWant' = [favWant EXCEPT ![g] = {on}] /\ favPresses' = favPresses + 1
        /\ favOvertaken' = favOvertaken \ {g} /\ favParked' = FALSE
        /\ UNCHANGED <<favRomm, favWpc, favTodo, favSending, favLpc, favFetched, favChanges,
                       favCuts, favElsewhere, favSentSince>>
    BY DEF Hearts!PressHeart, Hearts!PressedOwed, Hearts!worker, Hearts!load
  <1> HIDE DEF noted
  <1>2. /\ IsList(favList') /\ favTorn' \subseteq favTorn \cup {g}
        /\ favTorn \subseteq favTorn' \cup {g}
        /\ \A h \in Hearts!AllGames \ {g} : h \in Hearts!Listed' <=> h \in Hearts!Listed
        /\ g \notin favTorn' => (g \in Hearts!Listed' <=> on)
    <2>1. IsList(favList)
      BY DEF HeartInv, HeartTypes, Hearts!TypeOK, IsList
    <2>2. /\ IsList(Hearts!PressedList(g, on))
          /\ Elements(Hearts!PressedList(g, on))
                 = (Hearts!Listed \ {g}) \cup (IF on THEN {g} ELSE {})
      BY <2>1, PressedIs
    <2>3. CASE favList' = Hearts!PressedList(g, on)
      <3>1. Hearts!Listed' = (Hearts!Listed \ {g}) \cup (IF on THEN {g} ELSE {})
        BY <2>2, <2>3 DEF Elements, Hearts!Listed
      <3> QED
        BY <1>1, <2>2, <2>3, <3>1
    <2>4. CASE favList' # Hearts!PressedList(g, on)
      <3>1. favList' = favList /\ favTorn' = favTorn \cup {g}
        BY <1>1, <2>4
      <3>2. Hearts!Listed' = Hearts!Listed
        BY <3>1 DEF Hearts!Listed
      <3> QED
        BY <2>1, <3>1, <3>2
    <2> QED
      BY <2>3, <2>4
  <1>3. /\ \/ favOwed' = noted /\ favLost' = favLost \ {g}
           \/ favOwed' = favOwed /\ favLost' = favLost \cup {g} /\ g \in favTorn'
        /\ \A o \in noted : (o \in favOwed /\ o[1] # g) \/ o = <<g, on>>
        /\ \A o \in favOwed : o \in noted \/ o[1] = g
        /\ <<g, on>> \in noted
    <2>1. favOwed' # noted => favOwed' = favOwed /\ favLost' = favLost \cup {g} /\ g \in favTorn'
      BY <1>1
    <2>2. favOwed' = noted => favLost' = favLost \ {g}
      BY <1>1
    <2> QED
      BY <2>1, <2>2 DEF noted
  <1>4. /\ Hearts!OwedGames \subseteq Hearts!OwedGames'
        /\ Hearts!OwedGames' \subseteq Hearts!OwedGames \cup {g}
        /\ g \in Hearts!OwedGames' \/ g \in favLost'
    <2>1. CASE favOwed' = noted
      <3>1. <<g, on>> \in favOwed' /\ <<g, on>>[1] = g
        BY <1>3, <2>1
      <3>2. g \in Hearts!OwedGames'
        BY <3>1, Zenon DEF Hearts!OwedGames
      <3>3. ASSUME NEW h \in Hearts!OwedGames PROVE h \in Hearts!OwedGames'
        BY <1>3, <2>1, <3>2 DEF Hearts!OwedGames
      <3>4. ASSUME NEW h \in Hearts!OwedGames' PROVE h \in Hearts!OwedGames \cup {g}
        BY <1>3, <2>1 DEF Hearts!OwedGames
      <3> QED
        BY <3>2, <3>3, <3>4
    <2>2. CASE favOwed' = favOwed /\ favLost' = favLost \cup {g}
      BY <2>2 DEF Hearts!OwedGames
    <2> QED
      BY <1>3, <2>1, <2>2
  <1>5. /\ favOwed' \subseteq Hearts!Press
        /\ \A o, q \in favOwed' : o[1] = q[1] => o = q
    <2>1. /\ favOwed \subseteq Hearts!Press /\ <<g, on>> \in Hearts!Press
          /\ \A o, q \in favOwed : o[1] = q[1] => o = q
      BY DEF HeartInv, HeartTypes, Hearts!TypeOK, Hearts!Press
    <2> QED
      BY <1>3, <2>1
  <1>6. HeartTypes'
    <2>1. favWant' \in [Hearts!AllGames -> SUBSET BOOLEAN]
      BY <1>1 DEF HeartInv, HeartTypes, Hearts!TypeOK
    <2>2. favPresses' \in Nat /\ favLost' \subseteq Hearts!AllGames
          /\ favTorn' \subseteq Hearts!AllGames
      BY <1>1, <1>2 DEF HeartInv, HeartTypes, Hearts!TypeOK
    <2> QED
      BY <1>1, <1>2, <1>5, <2>1, <2>2 DEF HeartInv, HeartTypes, Hearts!TypeOK, IsList
  <1>7. /\ \A h \in Hearts!AllGames \ {g} : favWant'[h] = favWant[h]
        /\ favWant'[g] = {on}
        /\ \A h \in Hearts!AllGames \ {g} : h \in favLost' <=> h \in favLost
    BY <1>1 DEF HeartInv, HeartTypes, Hearts!TypeOK
  <1>8. LastIsOwed'
    <2>1. \A h \in Hearts!AllGames, a, b \in BOOLEAN :
             a \in favWant'[h] /\ b \in favWant'[h] => a = b
      BY <1>7 DEF HeartInv, LastIsOwed
    <2>2. ASSUME NEW o \in favOwed', o[1] \notin favLost' PROVE o[2] \in favWant'[o[1]]
      <3>1. CASE o[1] = g
        BY <1>3, <1>7, <2>2, <3>1
      <3>2. CASE o[1] # g
        BY <1>3, <1>5, <1>7, <2>2, <3>2 DEF HeartInv, LastIsOwed, Hearts!Press
      <3> QED
        BY <3>1, <3>2
    <2> QED
      BY <2>1, <2>2 DEF LastIsOwed
  <1>9. Hearing'
    BY <1>1, <1>4 DEF HeartInv, Hearing
  <1>10. Fetched' /\ RommHeardLast'
    BY <1>1, <1>4, <1>7 DEF HeartInv, Fetched, RommHeardLast, Hearts!RommHeardLast,
       Hearts!OnServer
  <1>11. OwedIsShown'
    <2> SUFFICES ASSUME NEW o \in favOwed', o[1] \notin favTorn'
                 PROVE  o[1] \in Hearts!Listed' <=> o[2]
      BY DEF OwedIsShown, Hearts!OwedIsShown
    <2>1. CASE o[1] = g
      BY <1>2, <1>3, <2>1
    <2>2. CASE o[1] # g
      BY <1>2, <1>3, <1>5, <2>2 DEF HeartInv, OwedIsShown, Hearts!OwedIsShown, Hearts!Press
    <2> QED
      BY <2>1, <2>2
  <1>12. ListShowsLast'
    BY <1>1, <1>2, <1>7 DEF HeartInv, ListShowsLast, Hearts!ListShowsLast
  <1> QED
    BY <1>6, <1>8, <1>9, <1>10, <1>11, <1>12 DEF HeartInv

\* What is sent is still owed, if no more as it is sent.
LEMMA DeliverStep ==
    ASSUME Hearts!FavouritesAssumption, HeartInv, Hearts!Deliver PROVE HeartInv'
  <1> DEFINE o == Hearts!NextPress
  <1>1. o \in favTodo /\ o \in Hearts!Press /\ o[1] \in Hearts!OwedGames
    <2>1. favTodo \subseteq Hearts!Press
      BY DEF HeartInv, HeartTypes, Hearts!TypeOK
    <2> QED
      BY <2>1, NextOfTodo DEF HeartInv, Hearing, Hearts!Deliver
  <1> HIDE DEF o
  <1>2. o[1] \in Hearts!AllGames /\ o[2] \in BOOLEAN
    BY <1>1 DEF Hearts!Press
  <1>3. /\ favWpc = "send" /\ favWpc' = "answer" /\ favSending' = o
        /\ favTodo' = favTodo \ {o} /\ favElsewhere' = favElsewhere \ {o[1]}
        /\ favRomm' = IF o[2] THEN favRomm \cup {o[1]} ELSE favRomm \ {o[1]}
        /\ UNCHANGED <<favList, favOwed, favParked, favLpc, favFetched, favPresses,
                       favChanges, favCuts, favWant, favSentSince, favOvertaken, favTorn,
                       favLost>>
    BY DEF Hearts!Deliver, Hearts!files, Hearts!load, Hearts!bounds, o
  <1>4. /\ Hearts!OwedGames' = Hearts!OwedGames /\ Hearts!Listed' = Hearts!Listed
        /\ Hearts!OnServer' = Hearts!OnServer
    BY <1>3 DEF Hearts!OwedGames, Hearts!Listed, Hearts!OnServer
  <1>5. HeartTypes'
    BY <1>1, <1>2, <1>3 DEF HeartInv, HeartTypes, Hearts!TypeOK
  <1>6. LastIsOwed' /\ OwedIsShown'
    BY <1>3, <1>4 DEF HeartInv, LastIsOwed, OwedIsShown, Hearts!OwedIsShown
  <1>7. Hearing'
    BY <1>1, <1>2, <1>3, <1>4 DEF HeartInv, Hearing
  <1>8. Fetched' /\ RommHeardLast'
    BY <1>1, <1>3, <1>4 DEF HeartInv, Fetched, RommHeardLast, Hearts!RommHeardLast
  <1>9. ListShowsLast'
    <2>1. \A on \in favWant[o[1]] :
             o[1] \notin favTorn \cup favLost => (o[1] \in Hearts!Listed <=> on)
      <3> SUFFICES ASSUME o[1] \notin favTorn \cup favLost
                   PROVE  \A on \in favWant[o[1]] : o[1] \in Hearts!Listed <=> on
        OBVIOUS
      <3>1. PICK q \in favOwed : q[1] = o[1]
        BY <1>1 DEF Hearts!OwedGames
      <3>2. q[2] \in favWant[q[1]] /\ q[2] \in BOOLEAN /\ favWant[q[1]] \subseteq BOOLEAN
        BY <3>1, <1>2 DEF HeartInv, LastIsOwed, HeartTypes, Hearts!TypeOK, Hearts!Press
      <3>3. \A on \in favWant[o[1]] : on = q[2]
        BY <3>1, <3>2, <1>2 DEF HeartInv, LastIsOwed
      <3> QED
        BY <3>1, <3>3 DEF HeartInv, OwedIsShown, Hearts!OwedIsShown
    <2> QED
      BY <2>1, <1>3, <1>4 DEF HeartInv, ListShowsLast, Hearts!ListShowsLast
  <1> QED
    BY <1>5, <1>6, <1>7, <1>8, <1>9 DEF HeartInv

\* What is no longer owed is what RomM has, and what was pressed last.
LEMMA AnsweredStep ==
    ASSUME Hearts!FavouritesAssumption, HeartInv, Hearts!Answered PROVE HeartInv'
  <1> DEFINE o == favSending
  <1>1. /\ favWpc = "answer" /\ favWpc' = "send" /\ favSending' = Hearts!None
        /\ favOwed' \in {favOwed \ {o}, favOwed}
        /\ favSentSince' = IF favOwed' # favOwed THEN favSentSince \cup {o[1]}
                           ELSE favSentSince
        /\ UNCHANGED <<favList, favRomm, favParked, favTodo, favLpc, favFetched, favPresses,
                       favChanges, favCuts, favWant, favElsewhere, favOvertaken, favTorn,
                       favLost>>
    BY DEF Hearts!Answered, Hearts!Heard, Hearts!load, Hearts!bounds
  <1>2. /\ o \in Hearts!Press /\ o[1] \in Hearts!AllGames /\ o[2] \in BOOLEAN
        /\ o[1] \in favElsewhere \/ (o[1] \in favRomm <=> o[2])
        /\ \A q \in favTodo : q[1] # o[1]
    BY <1>1 DEF HeartInv, Hearing, Hearts!Press
  <1>3. /\ Hearts!Listed' = Hearts!Listed /\ Hearts!OnServer' = Hearts!OnServer
    BY <1>1 DEF Hearts!Listed, Hearts!OnServer
  <1>4. /\ Hearts!OwedGames' \subseteq Hearts!OwedGames
        /\ Hearts!OwedGames \subseteq Hearts!OwedGames' \cup {o[1]}
        /\ favOwed' = favOwed => Hearts!OwedGames' = Hearts!OwedGames
        /\ o \notin favOwed => favOwed' = favOwed
    BY <1>1 DEF Hearts!OwedGames
  <1>5. o \in favOwed /\ o[1] \notin favLost => \A on \in favWant[o[1]] : on = o[2]
    BY <1>2 DEF HeartInv, LastIsOwed, HeartTypes, Hearts!TypeOK
  <1>6. HeartTypes'
    BY <1>1, <1>2 DEF HeartInv, HeartTypes, Hearts!TypeOK
  <1>7. LastIsOwed' /\ OwedIsShown' /\ ListShowsLast'
    BY <1>1, <1>3 DEF HeartInv, LastIsOwed, OwedIsShown, Hearts!OwedIsShown, ListShowsLast,
       Hearts!ListShowsLast
  <1>8. Hearing'
    BY <1>1, <1>2, <1>4 DEF HeartInv, Hearing
  <1>9. RommHeardLast'
    BY <1>1, <1>2, <1>4, <1>5 DEF HeartInv, RommHeardLast, Hearts!RommHeardLast
  <1>10. Fetched'
    BY <1>1, <1>3, <1>4 DEF HeartInv, Fetched
  <1> QED
    BY <1>6, <1>7, <1>8, <1>9, <1>10 DEF HeartInv

\* The worker's other steps change nothing of the person's.
LEMMA WorkerStep ==
    ASSUME Hearts!FavouritesAssumption, HeartInv,
           \/ Hearts!StartSending \/ Hearts!NotSent \/ Hearts!Park \/ Hearts!AllSent
    PROVE  HeartInv'
  <1>1. /\ UNCHANGED <<favList, favOwed, favRomm, favLpc, favFetched, favPresses,
                       favChanges, favCuts, favWant, favElsewhere, favSentSince,
                       favOvertaken, favTorn, favLost>>
        /\ favParked' \in BOOLEAN
        /\ \/ /\ favWpc' = "idle" /\ favTodo' = {} /\ favSending' = Hearts!None
           \/ /\ favWpc' = "send" /\ favTodo' = favOwed
              /\ favSending' \in Hearts!Press \cup {Hearts!None}
    BY DEF HeartInv, HeartTypes, Hearts!TypeOK, Hearts!StartSending, Hearts!NotSent,
       Hearts!Park, Hearts!AllSent, Hearts!JobEnds, Hearts!files, Hearts!load,
       Hearts!bounds, Hearts!history
  <1>2. /\ Hearts!OwedGames' = Hearts!OwedGames /\ Hearts!Listed' = Hearts!Listed
        /\ Hearts!OnServer' = Hearts!OnServer
    BY <1>1 DEF Hearts!OwedGames, Hearts!Listed, Hearts!OnServer
  <1>3. HeartTypes'
    BY <1>1 DEF HeartInv, HeartTypes, Hearts!TypeOK
  <1>4. Hearing'
    BY <1>1, <1>2 DEF HeartInv, Hearing, HeartTypes, Hearts!TypeOK, Hearts!OwedGames
  <1>5. /\ LastIsOwed' /\ Fetched' /\ OwedIsShown' /\ RommHeardLast' /\ ListShowsLast'
    BY <1>1, <1>2 DEF HeartInv, LastIsOwed, Fetched, OwedIsShown, RommHeardLast,
       ListShowsLast, Hearts!OwedIsShown, Hearts!RommHeardLast, Hearts!ListShowsLast
  <1> QED
    BY <1>3, <1>4, <1>5 DEF HeartInv

\* What a load fetches is what RomM has.
LEMMA FetchStep ==
    ASSUME Hearts!FavouritesAssumption, HeartInv, Hearts!Fetch PROVE HeartInv'
  <1>1. /\ favFetched' = Hearts!Chosen(Titles, favRomm) /\ favLpc' = "keep"
        /\ favSentSince' = {}
        /\ UNCHANGED <<favList, favOwed, favRomm, favParked, favWpc, favTodo, favSending,
                       favPresses, favChanges, favCuts, favWant, favElsewhere,
                       favOvertaken, favTorn, favLost>>
    BY DEF Hearts!Fetch, Hearts!files, Hearts!worker, Hearts!bounds
  <1>2. /\ Hearts!OwedGames' = Hearts!OwedGames /\ Hearts!Listed' = Hearts!Listed
    BY <1>1 DEF Hearts!OwedGames, Hearts!Listed
  <1>3. IsList(favFetched') /\ Hearts!OnServer' = favRomm
    <2>1. favRomm \subseteq Hearts!AllGames
      BY DEF HeartInv, HeartTypes, Hearts!TypeOK
    <2>2. /\ IsList(Hearts!Chosen(Titles, favRomm))
          /\ Elements(Hearts!Chosen(Titles, favRomm)) = Hearts!AllGames \cap favRomm
      BY OrdersAre, ChosenList
    <2> QED
      BY <1>1, <2>1, <2>2 DEF Elements, Hearts!OnServer
  <1>4. HeartTypes'
    BY <1>1, <1>3 DEF HeartInv, HeartTypes, Hearts!TypeOK, IsList
  <1>5. Fetched'
    BY <1>1, <1>2, <1>3 DEF HeartInv, Fetched, RommHeardLast, Hearts!RommHeardLast
  <1>6. LastIsOwed' /\ Hearing' /\ OwedIsShown' /\ RommHeardLast' /\ ListShowsLast'
    BY <1>1, <1>2 DEF HeartInv, LastIsOwed, Hearing, OwedIsShown, RommHeardLast,
       ListShowsLast, Hearts!OwedIsShown, Hearts!RommHeardLast, Hearts!ListShowsLast
  <1> QED
    BY <1>4, <1>5, <1>6 DEF HeartInv

\* A load that writes the list shows what is owed, and of the rest what RomM had.
LEMMA KeepWritten ==
    ASSUME Hearts!FavouritesAssumption, HeartInv, Hearts!Keep,
           favList' = Hearts!KeptList, favOvertaken' = favSentSince, favTorn' = {}
    PROVE  HeartInv'
  <1>1. /\ favList' = Hearts!KeptList /\ favLpc = "keep" /\ favLpc' = "idle"
        /\ favFetched' = <<>> /\ favOvertaken' = favSentSince /\ favTorn' = {}
        /\ UNCHANGED <<favOwed, favRomm, favParked, favWpc, favTodo, favSending,
                       favPresses, favChanges, favCuts, favWant, favElsewhere, favSentSince,
                       favLost>>
    BY DEF Hearts!Keep, Hearts!worker, Hearts!bounds
  <1>2. Hearts!OwedGames' = Hearts!OwedGames
    BY <1>1 DEF Hearts!OwedGames
  <1>3. IsList(favList') /\ Hearts!Listed' = Hearts!Wanted(Hearts!OnServer)
    <2>1. IsList(favList) /\ IsList(favFetched)
      BY DEF HeartInv, HeartTypes, Hearts!TypeOK, IsList
    <2> QED
      BY <1>1, <2>1, KeptIs DEF Elements, Hearts!Listed
  <1>4. \A o \in favOwed : o[1] \in Hearts!Listed' <=> o[2]
    <2> TAKE o \in favOwed
    <2>1. /\ o = <<o[1], o[2]>> /\ o[1] \in Hearts!AllGames /\ o[2] \in BOOLEAN
          /\ o[1] \in Hearts!OwedGames
      BY DEF HeartInv, HeartTypes, Hearts!TypeOK, Hearts!Press, Hearts!OwedGames
    <2>2. CASE o[2]
      <3>1. <<o[1], TRUE>> \in favOwed
        BY <2>1, <2>2
      <3> QED
        BY <1>3, <2>1, <2>2, <3>1 DEF Hearts!Wanted
    <2>3. CASE ~o[2]
      <3>1. <<o[1], TRUE>> \notin favOwed
        <4> SUFFICES ASSUME <<o[1], TRUE>> \in favOwed PROVE FALSE
          OBVIOUS
        <4>1. <<o[1], TRUE>> = o
          BY DEF HeartInv, HeartTypes, Hearts!TypeOK
        <4>2. <<o[1], TRUE>>[2]
          OBVIOUS
        <4> QED
          BY <2>3, <4>1, <4>2, Zenon
      <3> QED
        BY <1>3, <2>1, <2>3, <3>1 DEF Hearts!Wanted
    <2> QED
      BY <2>1, <2>2, <2>3
  <1>5. \A g \in Hearts!AllGames \ Hearts!OwedGames :
            g \in Hearts!Listed' <=> g \in Hearts!OnServer
    <2> TAKE g \in Hearts!AllGames \ Hearts!OwedGames
    <2>1. <<g, TRUE>> \notin favOwed
      <3>1. <<g, TRUE>>[1] = g
        OBVIOUS
      <3> QED
        BY <3>1, Zenon DEF Hearts!OwedGames
    <2> QED
      BY <1>3, <2>1 DEF Hearts!Wanted
  <1>6. HeartTypes'
    <2>1. IsList(<<>>)
      BY DEF IsList, Hearts!IsInjective
    <2> QED
      BY <1>1, <1>3, <2>1 DEF HeartInv, HeartTypes, Hearts!TypeOK, IsList
  <1>7. LastIsOwed' /\ Hearing' /\ RommHeardLast' /\ Fetched'
    BY <1>1, <1>2 DEF HeartInv, LastIsOwed, Hearing, Fetched, RommHeardLast,
       Hearts!RommHeardLast
  <1>8. OwedIsShown'
    BY <1>1, <1>4 DEF OwedIsShown, Hearts!OwedIsShown
  <1>9. ListShowsLast'
    <2> SUFFICES ASSUME NEW g \in Hearts!AllGames
                                   \ (favElsewhere \cup favSentSince \cup favLost),
                        NEW on \in favWant[g]
                 PROVE  g \in Hearts!Listed' <=> on
      BY <1>1 DEF ListShowsLast, Hearts!ListShowsLast
    <2>1. CASE g \in Hearts!OwedGames
      <3>1. PICK o \in favOwed : o[1] = g
        BY <2>1 DEF Hearts!OwedGames
      <3>2. o[2] \in BOOLEAN /\ on \in BOOLEAN /\ o[2] \in favWant[g]
        BY <3>1 DEF HeartInv, HeartTypes, Hearts!TypeOK, Hearts!Press, LastIsOwed
      <3>3. o[2] = on
        BY <3>2 DEF HeartInv, LastIsOwed
      <3> QED
        BY <1>4, <3>1, <3>3
    <2>2. CASE g \notin Hearts!OwedGames
      BY <1>1, <1>5, <2>2 DEF HeartInv, Fetched
    <2> QED
      BY <2>1, <2>2
  <1> QED
    BY <1>6, <1>7, <1>8, <1>9 DEF HeartInv

\* One that cannot write it leaves it as it was.
LEMMA KeepStep ==
    ASSUME Hearts!FavouritesAssumption, HeartInv, Hearts!Keep PROVE HeartInv'
  <1>1. CASE favList' = Hearts!KeptList /\ favOvertaken' = favSentSince /\ favTorn' = {}
    BY <1>1, KeepWritten
  <1>2. CASE UNCHANGED <<favList, favOvertaken, favTorn>>
    <2>1. /\ favLpc' = "idle" /\ favFetched' = <<>>
          /\ UNCHANGED <<favList, favOvertaken, favTorn, favOwed, favRomm, favParked, favWpc,
                         favTodo, favSending, favPresses, favChanges, favCuts, favWant,
                         favElsewhere, favSentSince, favLost>>
      BY <1>2 DEF Hearts!Keep, Hearts!worker, Hearts!bounds
    <2>2. Hearts!OwedGames' = Hearts!OwedGames /\ Hearts!Listed' = Hearts!Listed
      BY <2>1 DEF Hearts!OwedGames, Hearts!Listed
    <2>3. HeartTypes'
      <3>1. IsList(<<>>)
        BY DEF IsList, Hearts!IsInjective
      <3> QED
        BY <2>1, <3>1 DEF HeartInv, HeartTypes, Hearts!TypeOK, IsList
    <2>4. /\ LastIsOwed' /\ Hearing' /\ Fetched' /\ OwedIsShown' /\ RommHeardLast'
          /\ ListShowsLast'
      BY <2>1, <2>2 DEF HeartInv, LastIsOwed, Hearing, Fetched, OwedIsShown, RommHeardLast,
         ListShowsLast, Hearts!OwedIsShown, Hearts!RommHeardLast, Hearts!ListShowsLast
    <2> QED
      BY <2>3, <2>4 DEF HeartInv
  <1> QED
    BY <1>1, <1>2 DEF Hearts!Keep

\* Another device's change is RomM's, and not of a press.
LEMMA ElsewhereStep ==
    ASSUME HeartInv, NEW g \in Hearts!AllGames, Hearts!ElsewhereChanges(g) PROVE HeartInv'
  <1>1. /\ favRomm' = IF g \in favRomm THEN favRomm \ {g} ELSE favRomm \cup {g}
        /\ favElsewhere' = favElsewhere \cup {g} /\ favChanges' = favChanges + 1
        /\ UNCHANGED <<favList, favOwed, favParked, favWpc, favTodo, favSending, favLpc,
                       favFetched, favPresses, favCuts, favWant, favSentSince,
                       favOvertaken, favTorn, favLost>>
    BY DEF Hearts!ElsewhereChanges, Hearts!files, Hearts!worker, Hearts!load
  <1>2. /\ Hearts!OwedGames' = Hearts!OwedGames /\ Hearts!Listed' = Hearts!Listed
        /\ Hearts!OnServer' = Hearts!OnServer
    BY <1>1 DEF Hearts!OwedGames, Hearts!Listed, Hearts!OnServer
  <1>3. HeartTypes'
    BY <1>1 DEF HeartInv, HeartTypes, Hearts!TypeOK
  <1>4. Hearing'
    BY <1>1, <1>2 DEF HeartInv, Hearing
  <1>5. LastIsOwed' /\ Fetched' /\ OwedIsShown' /\ RommHeardLast' /\ ListShowsLast'
    BY <1>1, <1>2 DEF HeartInv, LastIsOwed, Fetched, OwedIsShown, RommHeardLast,
       ListShowsLast, Hearts!OwedIsShown, Hearts!RommHeardLast, Hearts!ListShowsLast
  <1> QED
    BY <1>3, <1>4, <1>5 DEF HeartInv

\* A power cut ends what was under way, may leave a press in the list alone, and
\* may empty either file.
LEMMA CutStep ==
    ASSUME Hearts!FavouritesAssumption, HeartInv,
           NEW written, IsList(written), NEW games \in SUBSET Hearts!AllGames,
           Hearts!PowerGoes(written, favOwed, games), favPresses' \in Nat,
           \A h \in Hearts!AllGames \ games : h \in Elements(written) <=> h \in Hearts!Listed,
           favWant' \in [Hearts!AllGames -> SUBSET BOOLEAN],
           \A h \in Hearts!AllGames \ games : favWant'[h] = favWant[h],
           \A h \in games : \A a, b \in favWant'[h] : a = b
    PROVE  HeartInv'
  <1>1. /\ favList' \in {written, <<>>} /\ favOwed' \in {favOwed, {}}
        /\ favTorn' = favTorn \cup games \cup (Hearts!Listed \ Hearts!Listed')
        /\ favLost' = favLost \cup games \cup (Hearts!OwedGames \ Hearts!OwedGames')
        /\ favCuts' = favCuts + 1 /\ favParked' = FALSE /\ favWpc' = "idle"
        /\ favTodo' = {} /\ favSending' = Hearts!None /\ favLpc' = "idle"
        /\ favFetched' = <<>>
        /\ UNCHANGED <<favRomm, favChanges, favElsewhere, favSentSince, favOvertaken>>
    BY DEF Hearts!PowerGoes, Hearts!JobEnds
  <1>2. IsList(<<>>) /\ Elements(<<>>) = {}
    BY DEF IsList, Elements, Hearts!IsInjective
  <1>3. /\ IsList(favList') /\ Hearts!Listed' = Elements(favList')
        /\ Hearts!Listed \subseteq Hearts!AllGames
    <2>1. IsList(favList')
      BY <1>1, <1>2
    <2>2. Hearts!Listed = Elements(favList)
      BY DEF Elements, Hearts!Listed
    <2>3. Hearts!Listed' = Elements(favList')
      BY DEF Elements, Hearts!Listed
    <2>4. favList \in Seq(Hearts!AllGames)
      BY DEF HeartInv, HeartTypes, Hearts!TypeOK
    <2>5. Elements(favList) \subseteq Hearts!AllGames
      BY <2>4 DEF Elements
    <2> QED
      BY <2>1, <2>2, <2>3, <2>5
  <1>4. \A g \in Hearts!AllGames \ favTorn' : g \in Hearts!Listed' <=> g \in Hearts!Listed
    <2> TAKE g \in Hearts!AllGames \ favTorn'
    <2>1. g \notin games /\ (g \in Hearts!Listed => g \in Hearts!Listed')
      BY <1>1
    <2>2. favList' = written => (g \in Hearts!Listed' <=> g \in Hearts!Listed)
      BY <1>3, <2>1
    <2>3. favList' = <<>> => g \notin Hearts!Listed'
      BY <1>2, <1>3
    <2> QED
      BY <1>1, <2>1, <2>2, <2>3
  <1>5. favOwed' \subseteq favOwed
    BY <1>1
  <1>6. HeartTypes'
    <2>1. /\ favList' \in Seq(Hearts!AllGames) /\ Hearts!IsInjective(favList)'
          /\ favFetched' \in Seq(Hearts!AllGames) /\ Hearts!IsInjective(favFetched)'
      BY <1>1, <1>2, <1>3 DEF IsList, Hearts!IsInjective
    <2>2. /\ favCuts' \in Nat /\ favTorn' \subseteq Hearts!AllGames
          /\ favLost' \subseteq Hearts!AllGames
      <3>1. Hearts!OwedGames \subseteq Hearts!AllGames
        BY DEF HeartInv, HeartTypes, Hearts!TypeOK, Hearts!OwedGames, Hearts!Press
      <3> QED
        BY <1>1, <1>3, <3>1 DEF HeartInv, HeartTypes, Hearts!TypeOK
    <2> QED
      BY <1>1, <1>5, <2>1, <2>2 DEF HeartInv, HeartTypes, Hearts!TypeOK
  <1>7. LastIsOwed'
    <2>1. \A h \in Hearts!AllGames, a, b \in BOOLEAN :
             a \in favWant'[h] /\ b \in favWant'[h] => a = b
      BY DEF HeartInv, LastIsOwed
    <2>2. ASSUME NEW o \in favOwed', o[1] \notin favLost' PROVE o[2] \in favWant'[o[1]]
      <3>1. o \in favOwed /\ o[1] \in Hearts!AllGames \ games /\ o[1] \notin favLost
        BY <1>1, <1>5, <2>2 DEF HeartInv, HeartTypes, Hearts!TypeOK, Hearts!Press
      <3> QED
        BY <3>1 DEF HeartInv, LastIsOwed
    <2> QED
      BY <2>1, <2>2 DEF LastIsOwed
  <1>8. Hearing' /\ Fetched'
    BY <1>1 DEF Hearing, Fetched
  <1>9. RommHeardLast'
    BY <1>1 DEF HeartInv, RommHeardLast, Hearts!RommHeardLast
  <1>10. OwedIsShown'
    <2>1. \A o \in favOwed : o[1] \in Hearts!AllGames
      BY DEF HeartInv, HeartTypes, Hearts!TypeOK, Hearts!Press
    <2> QED
      BY <1>1, <1>4, <1>5, <2>1 DEF HeartInv, OwedIsShown, Hearts!OwedIsShown
  <1>11. ListShowsLast'
    BY <1>1, <1>4 DEF HeartInv, ListShowsLast, Hearts!ListShowsLast
  <1> QED
    BY <1>6, <1>7, <1>8, <1>9, <1>10, <1>11 DEF HeartInv

LEMMA CrashStep ==
    ASSUME Hearts!FavouritesAssumption, HeartInv, Hearts!Crash PROVE HeartInv'
  <1>1. /\ IsList(favList) /\ Elements(favList) = Hearts!Listed
        /\ favWant \in [Hearts!AllGames -> SUBSET BOOLEAN] /\ favPresses \in Nat
    BY DEF HeartInv, HeartTypes, Hearts!TypeOK, IsList, Elements, Hearts!Listed
  <1>2. Hearts!PowerGoes(favList, favOwed, {}) /\ UNCHANGED <<favPresses, favWant>>
    BY DEF Hearts!Crash
  <1> QED
    BY <1>1, <1>2, CutStep

LEMMA TornStep ==
    ASSUME Hearts!FavouritesAssumption, HeartInv,
           NEW g \in Hearts!AllGames, NEW on \in BOOLEAN, Hearts!TornPress(g, on)
    PROVE  HeartInv'
  <1>1. /\ IsList(favList) /\ favPresses \in Nat
        /\ favWant \in [Hearts!AllGames -> SUBSET BOOLEAN]
    BY DEF HeartInv, HeartTypes, Hearts!TypeOK, IsList
  <1>2. /\ Hearts!PowerGoes(Hearts!PressedList(g, on), favOwed, {g})
        /\ favPresses' = favPresses + 1 /\ favWant' = [favWant EXCEPT ![g] = {on}]
    BY DEF Hearts!TornPress
  <1>3. /\ IsList(Hearts!PressedList(g, on))
        /\ Elements(Hearts!PressedList(g, on))
               = (Hearts!Listed \ {g}) \cup (IF on THEN {g} ELSE {})
    BY <1>1, PressedIs
  <1>4. /\ favWant' \in [Hearts!AllGames -> SUBSET BOOLEAN] /\ favWant'[g] = {on}
        /\ \A h \in Hearts!AllGames \ {g} : favWant'[h] = favWant[h]
    BY <1>1, <1>2
  <1>5. \A h \in Hearts!AllGames \ {g} :
           h \in Elements(Hearts!PressedList(g, on)) <=> h \in Hearts!Listed
    BY <1>3
  <1>6. favPresses' \in Nat /\ \A h \in {g} : \A a, b \in favWant'[h] : a = b
    BY <1>1, <1>2, <1>4
  <1> HIDE DEF Hearts!PressedList
  <1> QED
    BY <1>2, <1>3, <1>4, <1>5, <1>6, CutStep

LEMMA HeartStep ==
    ASSUME Hearts!FavouritesAssumption, HeartInv, [Hearts!Next]_Hearts!vars
    PROVE  HeartInv'
  <1>1. CASE \E g \in Hearts!AllGames, on \in BOOLEAN : Hearts!PressHeart(g, on)
    BY <1>1, PressStep
  <1>2. CASE Hearts!Worker
    BY <1>2, WorkerStep, DeliverStep, AnsweredStep DEF Hearts!Worker
  <1>3. CASE Hearts!Load
    BY <1>3, FetchStep, KeepStep DEF Hearts!Load
  <1>4. CASE Hearts!Outside
    BY <1>4, CrashStep, TornStep, ElsewhereStep DEF Hearts!Outside
  <1>5. CASE UNCHANGED Hearts!vars
    BY <1>5 DEF Hearts!vars, Hearts!files, Hearts!worker, Hearts!load, Hearts!bounds,
       Hearts!history, HeartInv, HeartTypes, Hearts!TypeOK, LastIsOwed, Hearing, Fetched,
       OwedIsShown, RommHeardLast, ListShowsLast, Hearts!OwedIsShown,
       Hearts!RommHeardLast, Hearts!ListShowsLast, Hearts!OwedGames, Hearts!Listed,
       Hearts!OnServer
  <1> QED
    BY <1>1, <1>2, <1>3, <1>4, <1>5 DEF Hearts!Next

\* The inductive invariant of favourites.
THEOREM HeartInvariant ==
    ASSUME Hearts!FavouritesAssumption PROVE Hearts!Spec => []HeartInv
  BY HeartInit, HeartStep, PTL DEF Hearts!Spec

\* What is owed is what the list shows, but for what a write that failed or a
\* power cut left the list wrong about.
THEOREM PressesAreShown ==
    ASSUME Hearts!FavouritesAssumption PROVE Hearts!Spec => []OwedIsShown
  <1>1. HeartInv => OwedIsShown
    BY DEF HeartInv
  <1> QED
    BY <1>1, HeartInvariant, PTL

\* RomM has the last press of a game that is no longer owed, but for a change on
\* another device and a press whose record was lost.
THEOREM RommHasTheLast ==
    ASSUME Hearts!FavouritesAssumption PROVE Hearts!Spec => []RommHeardLast
  <1>1. HeartInv => RommHeardLast
    BY DEF HeartInv
  <1> QED
    BY <1>1, HeartInvariant, PTL

\* The list shows the last press of each game, but for the four lapses named.
THEOREM ListShowsTheLast ==
    ASSUME Hearts!FavouritesAssumption PROVE Hearts!Spec => []ListShowsLast
  <1>1. HeartInv => ListShowsLast
    BY DEF HeartInv
  <1> QED
    BY <1>1, HeartInvariant, PTL

-----------------------------------------------------------------------------
(* Home's order.                                                           *)

\* A game of a list has one place in it.
LEMMA PlaceIs ==
    ASSUME NEW s, IsList(s), NEW n \in 1 .. Len(s)
    PROVE  Hearts!Place(s, s[n]) = n
  <1>1. \A a, b \in 1 .. Len(s) : s[a] = s[b] => a = b
    BY DEF IsList, Hearts!IsInjective
  <1> QED
    BY <1>1 DEF Hearts!Place

\* Two games that are chosen keep their order.
LEMMA ChosenKeepsOrder ==
    ASSUME NEW s, IsList(s), NEW S,
           NEW i \in 1 .. Len(Hearts!Chosen(s, S)), NEW j \in 1 .. Len(Hearts!Chosen(s, S)),
           i < j
    PROVE  Hearts!Place(s, Hearts!Chosen(s, S)[i]) < Hearts!Place(s, Hearts!Chosen(s, S)[j])
  <1>1. PICK a, b \in 1 .. Len(s) :
            a < b /\ s[a] = Hearts!Chosen(s, S)[i] /\ s[b] = Hearts!Chosen(s, S)[j]
    BY ChosenList DEF IsChosen
  <1>2. Hearts!Place(s, s[a]) = a /\ Hearts!Place(s, s[b]) = b
    BY PlaceIs
  <1> QED
    BY <1>1, <1>2

\* Put after others, the games chosen of a list keep their order: two that are
\* none of the others do not change places.
LEMMA OrderOfTheRest ==
    ASSUME NEW s, IsList(s), NEW S, NEW first, IsList(first),
           Elements(first) \cap (Elements(s) \cap S) = {},
           NEW g \in Elements(s) \cap S, NEW h \in Elements(s) \cap S,
           Hearts!Place(s, g) < Hearts!Place(s, h)
    PROVE  ~(Hearts!Place(first \o Hearts!Chosen(s, S), h)
                 < Hearts!Place(first \o Hearts!Chosen(s, S), g))
  <1> DEFINE r == Hearts!Chosen(s, S)
             t == first \o r
  <1>1. IsList(r) /\ Elements(r) = Elements(s) \cap S
    BY ChosenList
  <1>2. /\ IsList(t) /\ Len(t) = Len(first) + Len(r)
        /\ \A n \in 1 .. Len(r) : t[Len(first) + n] = r[n]
    BY <1>1, JoinedList
  <1>3. PICK i, j \in 1 .. Len(r) : r[i] = g /\ r[j] = h
    BY <1>1 DEF Elements
  <1>4. ~(j < i)
    <2>1. \A a, b \in 1 .. Len(r) : a < b => Hearts!Place(s, r[a]) < Hearts!Place(s, r[b])
      BY ChosenKeepsOrder
    <2>2. Hearts!Place(s, g) \in Nat /\ Hearts!Place(s, h) \in Nat
      <3>1. PICK a, b \in 1 .. Len(s) : s[a] = g /\ s[b] = h
        BY DEF Elements
      <3> QED
        BY <3>1, PlaceIs
    <2> QED
      BY <1>3, <2>1, <2>2
  <1>5. Len(first) \in Nat /\ Len(r) \in Nat
    BY <1>1 DEF IsList
  <1> HIDE DEF r, t
  <1>6. Hearts!Place(t, g) = Len(first) + i /\ Hearts!Place(t, h) = Len(first) + j
    <2>1. Len(first) + i \in 1 .. Len(t) /\ Len(first) + j \in 1 .. Len(t)
      BY <1>2, <1>3, <1>5
    <2> QED
      BY <1>2, <1>3, <2>1, PlaceIs
  <1> QED
    BY <1>3, <1>4, <1>5, <1>6 DEF r, t

\* A press moves its own game alone.
LEMMA PressKeepsOrder ==
    ASSUME IsList(favList), favPresses \in Nat, NEW p \in Hearts!AllGames, NEW on \in BOOLEAN,
           favList' = Hearts!PressedList(p, on), favPresses' = favPresses + 1,
           NEW g \in Hearts!Listed \cap Hearts!Listed',
           NEW h \in Hearts!Listed \cap Hearts!Listed',
           Hearts!Place(favList, g) < Hearts!Place(favList, h),
           Hearts!Place(favList', h) < Hearts!Place(favList', g)
    PROVE  h = Head(favList') /\ favPresses' # favPresses
  <1> DEFINE first == IF on THEN <<p>> ELSE <<>>
             S     == Hearts!AllGames \ {p}
  <1>1. Elements(favList) = Hearts!Listed /\ Elements(favList') = Hearts!Listed'
    BY DEF Elements, Hearts!Listed
  <1>2. favList' = first \o Hearts!Chosen(favList, S)
    BY DEF Hearts!PressedList
  <1>3. IsList(first) /\ Elements(first) = IF on THEN {p} ELSE {}
    <2>1. CASE on
      <3>1. first = <<p>> /\ Len(first) = 1 /\ first[1] = p
        BY <2>1
      <3> QED
        BY <2>1, <3>1 DEF IsList, Elements, Hearts!IsInjective
    <2>2. CASE ~on
      BY <2>2 DEF IsList, Elements, Hearts!IsInjective
    <2> QED
      BY <2>1, <2>2
  <1>4. Hearts!Listed' = (Hearts!Listed \ {p}) \cup (IF on THEN {p} ELSE {})
    BY <1>1, PressedIs
  <1>5. Hearts!Listed \subseteq Hearts!AllGames
    BY DEF IsList, Hearts!Listed
  <1>6. g = p \/ h = p
    <2> SUFFICES ASSUME g # p, h # p PROVE FALSE
      OBVIOUS
    <2>1. g \in Elements(favList) \cap S /\ h \in Elements(favList) \cap S
      BY <1>1, <1>5
    <2>2. Elements(first) \cap (Elements(favList) \cap S) = {}
      BY <1>3
    <2> HIDE DEF first, S
    <2> QED
      BY <1>2, <1>3, <2>1, <2>2, OrderOfTheRest
  <1>7. on /\ Head(favList') = p /\ favList'[1] = p /\ 1 \in 1 .. Len(favList')
    <2>1. on
      BY <1>4, <1>6
    <2>2. Hearts!Chosen(favList, S) \in Seq(Hearts!AllGames)
      BY ChosenList DEF IsList
    <2>3. first = <<p>>
      BY <2>1
    <2> HIDE DEF first, S
    <2> QED
      BY <1>2, <2>1, <2>2, <2>3
  <1>8. IsList(favList')
    BY PressedIs
  <1>9. Hearts!Place(favList', p) = 1
    BY <1>7, <1>8, PlaceIs
  <1>10. PICK n \in 1 .. Len(favList') : favList'[n] = h
    BY <1>1 DEF Elements
  <1>11. Hearts!Place(favList', h) = n
    BY <1>8, <1>10, PlaceIs
  <1>12. h = p
    BY <1>6, <1>9, <1>11
  <1>13. favPresses' # favPresses
    OBVIOUS
  <1> QED
    BY <1>7, <1>12, <1>13, Zenon

\* Home's order is the console's: only a game hearted now overtakes another.
THEOREM HomeKeepsItsOrder ==
    ASSUME Hearts!FavouritesAssumption PROVE Hearts!Spec => OrderKept
  <1> DEFINE Kept ==
        \A g, h \in Hearts!Listed \cap Hearts!Listed' :
            Hearts!Place(favList, g) < Hearts!Place(favList, h)
                /\ Hearts!Place(favList', h) < Hearts!Place(favList', g)
            => h = Head(favList') /\ favPresses' # favPresses
  <1>1. ASSUME HeartInv, [Hearts!Next]_Hearts!vars PROVE [Kept]_Hearts!vars
    <2>1. IsList(favList) /\ IsList(favFetched) /\ favPresses \in Nat
      BY <1>1 DEF HeartInv, HeartTypes, Hearts!TypeOK, IsList
    <2> SUFFICES ASSUME NEW g \in Hearts!Listed \cap Hearts!Listed',
                        NEW h \in Hearts!Listed \cap Hearts!Listed',
                        Hearts!Place(favList, g) < Hearts!Place(favList, h),
                        Hearts!Place(favList', h) < Hearts!Place(favList', g),
                        Hearts!Next
                 PROVE  h = Head(favList') /\ favPresses' # favPresses
      BY <1>1
    <2>2. CASE \E p \in Hearts!AllGames, on \in BOOLEAN :
                  favList' = Hearts!PressedList(p, on) /\ favPresses' = favPresses + 1
      <3>1. PICK p \in Hearts!AllGames, on \in BOOLEAN :
                favList' = Hearts!PressedList(p, on) /\ favPresses' = favPresses + 1
        BY <2>2
      <3> QED
        BY <2>1, <3>1, PressKeepsOrder
    <2>3. CASE favList' = Hearts!KeptList
      <3>1. favList' = Hearts!NewOnes
                           \o Hearts!Chosen(favList, Hearts!Wanted(Hearts!OnServer))
        BY <2>3 DEF Hearts!KeptList
      <3>2. /\ IsList(Hearts!NewOnes) /\ Elements(Hearts!NewOnes) \cap Hearts!Listed = {}
            /\ Elements(Hearts!KeptList) = Hearts!Wanted(Hearts!OnServer)
        BY <2>1, KeptIs
      <3>3. Elements(favList) = Hearts!Listed
            /\ Hearts!Listed' = Hearts!Wanted(Hearts!OnServer)
        BY <2>3, <3>2 DEF Elements, Hearts!Listed
      <3> QED
        BY <2>1, <3>1, <3>2, <3>3, OrderOfTheRest
    <2>4. CASE UNCHANGED favList
      <3>1. \A p \in Hearts!Listed : Hearts!Place(favList, p) \in Nat
        BY <2>1, PlaceIs DEF Hearts!Listed
      <3> QED
        BY <2>4, <3>1
    <2>5. CASE favList' = <<>>
      BY <2>5 DEF Hearts!Listed
    <2>6. CASE \E p \in Hearts!AllGames, on \in BOOLEAN :
                  Hearts!PressHeart(p, on) \/ Hearts!TornPress(p, on)
      BY <2>2, <2>4, <2>5, <2>6 DEF Hearts!PressHeart, Hearts!TornPress, Hearts!PowerGoes
    <2>7. CASE Hearts!Keep \/ Hearts!Crash
      BY <2>3, <2>4, <2>5, <2>7 DEF Hearts!Keep, Hearts!Crash, Hearts!PowerGoes
    <2> QED
      BY <2>4, <2>6, <2>7 DEF Hearts!Next, Hearts!Worker, Hearts!Load, Hearts!Outside,
         Hearts!StartSending, Hearts!Deliver, Hearts!NotSent, Hearts!Park, Hearts!Answered,
         Hearts!AllSent, Hearts!Fetch, Hearts!ElsewhereChanges, Hearts!files
  <1>2. Hearts!Spec => [][Kept]_Hearts!vars
    BY <1>1, HeartInvariant, PTL DEF Hearts!Spec
  <1> QED
    BY <1>2 DEF OrderKept, Hearts!OrderKept

-----------------------------------------------------------------------------
(* The writing of a file, one writer at a time.                            *)

Steps == {"idle", "write", "sync", "rename", "failed"}

FileTypes ==
    /\ fileInodes \in [File!Inodes -> [of : Writers \cup {File!Old}, blocks : 0 .. Blocks,
                              synced : BOOLEAN]]
    /\ fileFile \in File!Inodes /\ fileOnDisk \in File!Inodes /\ fileTemp \in File!Inodes \cup {0}
    /\ filePc \in [Writers -> Steps] /\ fileFd \in [Writers -> File!Inodes]
    /\ fileWrites \in 0 .. MaxWrites

\* No inode has a name before its write has begun.
Named == {fileFile, fileOnDisk, fileTemp} \subseteq 0 .. fileWrites + 1

\* The names on the disk hold: a power cut changes neither what they are of.
Safe(i) == File!Whole(i) /\ fileInodes[i].synced

Apart == fileTemp # fileFile /\ fileTemp # fileOnDisk

\* One writer at a time, which has the temporary open and has done to it what
\* the steps before its own do.
Alone == \A u, w \in Writers : filePc[u] # "idle" /\ filePc[w] # "idle" => u = w

HasOpen(w) ==
    /\ filePc[w] # "idle" => fileFd[w] = fileTemp
    /\ filePc[w] = "write" => fileInodes[fileFd[w]].blocks < Blocks
    /\ filePc[w] = "sync" => File!Whole(fileFd[w])
    /\ filePc[w] = "rename" => Safe(fileFd[w])

Sound ==
    /\ FileTypes /\ Named /\ Apart /\ Alone
    /\ Safe(fileFile) /\ Safe(fileOnDisk)
    /\ \A w \in Writers : HasOpen(w)

\* The inode that a write makes is nobody's yet.
LEMMA NewInode ==
    ASSUME File!FileAssumption, Sound, NEW w \in Writers, File!Begin(w)
    PROVE  /\ fileWrites + 2 \in File!Inodes
           /\ fileWrites + 2 \notin {fileFile, fileOnDisk, fileTemp}
  BY DEF File!FileAssumption, Sound, FileTypes, Named, File!Begin, File!Inodes

LEMMA InitSound ==
    ASSUME File!FileAssumption, File!Init
    PROVE  Sound
  <1>1. FileTypes
    BY DEF File!FileAssumption, File!Init, FileTypes, File!Inodes, Steps, File!Old
  <1>2. Named /\ Apart /\ Alone
    BY DEF File!FileAssumption, File!Init, Named, Apart, Alone
  <1>3. Safe(1)
    BY DEF File!FileAssumption, File!Init, Safe, File!Whole, File!Inodes
  <1>4. \A w \in Writers : HasOpen(w)
    BY DEF File!Init, HasOpen
  <1> QED
    BY <1>1, <1>2, <1>3, <1>4 DEF File!Init, Sound

\* One step per action; what the names are of changes in Rename, Commit and
\* PowerCut alone.
LEMMA NextSound ==
    ASSUME File!FileAssumption, Sound, [File!Next]_File!vars
    PROVE  Sound'
  <1> USE DEF File!FileAssumption
  <1>1. ASSUME NEW w \in Writers, File!Begin(w)
        PROVE  Sound'
    <2>1. fileWrites + 2 \in File!Inodes /\ fileWrites + 2 \notin {fileFile, fileOnDisk, fileTemp}
      BY <1>1, NewInode
    <2>2. FileTypes'
      BY <1>1, <2>1 DEF Sound, FileTypes, File!Begin, File!Inodes, Steps
    <2>3. Named' /\ Apart'
      BY <1>1, <2>1 DEF Sound, FileTypes, Named, Apart, File!Begin
    <2>4. Alone'
      BY <1>1 DEF Sound, FileTypes, Alone, File!Begin, File!Idle
    <2>5. Safe(fileFile)' /\ Safe(fileOnDisk)'
      BY <1>1, <2>1 DEF Sound, FileTypes, Safe, File!Whole, File!Begin
    <2>6. ASSUME NEW v \in Writers
          PROVE  HasOpen(v)'
      <3>1. CASE v = w
        BY <1>1, <2>1, <3>1 DEF Sound, FileTypes, HasOpen, File!Begin, File!Inodes
      <3>2. CASE v # w
        BY <1>1, <3>2 DEF Sound, FileTypes, HasOpen, File!Begin, File!Idle
      <3> QED
        BY <3>1, <3>2
    <2> QED
      BY <2>2, <2>3, <2>4, <2>5, <2>6 DEF Sound
  <1>2. ASSUME NEW w \in Writers, File!WriteBlock(w)
        PROVE  Sound'
    <2>1. /\ fileFd[w] = fileTemp /\ fileFd[w] \in File!Inodes
          /\ fileInodes[fileFd[w]].blocks \in 0 .. Blocks - 1
      BY <1>2 DEF Sound, FileTypes, HasOpen, File!WriteBlock
    <2>2. FileTypes'
      BY <1>2, <2>1 DEF Sound, FileTypes, File!WriteBlock, Steps
    <2>3. Named' /\ Apart' /\ Alone'
      BY <1>2 DEF Sound, FileTypes, Named, Apart, Alone, File!WriteBlock
    <2>4. Safe(fileFile)' /\ Safe(fileOnDisk)'
      BY <1>2, <2>1 DEF Sound, FileTypes, Apart, Safe, File!Whole, File!WriteBlock
    <2>5. ASSUME NEW v \in Writers
          PROVE  HasOpen(v)'
      <3>1. CASE v = w
        BY <1>2, <2>1, <3>1 DEF Sound, FileTypes, HasOpen, File!Whole, Safe, File!WriteBlock
      <3>2. CASE v # w
        BY <1>2, <3>2 DEF Sound, FileTypes, Alone, HasOpen, File!WriteBlock
      <3> QED
        BY <3>1, <3>2
    <2> QED
      BY <2>2, <2>3, <2>4, <2>5 DEF Sound
  <1>3. ASSUME NEW w \in Writers, File!Sync(w)
        PROVE  Sound'
    <2>1. fileFd[w] = fileTemp /\ fileFd[w] \in File!Inodes /\ File!Whole(fileFd[w])
      BY <1>3 DEF Sound, FileTypes, HasOpen, File!Sync
    <2>2. FileTypes'
      <3>1. fileInodes' \in [File!Inodes -> [of : Writers \cup {File!Old}, blocks : 0 .. Blocks,
                                    synced : BOOLEAN]]
        <4>1. CASE UNCHANGED fileInodes
          BY <4>1 DEF Sound, FileTypes
        <4>2. CASE fileInodes' = [fileInodes EXCEPT ![fileFd[w]].synced = TRUE]
          <5>1. [fileInodes[fileFd[w]] EXCEPT !.synced = TRUE]
                    \in [of : Writers \cup {File!Old}, blocks : 0 .. Blocks, synced : BOOLEAN]
            BY <2>1 DEF Sound, FileTypes
          <5> QED
            BY <2>1, <4>2, <5>1 DEF Sound, FileTypes
        <4> QED
          BY <1>3, <4>1, <4>2 DEF File!Sync
      <3>2. filePc' \in [Writers -> Steps]
        BY <1>3 DEF Sound, FileTypes, File!Sync, Steps
      <3> QED
        BY <1>3, <3>1, <3>2 DEF Sound, FileTypes, File!Sync
    <2>3. Named' /\ Apart' /\ Alone'
      BY <1>3 DEF Sound, FileTypes, Named, Apart, Alone, File!Sync
    <2>4. Safe(fileFile)' /\ Safe(fileOnDisk)'
      BY <1>3, <2>1 DEF Sound, FileTypes, Apart, Safe, File!Whole, File!Sync
    <2>5. ASSUME NEW v \in Writers
          PROVE  HasOpen(v)'
      <3>1. CASE v = w
        BY <1>3, <2>1, <3>1 DEF Sound, FileTypes, HasOpen, File!Whole, Safe, File!Sync
      <3>2. CASE v # w
        BY <1>3, <3>2 DEF Sound, FileTypes, Alone, HasOpen, File!Sync
      <3> QED
        BY <3>1, <3>2
    <2> QED
      BY <2>2, <2>3, <2>4, <2>5 DEF Sound
  <1>4. ASSUME NEW w \in Writers, File!Rename(w)
        PROVE  Sound'
    <2>1. fileFd[w] = fileTemp /\ fileTemp \in File!Inodes /\ fileTemp # 0 /\ Safe(fileTemp)
      BY <1>4 DEF Sound, FileTypes, HasOpen, File!Rename, File!Inodes
    <2>2. fileFile' = fileTemp /\ fileTemp' = 0
      BY <1>4, <2>1 DEF File!Rename
    <2>3. FileTypes'
      BY <1>4, <2>1, <2>2 DEF Sound, FileTypes, File!Rename, Steps
    <2>4. Named' /\ Apart' /\ Alone'
      BY <1>4, <2>1, <2>2 DEF Sound, FileTypes, Named, Apart, Alone, File!Rename, File!Inodes
    <2>5. Safe(fileFile)' /\ Safe(fileOnDisk)'
      BY <1>4, <2>1, <2>2 DEF Sound, Safe, File!Whole, File!Rename
    <2>6. \A v \in Writers : HasOpen(v)'
      BY <1>4 DEF Sound, FileTypes, Alone, HasOpen, File!Rename
    <2> QED
      BY <2>3, <2>4, <2>5, <2>6 DEF Sound
  <1>5. ASSUME NEW w \in Writers, File!Fail(w)
        PROVE  Sound'
    <2>1. FileTypes'
      BY <1>5 DEF Sound, FileTypes, File!Fail, Steps
    <2>2. Named' /\ Apart' /\ Alone'
      BY <1>5 DEF Sound, FileTypes, Named, Apart, Alone, File!Fail, File!Inodes
    <2>3. Safe(fileFile)' /\ Safe(fileOnDisk)'
      BY <1>5 DEF Sound, Safe, File!Whole, File!Fail
    <2>4. \A v \in Writers : HasOpen(v)'
      BY <1>5 DEF Sound, FileTypes, Alone, HasOpen, File!Fail
    <2> QED
      BY <2>1, <2>2, <2>3, <2>4 DEF Sound
  <1>6. ASSUME File!Commit
        PROVE  Sound'
    BY <1>6 DEF Sound, FileTypes, Named, Apart, Alone, Safe, File!Whole, HasOpen, File!Commit
  <1>7. ASSUME File!PowerCut
        PROVE  Sound'
    <2>1. PICK n \in [File!Inodes -> 0 .. Blocks] :
              /\ \A i \in File!Inodes : n[i] <= fileInodes[i].blocks
              /\ fileInodes' = [i \in File!Inodes |-> IF fileInodes[i].synced THEN fileInodes[i]
                                             ELSE [fileInodes[i] EXCEPT !.blocks = n[i]]]
      BY <1>7 DEF File!PowerCut
    <2>2. FileTypes'
      BY <1>7, <2>1 DEF Sound, FileTypes, File!PowerCut, Steps
    <2>3. Named' /\ Apart' /\ Alone'
      <3>1. /\ fileFile' \in {fileFile, fileOnDisk} /\ fileOnDisk' = fileFile'
            /\ fileTemp' \in {0, fileTemp} /\ fileWrites' = fileWrites
            /\ filePc' = [w \in Writers |-> "idle"]
        BY <1>7 DEF File!PowerCut
      <3> QED
        BY <3>1 DEF Sound, FileTypes, Named, Apart, Alone, File!Inodes
    <2>4. \A i \in File!Inodes : Safe(i) => Safe(i)'
      BY <2>1 DEF Safe, File!Whole
    <2>5. Safe(fileFile)' /\ Safe(fileOnDisk)'
      BY <1>7, <2>4 DEF Sound, FileTypes, File!PowerCut, Safe, File!Whole
    <2>6. \A v \in Writers : HasOpen(v)'
      BY <1>7 DEF HasOpen, File!PowerCut
    <2> QED
      BY <2>2, <2>3, <2>5, <2>6 DEF Sound
  <1>8. ASSUME UNCHANGED File!vars
        PROVE  Sound'
    BY <1>8 DEF Sound, FileTypes, Named, Apart, Alone, Safe, File!Whole, HasOpen, File!vars
  <1> QED
    BY <1>1, <1>2, <1>3, <1>4, <1>5, <1>6, <1>7, <1>8 DEF File!Next

\* The file, and what a power cut brings back of it, are never empty, cut short
\* or half of two values (fileio.h, the head of the file).
THEOREM FileStaysWhole ==
    ASSUME File!FileAssumption
    PROVE  File!Spec => []Sound
  <1>1. File!Init => Sound
    BY InitSound
  <1>2. Sound /\ [File!Next]_File!vars => Sound'
    BY NextSound
  <1> QED
    BY <1>1, <1>2, PTL DEF File!Spec

LEMMA StepKeepsPromise ==
    ASSUME File!FileAssumption, Sound, [File!Next]_File!vars
    PROVE  [File!Promise!Next]_(File!Promise!vars)
  <1> USE DEF File!FileAssumption
  <1>1. fileFile \in File!Inodes /\ fileOnDisk \in File!Inodes /\ Safe(fileFile) /\ Safe(fileOnDisk)
    BY DEF Sound, FileTypes
  <1>2. /\ File!Read(fileFile) = fileInodes[fileFile].of
        /\ File!Read(fileOnDisk) = fileInodes[fileOnDisk].of
    BY <1>1 DEF File!Read, File!Whole, Safe
  <1>3. ASSUME fileFile' = fileFile, fileOnDisk' = fileOnDisk,
               fileInodes'[fileFile] = fileInodes[fileFile],
               fileInodes'[fileOnDisk] = fileInodes[fileOnDisk]
        PROVE  UNCHANGED File!Promise!vars
    BY <1>3 DEF File!Promise!vars, File!Read, File!Whole
  <1>4. ASSUME NEW w \in Writers, File!Begin(w) \/ File!WriteBlock(w) \/ File!Sync(w) \/ File!Fail(w)
        PROVE  UNCHANGED File!Promise!vars
    <2>1. CASE File!Begin(w)
      <3>1. fileWrites + 2 \notin {fileFile, fileOnDisk}
        BY <2>1, NewInode
      <3> QED
        BY <1>1, <1>3, <2>1, <3>1 DEF File!Begin, Sound, FileTypes
    <2>2. CASE File!WriteBlock(w)
      BY <1>1, <1>3, <2>2 DEF Sound, FileTypes, Apart, HasOpen, File!WriteBlock
    <2>3. CASE File!Sync(w)
      BY <1>1, <1>3, <2>3 DEF Sound, FileTypes, Apart, HasOpen, File!Sync
    <2>4. CASE File!Fail(w)
      BY <1>3, <2>4 DEF File!Fail
    <2> QED
      BY <1>4, <2>1, <2>2, <2>3, <2>4
  <1>5. ASSUME NEW w \in Writers, File!Rename(w)
        PROVE  File!Promise!Next
    <2>1. fileFd[w] = fileTemp /\ fileTemp \in File!Inodes /\ fileTemp # 0 /\ Safe(fileTemp)
      BY <1>5 DEF Sound, FileTypes, HasOpen, File!Rename, File!Inodes
    <2>2. fileInodes[fileTemp].of \in Writers \cup {File!Old}
      BY <2>1 DEF Sound, FileTypes
    <2>3. /\ File!Read(fileFile)' = fileInodes[fileTemp].of
          /\ File!Read(fileOnDisk)' = File!Read(fileOnDisk)
      BY <1>5, <2>1 DEF File!Rename, File!Read, File!Whole, Safe
    <2>4. File!Promise!Put(fileInodes[fileTemp].of)
      BY <2>3 DEF File!Promise!Put
    <2> QED
      BY <2>2, <2>4 DEF File!Promise!Next
  <1>6. ASSUME File!Commit
        PROVE  File!Promise!Next
    BY <1>6 DEF File!Commit, File!Promise!Next, File!Promise!Commit, File!Read, File!Whole
  <1>7. ASSUME File!PowerCut
        PROVE  File!Promise!Next
    <2>1. \A i \in {fileFile, fileOnDisk} : fileInodes'[i] = fileInodes[i]
      BY <1>1, <1>7 DEF File!PowerCut, Safe
    <2>2. /\ File!Read(fileFile)' \in {File!Read(fileFile), File!Read(fileOnDisk)}
          /\ File!Read(fileOnDisk)' = File!Read(fileFile)'
      BY <1>7, <2>1 DEF File!PowerCut, File!Read, File!Whole
    <2> QED
      BY <2>2 DEF File!Promise!Next, File!Promise!Cut
  <1>8. ASSUME UNCHANGED File!vars
        PROVE  UNCHANGED File!Promise!vars
    BY <1>3, <1>8 DEF File!vars
  <1> QED
    BY <1>4, <1>5, <1>6, <1>7, <1>8 DEF File!Next

\* writeBytes, one writer at a time, is the one step of OneWrite: a read before,
\* during or after it, and after a power cut, gives the old value or the new one.
THEOREM WriteIsOneStep ==
    ASSUME File!FileAssumption
    PROVE  File!Spec => WritesAtOnce
  <1>1. File!Init => File!Promise!Init
    <2> SUFFICES ASSUME File!Init PROVE File!Promise!Init
      OBVIOUS
    <2>1. fileFile = 1 /\ fileOnDisk = 1 /\ 1 \in File!Inodes
      BY DEF File!FileAssumption, File!Init, File!Inodes
    <2>2. fileInodes[1] = [of |-> File!Old, blocks |-> Blocks, synced |-> TRUE]
      BY <2>1 DEF File!Init
    <2>3. File!Read(fileFile) = File!Old /\ File!Read(fileOnDisk) = File!Old
      BY <2>1, <2>2 DEF File!Read, File!Whole
    <2> QED
      BY <2>3 DEF File!Promise!Init
  <1>2. Sound /\ [File!Next]_File!vars => [File!Promise!Next]_(File!Promise!vars)
    BY StepKeepsPromise
  <1>3. File!Spec => []Sound
    BY FileStaysWhole
  <1> QED
    BY <1>1, <1>2, <1>3, PTL DEF File!Spec, WritesAtOnce, File!WritesAtOnce, File!Promise!Spec

-----------------------------------------------------------------------------
(* The four parts together, as Home_all checks them.                       *)

\* A behaviour of the whole is one of each part.
LEMMA PartsAre ==
    HomeSpec => Spec /\ Hearts!Spec /\ Book!Spec /\ File!Spec
  <1>1. HomeInit => Init /\ Hearts!Init /\ Book!Init /\ File!Init
    BY DEF HomeInit
  <1>2. UNCHANGED favVars => UNCHANGED Hearts!vars
    BY DEF favVars, Hearts!vars, Hearts!files, Hearts!worker, Hearts!load, Hearts!bounds,
       Hearts!history
  <1>3. UNCHANGED accVars => UNCHANGED Book!vars
    BY DEF accVars, Book!vars, Book!disk, Book!threads, Book!bounds, Book!history
  <1>4. UNCHANGED fileVars => UNCHANGED File!vars
    BY DEF fileVars, File!vars
  <1>5. [HomeNext]_<<part, vars, favVars, accVars, fileVars>>
          => /\ [Next]_vars /\ [Hearts!Next]_Hearts!vars
             /\ [Book!Next]_Book!vars /\ [File!Next]_File!vars
    BY <1>2, <1>3, <1>4 DEF HomeNext
  <1> QED
    BY <1>1, <1>5, PTL DEF HomeSpec, Spec, Hearts!Spec, Book!Spec, File!Spec

\* Every variable of PlayTime, Favourites and Accounts holds what its declaration
\* says.
THEOREM HomeTypes ==
    ASSUME Hearts!FavouritesAssumption, Book!AccountsAssumption PROVE HomeSpec => []Types
  <1>1. HeartInv => Hearts!TypeOK
    BY DEF HeartInv, HeartTypes
  <1> QED
    BY <1>1, PartsAre, PlayTimeTypes, HeartInvariant, Book!AccountsTypes, PTL DEF Types

\* The person the book names has a login, at every point between operations: but a
\* book that was crossed, or that a sign out could not delete.
THEOREM HomeLogins ==
    ASSUME Book!AccountsAssumption PROVE HomeSpec => []LoginsStand
  BY PartsAre, Book!LoginsStandAlways, PTL DEF LoginsStand

\* Whose saves are on the console is listed, to be removed again: but for a book
\* that was crossed, or folders that a sign out could not delete.
THEOREM HomeFolders ==
    ASSUME Book!AccountsAssumption PROVE HomeSpec => []FoldersListed
  BY PartsAre, Book!FoldersAreListed, PTL DEF FoldersListed

\* A sign out that has ended leaves nothing but what it could not delete.
THEOREM HomeSignOut ==
    ASSUME Book!AccountsAssumption PROVE HomeSpec => []SignedOutIsEmpty
  BY PartsAre, Book!SignOutLeavesNothing, PTL DEF SignedOutIsEmpty

\* A removal deletes what RomM does not have only of who was asked; or of who made
\* it while an older one was sent, or has no marker of it.
THEOREM HomeRemoval ==
    ASSUME Book!AccountsAssumption PROVE HomeSpec => []RemoveAsks
  BY PartsAre, Book!RemovalAsks, PTL DEF RemoveAsks

\* A file is replaced in one step, old or new, whatever fails.
THEOREM HomeWrites ==
    ASSUME File!FileAssumption PROVE HomeSpec => WritesAtOnce
  BY PartsAre, WriteIsOneStep, PTL DEF WritesAtOnce

\* What play time promises, in the behaviours Home_all checks: no session is lost,
\* each ends once, a cut takes a minute of it, and the total kept is exact.
THEOREM HomePlays ==
    HomeSpec => [](NoneLost /\ EndsOnce /\ CutLosesAMinute /\ KnownExact)
  BY PartsAre, NoSessionIsLost, SessionsEndOnce, ACutTakesAMinute, KnownTotalIsExact, PTL

\* What favourites promise there: a press is shown and sent, and wins over a list
\* that was read before it; Home keeps its order.
THEOREM HomeHearts ==
    ASSUME Hearts!FavouritesAssumption
    PROVE  HomeSpec => [](OwedIsShown /\ RommHeardLast /\ ListShowsLast) /\ OrderKept
  BY PartsAre, PressesAreShown, RommHasTheLast, ListShowsTheLast, HomeKeepsItsOrder, PTL
     DEF OwedIsShown, RommHeardLast, ListShowsLast, OrderKept
=============================================================================
