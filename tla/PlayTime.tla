------------------------------ MODULE PlayTime ------------------------------
(***************************************************************************)
(* Time played (src/frontend/src/playtime.cpp): the clock of the game on   *)
(* screen, the person's record on the disk (the session in progress, the   *)
(* sessions owed, the totals RomM gave), the upload worker that sends what *)
(* is owed (uploader.cpp, sendPlaySessionsAs) and the worker of a game's   *)
(* page, which reads the total from RomM (detail.cpp, startDetailStates).  *)
(*                                                                         *)
(* Every operation on the record loads it, changes it and saves it under   *)
(* one lock: a step each.  Time is counted in units, of which Minute make  *)
(* a minute; a session's start, which tells it from every other, is the    *)
(* number of the session.  A total is the bag of the sessions in it.       *)
(***************************************************************************)
EXTENDS Naturals, FiniteSets

CONSTANTS
    Games,
    Minute,       \* units in a minute: kShortestMs, and between checkpoints
    Unwatched,    \* kUnwatchedAfter: the units after which nobody is there
    Batch,        \* kBatch: sessions in one request
    MaxSessions,  \* bound: sessions played
    MaxPlay,      \* bound: units of one session
    MaxRuns       \* bound: starts of the frontend

ASSUME PlayAssumption ==
    /\ Minute \in Nat \ {0} /\ Unwatched \in Nat \ {0} /\ Batch \in Nat \ {0}
    /\ MaxSessions \in Nat \ {0} /\ MaxPlay \in Nat /\ MaxRuns \in Nat

VARIABLES
    \* the record on the disk
    open,       \* the session in progress as last checkpointed, if any
    owed,       \* the sessions not yet on RomM
    known,      \* of each game the total RomM last gave, a bag, or none
    \* on RomM
    onRomM,     \* the sessions RomM has
    \* memory
    clock,      \* the session being played: the Clock
    sinceCheck, \* playCheckpointClock
    begun,      \* sessions begun: the start of the next
    runs,       \* starts so far (bounds the model)
    fpc,        \* the frame thread: at its start, in its loop, checkpointing
    wpc, list, batch, outcome, denied,   \* the upload worker
    dpc, asked, total,           \* the page's worker
    \* history
    ended,      \* sessions that ended and count, as they ended
    refused,    \* sessions RomM refused for good
    cut,        \* the session a power cut ended, with what its clock said
    drift       \* games whose known total went wrong: Remember and Sent say how

record  == <<open, owed, known>>
played  == <<clock, sinceCheck, begun>>
worker  == <<wpc, list, batch, outcome, denied>>
page    == <<dpc, asked, total>>
history == <<ended, refused, cut, drift>>
vars    == <<record, onRomM, played, runs, fpc, worker, page, history>>

Starts  == 0 .. MaxSessions        \* 0 is one of before this console was installed
Session == [game : Games, start : Starts, ms : Nat]
None    == {}                       \* no session, no total
Some(x) == {x}                      \* a set of at most one

\* A total as a bag: how often each session is counted in it.
Total   == [Starts -> Nat]
TotalOf(S) == [n \in Starts |-> Cardinality({s \in S : s.start = n})]

Of(g, S) == {s \in S : s.game = g}

-----------------------------------------------------------------------------
(* The clock (Clock). *)

Playing == clock # None
Counted(c) == c.kept + (IF c.since < Unwatched THEN c.since ELSE 0)
Now(c)  == [game |-> c.game, start |-> c.start, ms |-> Counted(c)]

\* A game comes on screen (startPlaying).
Begin(g) ==
    /\ fpc = "loop" /\ ~Playing /\ begun < MaxSessions
    /\ begun' = begun + 1
    /\ clock' = Some([game |-> g, start |-> begun + 1, kept |-> 0, since |-> 0])
    /\ sinceCheck' = 0
    /\ UNCHANGED <<record, onRomM, runs, fpc, worker, page, history>>

\* A frame of the game, or of the menu over it, where its clock stands still.
Tick(running) ==
    /\ fpc = "loop"
    /\ \E c \in clock :
          /\ running => c.kept + c.since < MaxPlay
          /\ clock' = Some([c EXCEPT !.since = @ + (IF running THEN 1 ELSE 0)])
    /\ sinceCheck' = sinceCheck + 1
    /\ fpc' = IF sinceCheck' >= Minute THEN "checkpoint" ELSE "loop"
    /\ UNCHANGED <<record, onRomM, begun, runs, worker, page, history>>

\* A press keeps what came before it, unless nobody was there.
Touch ==
    /\ fpc = "loop"
    /\ \E c \in clock : c.since > 0 /\ clock' =
          Some([c EXCEPT !.since = 0,
                         !.kept = IF c.since < Unwatched THEN @ + c.since ELSE @])
    /\ UNCHANGED <<record, onRomM, sinceCheck, begun, runs, fpc, worker, page, history>>

-----------------------------------------------------------------------------
(* The record, under gLock. *)

\* owe: a session under a minute is not recorded.
Owing(s, S) == IF s.ms >= Minute THEN S \cup {s} ELSE S

\* checkpoint, written only when no session is written already.
Checkpointed_Once == IF open = None THEN {Now(c) : c \in clock} ELSE open

Checkpointed == {Now(c) : c \in clock}

\* A checkpoint whose minute is not begun again.
Checkpoint_Running ==
    /\ fpc = "checkpoint"
    /\ open' = Checkpointed
    /\ fpc' = "loop"
    /\ UNCHANGED <<owed, known, onRomM, clock, sinceCheck, begun, runs, worker, page,
                   history>>

Checkpoint ==
    /\ fpc = "checkpoint"
    /\ open' = Checkpointed
    /\ sinceCheck' = 0
    /\ fpc' = "loop"
    /\ UNCHANGED <<owed, known, onRomM, clock, begun, runs, worker, page, history>>

\* What close leaves of the session in progress.
Closed_Kept == open

Closed == None

\* The game ends: Clock::finish, then close (finishExit).
Close ==
    /\ fpc = "loop"
    /\ \E c \in clock :
          /\ owed' = Owing(Now(c), owed)
          /\ ended' = Owing(Now(c), ended)
    /\ open' = Closed
    /\ clock' = None
    /\ UNCHANGED <<known, onRomM, sinceCheck, begun, runs, fpc, worker, page,
                   refused, cut, drift>>

\* A game whose machine never ran is not time played: the clock is stopped and
\* the record is not told (watchPs2Start).
Abandon ==
    /\ fpc = "loop" /\ Playing
    /\ clock' = None
    /\ UNCHANGED <<record, onRomM, sinceCheck, begun, runs, fpc, worker, page, history>>

\* recover, at the start: what was left open is owed, as last checkpointed.
Recover ==
    /\ fpc = "start"
    /\ \/ open = None /\ UNCHANGED <<owed, ended>>
       \/ \E s \in open : owed' = Owing(s, owed) /\ ended' = Owing(s, ended)
    /\ open' = None
    /\ fpc' = "loop"
    /\ UNCHANGED <<known, onRomM, played, runs, worker, page, refused, cut, drift>>

-----------------------------------------------------------------------------
(* The upload worker: sendPlaySessionsAs. *)

\* Its job was queued, at a game's end or with a resend.
TakeList ==
    /\ wpc = "idle" /\ fpc # "start" /\ owed # {}
    /\ list' = owed
    /\ wpc' = "post"
    /\ UNCHANGED <<record, onRomM, played, runs, fpc, batch, outcome, denied, page, history>>

\* The next of the list, in the order owed.
NextBatch == {s \in list : Cardinality({t \in list : t.start < s.start}) < Batch}

\* RomM answers for each of the batch: it has it now (or had it), refuses it
\* for good, or says nothing of it.
Post(taken, bad) ==
    /\ wpc = "post"
    /\ taken \cup bad \subseteq NextBatch /\ taken \cap bad = {} /\ bad \cap onRomM = {}
    /\ onRomM' = onRomM \cup taken
    /\ batch' = NextBatch /\ outcome' = taken \cup bad /\ denied' = bad
    /\ wpc' = "answered"
    /\ UNCHANGED <<record, played, runs, fpc, list, page, history>>

EndJob == wpc' = "idle" /\ list' = {} /\ batch' = {} /\ outcome' = {} /\ denied' = {}

\* No answer, whether or not RomM has the sessions now: all stay owed.
NotSent ==
    /\ wpc \in {"post", "answered"}
    /\ EndJob
    /\ UNCHANGED <<record, onRomM, played, runs, fpc, page, history>>

\* What sent leaves owed; the worker's own list would be the wrong one to use.
StillOwed_AsListed(done) == list \ done

StillOwed(done) ==
    {s \in owed : \A d \in done : <<d.game, d.start>> # <<s.game, s.start>>}

\* A total of this console's own sessions, where RomM has given none.
AddedTo_Always(k, D) ==
    {[n \in Starts |-> t[n] + TotalOf(D)[n]] : t \in IF k = None THEN {TotalOf({})} ELSE k}

\* sent adds only to a total RomM has given.
AddedTo(k, D) == {[n \in Starts |-> t[n] + TotalOf(D)[n]] : t \in k}

\* sent: what RomM answered for is no longer owed and is added to the total. A
\* session RomM refused is added too.
Sent ==
    /\ wpc = "answered"
    /\ owed' = StillOwed(outcome)
    /\ known' = [g \in Games |-> AddedTo(known[g], Of(g, outcome))]
    /\ refused' = refused \cup denied
    /\ drift' = drift \cup {s.game : s \in denied}
    /\ list' = list \ batch
    /\ batch' = {} /\ outcome' = {} /\ denied' = {}
    /\ wpc' = IF outcome = batch /\ list' # {} THEN "post" ELSE "idle"
    /\ UNCHANGED <<open, onRomM, played, runs, fpc, page, ended, cut>>

-----------------------------------------------------------------------------
(* The worker of a game's page. *)

\* fetchPlayedMs: what RomM has of the game.
FetchPlayed(g) ==
    /\ dpc = "idle" /\ fpc # "start"
    /\ asked' = g
    /\ total' = Some(TotalOf(Of(g, onRomM)))
    /\ dpc' = "remember"
    /\ UNCHANGED <<record, onRomM, played, runs, fpc, worker, history>>

\* What the known total should be: what RomM has and sent has been told of.
Settled(g) == TotalOf(Of(g, onRomM \ owed))

\* remember. The total is wrong when the upload worker was at work between the
\* fetch and this: it has a session that is still owed, which sent will add
\* again, or lacks one that sent has added.
Remember ==
    /\ dpc = "remember"
    /\ known' = [known EXCEPT ![asked] = total]
    /\ drift' = IF total = Some(Settled(asked)) THEN drift \ {asked}
                ELSE drift \cup {asked}
    /\ dpc' = "idle" /\ total' = None
    /\ UNCHANGED <<open, owed, onRomM, played, runs, fpc, worker, asked,
                   ended, refused, cut>>

-----------------------------------------------------------------------------

\* The process dies.
Crash ==
    /\ runs < MaxRuns
    /\ runs' = runs + 1
    /\ cut' = {Now(c) : c \in clock}
    /\ clock' = None /\ sinceCheck' = 0
    /\ fpc' = "start"
    /\ EndJob
    /\ dpc' = "idle" /\ total' = None
    /\ UNCHANGED <<record, onRomM, begun, asked, ended, refused, drift>>

Init ==
    /\ open = None /\ owed = {} /\ known = [g \in Games |-> None]
    /\ onRomM \in {{}} \cup {{[game |-> g, start |-> 0, ms |-> Minute]} : g \in Games}
    /\ clock = None /\ sinceCheck = 0 /\ begun = 0
    /\ runs = 1 /\ fpc = "start"
    /\ wpc = "idle" /\ list = {} /\ batch = {} /\ outcome = {} /\ denied = {}
    /\ dpc = "idle" /\ asked \in Games /\ total = None
    /\ ended = {} /\ refused = {} /\ cut = None /\ drift = {}

Frame ==
    \/ Recover \/ Touch \/ Checkpoint \/ Close \/ Abandon
    \/ \E g \in Games : Begin(g)
    \/ \E running \in BOOLEAN : Tick(running)

Uploading ==
    \/ TakeList \/ NotSent \/ Sent
    \/ \E taken, bad \in SUBSET list : Post(taken, bad)

Page == Remember \/ \E g \in Games : FetchPlayed(g)

Next == Frame \/ Uploading \/ Page \/ Crash

Spec == Init /\ [][Next]_vars

-----------------------------------------------------------------------------
(* Properties. *)

\* Every variable holds what its declaration says.
TypeOK ==
    /\ open \subseteq Session /\ owed \subseteq Session /\ onRomM \subseteq Session
    /\ known \in [Games -> SUBSET Total] /\ total \subseteq Total
    /\ clock \subseteq [game : Games, start : Starts, kept : Nat, since : Nat]
    /\ sinceCheck \in 0 .. Minute /\ begun \in 0 .. MaxSessions /\ runs \in Nat
    /\ fpc \in {"start", "loop", "checkpoint"}
    /\ wpc \in {"idle", "post", "answered"} /\ dpc \in {"idle", "remember"}
    /\ list \subseteq Session /\ batch \subseteq Session
    /\ outcome \subseteq Session /\ denied \subseteq outcome
    /\ asked \in Games
    /\ ended \subseteq Session /\ refused \subseteq Session /\ cut \subseteq Session
    /\ drift \subseteq Games

\* A session that ended and counts is owed, on RomM or refused by it, whatever
\* the game's end, the worker's answers and a power cut do between each other
\* (close, recover and sent all rewrite the one record).
NoneLost == ended \subseteq owed \cup onRomM \cup refused

\* A session ends once: what a crash left open is not recovered once more when
\* it was closed, nor while it is still being played (close, recover).
EndsOnce ==
    /\ \A s, t \in ended : s.start = t.start => s = t
    /\ \A c \in clock, s \in ended : s.start # c.start

\* A session of two minutes that a power cut ends is recovered, and at most a
\* minute of it is missing (the checkpoints of frame.cpp, recover).
CutLosesAMinute ==
    \A c \in cut : (fpc # "start" /\ c.ms >= 2 * Minute)
        => \E s \in ended : s.start = c.start /\ s.ms + Minute >= c.ms

\* The total kept for when RomM is away is what RomM has, each session once,
\* and lacks only what is still owed, but for the two ways Remember and Sent
\* name; and the next undisturbed fetch mends those.
KnownExact ==
    \A g \in Games \ drift : known[g] = None \/ known[g] = Some(Settled(g))
=============================================================================
