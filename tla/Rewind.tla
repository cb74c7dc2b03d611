------------------------------- MODULE Rewind -------------------------------
(***************************************************************************)
(* Going back in a game. Rewind: the snapshots and the thread that         *)
(* compresses them (rewind.cpp), and the frame that takes one every half   *)
(* second of play and steps back through them (runGameFrame, pace.cpp).    *)
(* Load state: the worker that fetches one from RomM and the frame that    *)
(* gives it to the core when it has come (states.cpp). And what else       *)
(* changes the machine between two snapshots: a disc put in (discs.cpp),   *)
(* the end of a game (play.cpp).                                           *)
(*                                                                         *)
(* Play is counted in half seconds: a machine is the set of those it has   *)
(* been through, each the game's and with a number of its own; a snapshot  *)
(* or a state is that with the disc that was in. The core leaves the drive *)
(* as it is when it takes one (PlayStation's, which puts the state's disc  *)
(* in, is left out).                                                       *)
(***************************************************************************)
EXTENDS Naturals, SequencesExt

CONSTANTS
    Games, Discs,
    None,      \* no game, disc, snapshot or state
    Keep,      \* kKeep, at least 1
    MaxClock,  \* bound: half seconds played
    MaxTurns   \* bound: states asked for, discs put in and games begun

RewindAssumption == Keep \in Nat \ {0} /\ MaxClock \in Nat /\ MaxTurns \in Nat

VARIABLES
    change,     \* how the system changes discs: "insert" or "startOver"
    game,       \* the game that is up
    clock,      \* the newest half second
    past, disc, \* the machine, and the disc in the drive
    inserting,  \* session.discInserting
    snaps,      \* snaps_, the oldest first
    generation, \* generation_
    pending,    \* what the worker has, and its pendingGen_ (busy_ otherwise)
    saved,      \* the newest state of each game
    loading,    \* the game the state being fetched is for
    turns,      \* bounds the model
    \* history
    late,       \* snapshots still being compressed at a step back
    swapped     \* a state put its disc in and then did not load

machine == <<game, past, disc>>
keep    == <<snaps, generation, pending>>
states  == <<saved, loading>>
history == <<late, swapped>>
vars    == <<change, clock, machine, inserting, keep, states, turns, history>>

Moment == Games \X (1 .. MaxClock)
Snap   == [past : SUBSET Moment, disc : Discs]
Now    == [past |-> past, disc |-> disc]

Turn == turns < MaxTurns /\ turns' = turns + 1

-----------------------------------------------------------------------------
(* Rewind's own methods. *)

\* reset that forgets the snapshot being compressed.
Reset_KeepsPending ==
    /\ snaps' = <<>>
    /\ swapped' = FALSE
    /\ UNCHANGED <<generation, pending>>

\* reset: a snapshot still being compressed is dropped when it finishes.
Reset ==
    /\ generation' = generation + 1
    /\ snaps' = <<>>
    /\ swapped' = FALSE
    /\ UNCHANGED pending

\* offer: nothing is taken while the worker is busy.
Offer(s) ==
    /\ pending = None
    /\ pending' = [snap |-> s, gen |-> generation]
    /\ UNCHANGED <<snaps, generation>>

\* The worker is done with a snapshot: it is kept if no reset came between, and
\* past kKeep, or the memory they may take, the oldest go. It may not compress.
Compressed ==
    /\ pending # None
    /\ pending' = None
    /\ \/ UNCHANGED snaps
       \/ /\ pending.gen = generation
          /\ LET all == Append(snaps, pending.snap)
             IN  \E n \in 0 .. Len(all) :
                    /\ Len(all) - n <= Keep
                    /\ snaps' = SubSeq(all, n + 1, Len(all))
    /\ UNCHANGED <<change, clock, machine, inserting, generation, states, turns, history>>

-----------------------------------------------------------------------------
(* The frame thread. *)

\* Half a second of play, and a snapshot after it: none while a disc is being put
\* in, and the core may not make one.
PlayOn ==
    /\ game # None /\ clock < MaxClock
    /\ clock' = clock + 1
    /\ past' = past \cup {<<game, clock'>>}
    /\ \/ inserting = None /\ Offer([past |-> past', disc |-> disc])
       \/ UNCHANGED keep
    /\ UNCHANGED <<change, game, disc, inserting, states, turns, history>>

\* One snapshot back, which the core may refuse; the game plays on from it.
StepBack ==
    /\ snaps # <<>>
    /\ snaps' = Front(snaps)
    /\ past' \in {Last(snaps).past, past}
    /\ late' = late \cup (IF pending = None THEN {} ELSE {pending.snap.past})
    /\ UNCHANGED <<change, game, clock, disc, inserting, generation, pending, states,
                   turns, swapped>>

\* saveStateNow, and its upload.
SaveState ==
    /\ game # None /\ inserting = None
    /\ saved' = [saved EXCEPT ![game] = Now]
    /\ UNCHANGED <<change, clock, machine, inserting, keep, loading, turns, history>>

\* beginLoadLatestState: the worker goes to RomM for the game's newest state.
AskState ==
    /\ Turn
    /\ game # None /\ inserting = None /\ loading = None
    /\ loading' = game
    /\ UNCHANGED <<change, clock, machine, inserting, keep, saved, history>>

\* What pumpStateLoad has when the worker is done: the state of the game it was
\* asked for or, with none on RomM, this console's of the game that is up.
Fetched == {saved[g] : g \in {loading, game} \ {None}} \ {None}

\* loadStateOnItsDisc, of a state that the core takes, after its disc: the drive
\* may keep the one it has. loadPendingStates then drops the snapshots.
StateLoads(s) ==
    /\ loading # None /\ game # None /\ s \in Fetched
    /\ change = "startOver" => disc = s.disc
    /\ loading' = None
    /\ disc' \in {disc, s.disc}
    /\ past' = s.past
    /\ Reset
    /\ UNCHANGED <<change, game, clock, inserting, saved, turns, late>>

\* ... of one it refuses or that cannot be read, whose disc may be in by then ...
StateRefused(s) ==
    /\ loading # None /\ game # None /\ s \in Fetched
    /\ loading' = None
    /\ disc' \in IF change = "insert" THEN {disc, s.disc} ELSE {disc}
    /\ swapped' = (swapped \/ disc' # disc)
    /\ UNCHANGED <<change, game, clock, past, inserting, keep, saved, turns, late>>

\* ... and of none, or with no game up for it (Core::loadState).
NoState ==
    /\ loading # None /\ (Fetched = {} \/ game = None)
    /\ loading' = None
    /\ UNCHANGED <<change, clock, machine, inserting, keep, saved, turns, history>>

\* Where a step back would go: to the last snapshot, or to the one being compressed
\* if the worker is done by then.
StepsTo == {snaps[n].past : n \in {Len(snaps)} \cap DOMAIN snaps}
               \cup (IF pending # None /\ pending.gen = generation THEN {pending.snap.past} ELSE {})

\* beginLoadLatestState where states stay on the console: it is loaded at once,
\* before the frame is run. With Rewind held that frame is a step back, and only
\* after it does loadPendingStates drop the snapshots.
StateAtOnce ==
    /\ Turn
    /\ game # None /\ inserting = None /\ loading = None /\ saved[game] # None
    /\ change = "startOver" => disc = saved[game].disc
    /\ disc' \in {disc, saved[game].disc}
    /\ past' \in {saved[game].past} \cup StepsTo
    /\ Reset
    /\ UNCHANGED <<change, game, clock, inserting, states, late>>

\* beginInsert: the lid is open and the game runs on.
BeginInsert(d) ==
    /\ Turn
    /\ game # None /\ change = "insert" /\ inserting = None /\ d # disc
    /\ inserting' = d
    /\ UNCHANGED <<change, clock, machine, keep, states, history>>

\* pumpInsert: the core may refuse the disc.
InsertEnds ==
    /\ inserting # None
    /\ disc' \in {disc, inserting}
    /\ inserting' = None
    /\ Reset
    /\ UNCHANGED <<change, game, clock, past, states, turns, late>>

\* exitToHome: a state still being fetched is not asked about.
LeaveGame ==
    /\ game # None
    /\ game' = None /\ past' = {} /\ inserting' = None
    /\ Reset
    /\ UNCHANGED <<change, clock, disc, states, turns, late>>

\* The next launch, with the disc it is given.
StartGame(g, d) ==
    /\ Turn
    /\ game = None
    /\ game' = g /\ disc' = d
    /\ UNCHANGED <<change, clock, past, inserting, keep, states, history>>

\* Home waits for a press.
Home == game = None /\ UNCHANGED vars

-----------------------------------------------------------------------------
Init ==
    /\ change \in {"insert", "startOver"}
    /\ game = None /\ clock = 0 /\ past = {} /\ disc \in Discs /\ inserting = None
    /\ snaps = <<>> /\ generation = 0 /\ pending = None
    /\ saved = [g \in Games |-> None] /\ loading = None
    /\ turns = 0 /\ late = {} /\ swapped = FALSE

Next ==
    \/ PlayOn \/ StepBack \/ Compressed
    \/ SaveState \/ AskState \/ NoState \/ StateAtOnce
    \/ \E s \in Fetched : StateLoads(s) \/ StateRefused(s)
    \/ \E d \in Discs : BeginInsert(d) \/ \E g \in Games : StartGame(g, d)
    \/ InsertEnds \/ LeaveGame \/ Home

Spec == Init /\ [][Next]_vars

-----------------------------------------------------------------------------
\* The type invariant.
TypeOK ==
    /\ change \in {"insert", "startOver"}
    /\ clock \in 0 .. MaxClock
    /\ game \in Games \cup {None} /\ past \subseteq Games \X (1 .. clock)
    /\ disc \in Discs /\ inserting \in Discs \cup {None}
    /\ \A n \in 1 .. Len(snaps) : snaps[n] \in Snap
    /\ Len(snaps) <= Keep
    /\ generation \in Nat
    /\ pending # None => pending.snap \in Snap /\ pending.gen \in 0 .. generation
    /\ \A g \in Games : saved[g] = None \/ saved[g] \in Snap
    /\ loading \in Games \cup {None} /\ turns \in 0 .. MaxTurns
    /\ late \subseteq SUBSET Moment /\ swapped \in BOOLEAN

\* A step back goes to where this machine has been, and with the disc that is in:
\* never to before a state that loaded, a disc put in or another game, whatever
\* the worker was compressing meanwhile (rewind.h, reset). But for a snapshot it
\* was compressing at a step back, which is kept behind the one taken, and a
\* disc that a refused state has put in (loadStateOnItsDisc). The frame in which a
\* state loads at once is another action, which may go back as it loads (StateAtOnce).
RewindsBack ==
    [][StepBack =>
          /\ past' \subseteq past \/ past' \in late
          /\ Last(snaps).disc = disc \/ swapped]_vars
=============================================================================
