-------------------------------- MODULE Keeps --------------------------------
(***************************************************************************)
(* Games on the console's drives: who keeps which (cache.cpp), the one job *)
(* that fetches a game to play or to keep it (launch.cpp, begin and pickup;*)
(* launch_routes.cpp, its worker), Download, Remove download and Settings' *)
(* Downloads (downloadsflow.cpp), and the sweep of the games RomM no       *)
(* longer has (gonegames.cpp).                                             *)
(*                                                                         *)
(* A game is at most once in each half of each drive: roms holds the kept, *)
(* cache the evictable. A copy is whole, the size RomM gives, or bad.      *)
(* How much room a game takes is left out: eviction takes any of what it   *)
(* may, and a keep that mayKeep refuses changes nothing.                   *)
(***************************************************************************)
EXTENDS Naturals, FiniteSets, Sequences

CONSTANTS
    People, Games,
    None,         \* no game, no person
    MaxJobs,      \* bound: launches and downloads begun
    MaxEvents     \* bound: removals, switches, drives away, changes on RomM, power cuts

ASSUME KeepsAssumption ==
    /\ None \notin Games \cup People
    /\ MaxJobs \in Nat /\ MaxEvents \in Nat

VARIABLES
    user,     \* who is signed in
    kept,     \* the keep records: pairs of a person and a game
    disk,     \* each game's copy in each slot: "none", "bad" or "whole"
    away,     \* the second drive is unplugged
    job,      \* launchJob
    playing,  \* the game on the screen
    gone,     \* the games RomM answers 404 for
    sweep,    \* the game the sweep has asked inUse about
    jobs, events,   \* bound the model
    \* history
    undelivered,  \* promises whose download failed
    crossed       \* those that failed with someone else signed in

drives  == <<disk, away>>
bounds  == <<jobs, events>>
history == <<undelivered, crossed>>
vars    == <<user, kept, drives, job, playing, gone, sweep, bounds, history>>

\* The order findAll looks in.
Slots == <<<<"main", "roms">>, <<"main", "cache">>, <<"usb", "roms">>, <<"usb", "cache">>>>
SlotSet == {Slots[n] : n \in 1 .. Len(Slots)}
Here == {s \in SlotSet : ~(away /\ s[1] = "usb")}

Stages == {"idle", "asking", "fetching", "saves", "ready", "failed"}
NoJob == [stage |-> "idle", game |-> None, keep |-> FALSE, play |-> FALSE,
          at |-> Slots[1], who |-> None, cancel |-> FALSE]
Busy    == job.stage \in {"asking", "fetching", "saves"}
Waiting == job.stage \in {"ready", "failed"}

-----------------------------------------------------------------------------
(* cache.cpp. d is the disk before, k the keep records. *)

Copies(d, g)  == {s \in Here : d[g][s] # "none"}
Find(d, g)    == LET n == CHOOSE n \in 1 .. Len(Slots) :
                         /\ Slots[n] \in Copies(d, g)
                         /\ \A m \in 1 .. n - 1 : Slots[m] \notin Copies(d, g)
                 IN  Slots[n]
Keepers(k, g) == {p \in People : <<p, g>> \in k}
Without(d, g, S) == [d EXCEPT ![g] = [s \in SlotSet |-> IF s \in S THEN "none" ELSE d[g][s]]]

\* relocate: the first copy to the other half of its drive.
Relocated(d, g, half) ==
    IF Copies(d, g) = {} \/ Find(d, g)[2] = half THEN d
    ELSE LET s == Find(d, g)
         IN  [d EXCEPT ![g][<<s[1], half>>] = d[g][s], ![g][s] = "none"]

\* The move may fail, and neither of its callers asks.
MayMove(d, g, half) == {d, Relocated(d, g, half)}

\* dedupe: of several copies one whole one stays, a kept game's in roms, then
\* the main drive's; with none whole, all stay.
Rank(k, g, s) == (IF Keepers(k, g) # {} /\ s[2] = "cache" THEN 2 ELSE 0)
                     + (IF s[1] = "usb" THEN 1 ELSE 0)

Winner(d, k, g) ==
    LET whole == {s \in Copies(d, g) : d[g][s] = "whole"}
    IN  CHOOSE s \in whole : \A t \in whole : Rank(k, g, s) <= Rank(k, g, t)

Whole(d, g) == \E s \in Copies(d, g) : d[g][s] = "whole"

\* A dedupe that keeps the main drive's copy, whatever the game is.
Deduped_Main(d, k, g) ==
    IF Cardinality(Copies(d, g)) <= 1 \/ ~Whole(d, g) THEN d
    ELSE Without(d, g, Copies(d, g) \ {Find(d, g)})

Deduped(d, k, g) ==
    IF Cardinality(Copies(d, g)) <= 1 \/ ~Whole(d, g) THEN d
    ELSE Without(d, g, Copies(d, g) \ {Winner(d, k, g)})

\* A release that does not ask who else keeps the game.
Released_Alone(d, k, g, keepTheBytes) ==
    IF Copies(d, g) = {} THEN d
    ELSE IF keepTheBytes THEN Relocated(d, g, "cache")
    ELSE Without(d, g, {Find(d, g)})

\* unkeep, once the record is out: k is who keeps it still.
Released(d, k, g, keepTheBytes) ==
    IF Keepers(k, g) # {} \/ Copies(d, g) = {} THEN d
    ELSE IF keepTheBytes THEN Relocated(d, g, "cache")
    ELSE Without(d, g, {Find(d, g)})

\* unkeepForEveryone: and a game in roms that nobody kept goes too.
ReleasedByAll(d, g, keepTheBytes) ==
    IF Keepers(kept, g) # {} THEN Released(d, {}, g, keepTheBytes)
    ELSE IF Copies(d, g) # {} /\ Find(d, g)[2] = "roms" THEN Without(d, g, {Find(d, g)})
    ELSE d

Event == events < MaxEvents /\ events' = events + 1

KeptByNobody(g) == {k \in kept : k[2] # g}

\* What eviction may take on a drive: what is in the cache half.
Candidates(drive) == {<<drive, "cache">>}

-----------------------------------------------------------------------------
(* The frame thread. *)

\* beginLaunch: the keep, the copy that stays, and where the worker writes.
Begin(g, play, keep) ==
    LET k == IF keep THEN kept \cup {<<user, g>>} ELSE kept
    IN  /\ jobs < MaxJobs
        /\ jobs' = jobs + 1
        /\ kept' = k
        /\ \E d \in IF keep THEN MayMove(disk, g, "roms") ELSE {disk} :
               disk' = Deduped(d, k, g)
        /\ \E s \in IF Copies(disk', g) # {}
                    THEN IF Whole(disk', g) THEN {Winner(disk', k, g)} ELSE {Find(disk', g)}
                    ELSE IF keep THEN {t \in Here : t[2] = "roms"}
                    ELSE {<<"main", "cache">>} :
               job' = [stage |-> "asking", game |-> g, keep |-> keep, play |-> play,
                       at |-> s, who |-> user, cancel |-> FALSE]
        /\ undelivered' = IF keep THEN undelivered \ {<<user, g>>} ELSE undelivered
        /\ crossed' = IF keep THEN crossed \ {<<user, g>>} ELSE crossed
        /\ UNCHANGED <<user, away, playing, gone, sweep, events>>

Play(g) ==
    /\ playing = None
    /\ job.stage = "idle"
    /\ Begin(g, TRUE, FALSE)

\* Play on the game that is already coming joins its download.
Join ==
    /\ playing = None
    /\ Busy /\ ~job.play
    /\ job' = [job EXCEPT !.play = TRUE]
    /\ UNCHANGED <<user, kept, drives, playing, gone, sweep, bounds, history>>

\* The page has Download for a game its person does not keep.
Download(g) ==
    /\ playing = None
    /\ job.stage = "idle"
    /\ <<user, g>> \notin kept
    /\ Begin(g, FALSE, TRUE)

\* Stop on the filling row, Escape, or Eject of the drive it is going to.
Stop ==
    /\ Busy /\ ~job.cancel
    /\ job' = [job EXCEPT !.cancel = TRUE]
    /\ UNCHANGED <<user, kept, drives, playing, gone, sweep, bounds, history>>

\* A failed download that leaves the promise it could not deliver.
Undone_Kept == /\ kept' = kept
               /\ disk' = disk

\* A failed download's promise comes out; the bytes stay, evictable if they move.
Undone == /\ kept' = kept \ {<<user, job.game>>}
          /\ disk' \in {disk, Released(disk, kept', job.game, TRUE)}

\* takeFinishedJob, Failed.
TakeFailed ==
    /\ job.stage = "failed"
    /\ job' = NoJob
    /\ IF job.keep
       THEN /\ Undone
            /\ undelivered' = undelivered \cup {<<job.who, job.game>>}
            /\ crossed' = IF user # job.who THEN crossed \cup {<<job.who, job.game>>}
                                            ELSE crossed
       ELSE UNCHANGED <<kept, disk, history>>
    /\ UNCHANGED <<user, away, playing, gone, sweep, bounds>>

\* takeFinishedJob, Ready: a Play starts if its file is there and its person
\* has not moved on; a Download has landed.
TakeReady ==
    /\ job.stage = "ready"
    /\ job' = NoJob
    /\ playing' \in {None} \cup
           IF job.play /\ job.at \in Here /\ disk[job.game][job.at] = "whole"
           THEN {job.game} ELSE {}
    /\ UNCHANGED <<user, kept, drives, gone, sweep, bounds, history>>

Exit ==
    /\ playing # None
    /\ playing' = None
    /\ UNCHANGED <<user, kept, drives, job, gone, sweep, bounds, history>>

\* Remove download on the game's page, whose row is Stop while a Download fills
\* it. No screen opens over a game, so none is being played (nowPlaying).
RemoveDownload(g) ==
    /\ playing = None
    /\ Event
    /\ <<user, g>> \in kept
    /\ ~(Busy /\ job.keep /\ job.game = g)
    /\ kept' = kept \ {<<user, g>>}
    /\ disk' = Released(disk, kept', g, FALSE)
    /\ UNCHANGED <<user, away, job, playing, gone, sweep, jobs, history>>

\* Settings' Downloads lists what is in roms, but for a Download in flight.
RemoveDownloads(g) ==
    /\ playing = None
    /\ Event
    /\ \E s \in Copies(disk, g) : s[2] = "roms"
    /\ ~(Busy /\ job.keep /\ job.game = g)
    /\ kept' = KeptByNobody(g)
    /\ disk' = ReleasedByAll(disk, g, FALSE)
    /\ UNCHANGED <<user, away, job, playing, gone, sweep, jobs, history>>

\* switchAccount: a job in flight is not asked about.
Switch(p) ==
    /\ Event
    /\ playing = None
    /\ p # user
    /\ user' = p
    /\ UNCHANGED <<kept, drives, job, playing, gone, sweep, jobs, history>>

-----------------------------------------------------------------------------
(* The job's worker, launchWorker. *)

\* A cancelled job that ends in a stage of its own.
Become_Stopped(stage) ==
    job' = [job EXCEPT !.stage = IF stage = "failed" /\ job.cancel THEN "stopped" ELSE stage]

Become(stage) == job' = [job EXCEPT !.stage = stage]

\* A copy that is whole is not fetched; a bad or missing one is.
Look ==
    /\ job.stage = "asking" /\ ~job.cancel
    /\ Become(IF job.at \in Here /\ disk[job.game][job.at] = "whole" THEN "saves"
                                                                     ELSE "fetching")
    /\ UNCHANGED <<user, kept, drives, playing, gone, sweep, bounds, history>>

\* The game being fetched is protected.
Evictable(g) == g # job.game

\* evictUntilFree, on the drive the job writes to.
MakeRoom ==
    /\ job.stage = "fetching" /\ ~job.cancel
    /\ \E g \in Games : \E s \in Candidates(job.at[1]) :
           /\ Evictable(g)
           /\ s \in Copies(disk, g)
           /\ disk' = Without(disk, g, {s})
    /\ UNCHANGED <<user, kept, away, job, playing, gone, sweep, bounds, history>>

Fetched ==
    /\ job.stage = "fetching" /\ ~job.cancel
    /\ job.at \in Here /\ job.game \notin gone
    /\ disk' = [disk EXCEPT ![job.game][job.at] = "whole"]
    /\ Become("saves")
    /\ UNCHANGED <<user, kept, away, playing, gone, sweep, bounds, history>>

\* finish: the saves are fetched, and a cancel is asked about a last time.
Finish ==
    /\ job.stage = "saves" /\ ~job.cancel
    /\ Become("ready")
    /\ UNCHANGED <<user, kept, drives, playing, gone, sweep, bounds, history>>

\* Any step fails, or finds the cancel; a folder game leaves what it had.
Fail ==
    /\ Busy
    /\ Become("failed")
    /\ disk' \in {disk} \cup
           IF job.stage = "fetching" /\ job.at \in Here /\ disk[job.game][job.at] = "none"
           THEN {[disk EXCEPT ![job.game][job.at] = "bad"]} ELSE {}
    /\ UNCHANGED <<user, kept, away, playing, gone, sweep, bounds, history>>

-----------------------------------------------------------------------------
(* The sweep of the games RomM no longer has, on the backfill's worker. *)

\* removeCopy asks once whether the game is in use ...
SweepAsks(g) ==
    /\ sweep = None
    /\ g \in gone
    /\ playing # g /\ ~(job.game = g /\ (Busy \/ Waiting))
    /\ sweep' = g
    /\ UNCHANGED <<user, kept, drives, job, playing, gone, bounds, history>>

\* The kept copies its rounds come to: a cached one found first ends them.
Swept(g) ==
    {s \in Copies(disk, g) : \A n, m \in 1 .. Len(Slots) :
        Slots[n] = s /\ m <= n /\ Slots[m] \in Copies(disk, g) => Slots[m][2] = "roms"}

\* ... and then releases everyone's keep, and empties the caches.
SweepRemoves ==
    /\ sweep # None
    /\ kept' = IF Swept(sweep) # {} THEN KeptByNobody(sweep) ELSE kept
    /\ disk' = Without(disk, sweep, Swept(sweep) \cup {s \in Here : s[2] = "cache"})
    /\ sweep' = None
    /\ UNCHANGED <<user, away, job, playing, gone, bounds, history>>

-----------------------------------------------------------------------------
(* The world outside. *)

\* RomM's file of the game is another one now: no copy here is its size.
GameChanges(g) ==
    /\ Event
    /\ job.game # g /\ playing # g
    /\ disk' = [disk EXCEPT ![g] =
                   [s \in SlotSet |-> IF disk[g][s] = "none" THEN "none" ELSE "bad"]]
    /\ UNCHANGED <<user, kept, away, job, playing, gone, sweep, jobs, history>>

GameGoes(g) ==
    /\ Event
    /\ gone' = gone \cup {g}
    /\ UNCHANGED <<user, kept, drives, job, playing, sweep, jobs, history>>

Unplug ==
    /\ ~away
    /\ Event
    /\ away' = TRUE
    /\ UNCHANGED <<user, kept, disk, job, playing, gone, sweep, jobs, history>>

Replug ==
    /\ away
    /\ away' = FALSE
    /\ UNCHANGED <<user, kept, disk, job, playing, gone, sweep, bounds, history>>

\* The power goes: the records and the copies stay as they are.
Crash ==
    /\ Event
    /\ job' = NoJob /\ playing' = None /\ sweep' = None
    /\ UNCHANGED <<user, kept, drives, gone, jobs, history>>

-----------------------------------------------------------------------------

\* A game somebody keeps starts in roms; one nobody keeps is in the cache, or not here.
Start ==
    /\ kept \in SUBSET (People \X Games)
    /\ \E at \in [Games -> {{}} \cup {{t} : t \in SlotSet \ {<<"usb", "cache">>}}] :
           disk = [g \in Games |-> [s \in SlotSet |-> IF s \in at[g] THEN "whole" ELSE "none"]]
    /\ \A g \in Games : Keepers(kept, g) # {} <=>
                            \E s \in SlotSet : s[2] = "roms" /\ disk[g][s] = "whole"
    /\ away = FALSE
    /\ job = NoJob /\ playing = None /\ gone = {} /\ sweep = None
    /\ jobs = 0 /\ events = 0
    /\ undelivered = {} /\ crossed = {}

Init == user \in People /\ Start

Frame ==
    \/ \E g \in Games : Play(g) \/ Download(g) \/ RemoveDownload(g) \/ RemoveDownloads(g)
    \/ \E p \in People : Switch(p)
    \/ Join \/ Stop \/ TakeFailed \/ TakeReady \/ Exit

Worker == Look \/ MakeRoom \/ Fetched \/ Finish \/ Fail

Outside ==
    \/ \E g \in Games : GameChanges(g) \/ GameGoes(g)
    \/ Unplug \/ Replug \/ Crash

Next ==
    \/ Frame \/ Worker \/ Outside
    \/ \E g \in Games : SweepAsks(g)
    \/ SweepRemoves

Spec == Init /\ [][Next]_vars

-----------------------------------------------------------------------------
(* Properties. *)

\* Every variable holds what its declaration says; a job at work has a game.
TypeOK ==
    /\ user \in People /\ kept \subseteq People \X Games
    /\ disk \in [Games -> [SlotSet -> {"none", "bad", "whole"}]]
    /\ away \in BOOLEAN
    /\ job \in [stage : Stages, game : Games \cup {None}, keep : BOOLEAN, play : BOOLEAN,
                at : SlotSet, who : People \cup {None}, cancel : BOOLEAN]
    /\ job.stage # "idle" => job.game \in Games
    /\ playing \in Games \cup {None} /\ sweep \in Games \cup {None}
    /\ gone \subseteq Games
    /\ jobs \in Nat /\ events \in Nat
    /\ undelivered \subseteq People \X Games /\ crossed \subseteq undelivered

\* A whole kept copy of a game somebody still keeps never goes but for another
\* whole kept one: not by another person's release, not by a download's failure,
\* not by eviction, and not by dedupe's choice of one copy (cache.cpp).
KeptCopyStays ==
    [][\A g \in Games \ gone : \A s \in SlotSet :
          s[2] = "roms" /\ disk[g][s] = "whole" /\ disk'[g][s] = "none"
                        /\ Keepers(kept', g) # {}
              => \E t \in SlotSet : t[2] = "roms" /\ disk'[g][t] = "whole"]_<<kept, disk>>

\* One game, one copy: a launch or a download that finds a whole copy leaves no
\* other on the drives that are here, and that one is whole (dedupe).
OneCopy ==
    [][job.stage = "idle" /\ job'.stage = "asking" /\ Whole(disk, job'.game)
          => /\ Cardinality(Copies(disk', job'.game)) = 1
             /\ disk'[job'.game][job'.at] = "whole"]_<<job, disk, away>>

\* A promise the console could not deliver is not a promise: the download that
\* failed leaves no keep, if its person is still signed in (takeFinishedJob).
FailedIsNoPromise == (undelivered \ crossed) \cap kept = {}
=============================================================================
