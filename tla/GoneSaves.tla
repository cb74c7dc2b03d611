------------------------------ MODULE GoneSaves ------------------------------
(***************************************************************************)
(* A game RomM no longer has: who is asked whether it is gone (decide and  *)
(* thisStart, gonegames.cpp), its copy removed and, once the upload queue  *)
(* has tried what is owed, everyone's saves of it (removeCopy, removeSaves *)
(* and backfillDrive, offline_sync.cpp), beside the frame thread, where it *)
(* may be played, and the uploader.                                        *)
(*                                                                         *)
(* One game, and of each person's files one save. Keeps has the copies and *)
(* who keeps them, DriveSaves the notes, UploadQueue the queue.            *)
(***************************************************************************)
EXTENDS FiniteSets, Naturals

CONSTANTS
    People,
    Nobody,
    MaxChanges,   \* bound: who RomM shows the game to, and who is paired here
    MaxSaves,     \* bound: saves made
    MaxFills,     \* bound: backfills
    MaxRestarts   \* bound: power cuts

GoneAssumption ==
    /\ Nobody \notin People
    /\ MaxChanges \in Nat /\ MaxSaves \in Nat /\ MaxFills \in Nat /\ MaxRestarts \in Nat

VARIABLES
    people, me,    \* who is on this console, and signed in
    sees,          \* whom RomM gives the game to
    copy, playing, \* it is on a drive; it is in use (gPlaying, gLaunching)
    save, owed,    \* each person's save of it, and its marker
    noted,         \* whose folder holds an emulator's note
    jobs, refused, \* the uploader's: whose save it has to send, and RomM refused
    asked, gone,   \* gAsked, gGone: this start's answer
    fill,          \* the backfill: where it is, and as whom
    left,          \* whom it has still to ask, or to remove the saves of
    changes, saves, fills, restarts,   \* bound the model
    \* history
    answered,      \* who was answered 404 this start
    since,         \* who was paired, or shown the game again, since
    begun          \* the game was begun since the removal asked inUse

home   == <<people, me, copy, playing, noted>>
files  == <<save, owed>>
queue  == <<jobs, refused>>
answer == <<asked, gone, answered>>
bounds == <<changes, saves, fills, restarts>>
vars   == <<home, sees, files, queue, answer, fill, left, since, begun, bounds>>

Off == [at |-> "off", who |-> Nobody, person |-> Nobody]

-----------------------------------------------------------------------------
(* The backfill's thread. *)

\* At a start, every quarter of an hour and when the server is back. Only a game
\* on a drive or owed is asked about.
Backfill ==
    /\ fill = Off
    /\ fills < MaxFills /\ fills' = fills + 1
    /\ asked \/ copy \/ \E p \in people : owed[p]
    /\ fill' = [at |-> IF asked THEN "copy" ELSE "list", who |-> me, person |-> Nobody]
    /\ left' = IF asked THEN {} ELSE people
    /\ UNCHANGED <<home, sees, files, queue, answer, since, begun, changes, saves, restarts>>

Decided(is) == /\ asked' = TRUE /\ gone' = is
               /\ fill' = [fill EXCEPT !.at = "copy", !.person = Nobody] /\ left' = {}

\* A person's list. One that does not come decides nothing this time.
AskList(p) ==
    /\ fill.at = "list" /\ p \in left
    /\ \/ fill' = Off /\ left' = {} /\ UNCHANGED <<asked, gone>>
       \/ p \in sees /\ Decided(FALSE)
       \/ /\ p \notin sees
          /\ fill' = [fill EXCEPT !.at = "entry", !.person = p]
          /\ UNCHANGED <<left, asked, gone>>
    /\ UNCHANGED <<home, sees, files, queue, answered, since, begun, bounds>>

\* Any entry that is not given is gone.
NotFound_AnyError(reply) == reply # "here"

\* Only a 404 is: with the server away, or refusing, it stays.
NotFound(reply) == reply = "404"

\* Its own entry; 404 to everybody, and it is gone.
AskEntry ==
    /\ fill.at = "entry"
    /\ \E reply \in {"other", IF fill.person \in sees THEN "here" ELSE "404"} :
          /\ answered' = answered \cup IF reply = "404" THEN {fill.person} ELSE {}
          /\ IF ~NotFound(reply) THEN Decided(FALSE)
             ELSE IF left = {fill.person} THEN Decided(TRUE)
             ELSE /\ fill' = [fill EXCEPT !.at = "list", !.person = Nobody]
                  /\ left' = left \ {fill.person}
                  /\ UNCHANGED <<asked, gone>>
    /\ UNCHANGED <<home, sees, files, queue, since, begun, bounds>>

\* removeCopy, for what this start said is gone.
RemoveCopy ==
    /\ fill.at = "copy"
    /\ copy' = (copy /\ (~gone \/ playing))
    /\ fill' = IF gone THEN [fill EXCEPT !.at = "wait"] ELSE Off
    /\ UNCHANGED <<people, me, playing, noted, sees, files, queue, answer, left, since,
                   begun, bounds>>

\* The queue is empty, and the game is not in use ...
Waited ==
    /\ fill.at = "wait" /\ jobs = {}
    /\ fill' = IF playing THEN Off ELSE [fill EXCEPT !.at = "saves"]
    /\ left' = IF playing THEN {} ELSE people
    /\ begun' = FALSE
    /\ UNCHANGED <<home, sees, files, queue, answer, since, bounds>>

\* ... or a minute has passed.
GivesUp ==
    /\ fill.at = "wait" /\ jobs # {}
    /\ fill' = Off
    /\ UNCHANGED <<home, sees, files, queue, answer, left, since, begun, bounds>>

\* A removal that does not wait for what the signed-in person owes.
NotYetTried_Never(p) == FALSE

\* removeSaves, person by person: their folders and markers are listed, and
\* what the queue sends for waits until RomM has refused it ...
NotYetTried(p) == owed[p] /\ p = fill.who /\ p \notin refused

LooksAt(p) ==
    /\ fill.at = "saves" /\ fill.person = Nobody /\ p \in left
    /\ IF NotYetTried(p) \/ p \in noted
       THEN UNCHANGED fill
       ELSE fill' = [fill EXCEPT !.person = p]
    /\ left' = left \ {p}
    /\ UNCHANGED <<home, sees, files, queue, answer, since, begun, bounds>>

\* ... and then deleted.
Deletes ==
    /\ fill.at = "saves" /\ fill.person # Nobody
    /\ save' = [save EXCEPT ![fill.person] = FALSE]
    /\ owed' = [owed EXCEPT ![fill.person] = FALSE]
    /\ fill' = [fill EXCEPT !.person = Nobody]
    /\ UNCHANGED <<home, sees, queue, answer, left, since, begun, bounds>>

FillEnds ==
    /\ fill.at = "saves" /\ fill.person = Nobody /\ left = {}
    /\ fill' = Off
    /\ UNCHANGED <<home, sees, files, queue, answer, left, since, begun, bounds>>

-----------------------------------------------------------------------------
(* The uploader (uploader.cpp): the signed-in person's owed save. *)

Resend ==
    /\ owed[me] /\ me \notin refused \cup jobs
    /\ jobs' = jobs \cup {me}
    /\ UNCHANGED <<home, sees, files, refused, answer, fill, left, since, begun, bounds>>

\* Sent; refused for good, a 4xx; or RomM is away. A file that has gone is not sent.
Send(p) ==
    /\ p \in jobs
    /\ jobs' = jobs \ {p}
    /\ \/ p \in sees /\ owed' = [owed EXCEPT ![p] = FALSE] /\ UNCHANGED refused
       \/ save[p] /\ refused' = refused \cup {p} /\ UNCHANGED owed
       \/ UNCHANGED <<owed, refused>>
    /\ UNCHANGED <<home, sees, save, answer, fill, left, since, begun, bounds>>

-----------------------------------------------------------------------------
(* The frame thread. *)

\* A copy on a drive plays, with or without RomM.
Play ==
    /\ copy /\ ~playing
    /\ playing' = TRUE
    /\ noted' \in {noted, noted \cup {me}}
    /\ begun' = TRUE
    /\ UNCHANGED <<people, me, copy, sees, files, queue, answer, fill, left, since, bounds>>

\* A new save of a file RomM refused is asked about once more.  Its marker may
\* fail to be written, which is only logged (markPending); with the power gone
\* next, it is as if it went between the two.
SaveInGame ==
    /\ playing /\ saves < MaxSaves /\ saves' = saves + 1
    /\ save' = [save EXCEPT ![me] = TRUE]
    /\ owed' \in {[owed EXCEPT ![me] = TRUE], owed}
    /\ jobs' = jobs \cup {me} /\ refused' = refused \ {me}
    /\ UNCHANGED <<home, sees, answer, fill, left, since, begun, changes, fills, restarts>>

Exit ==
    /\ playing
    /\ playing' = FALSE /\ noted' = noted \ {me}
    /\ UNCHANGED <<people, me, copy, sees, files, queue, answer, fill, left, since, begun,
                   bounds>>

\* A switch leaves nothing queued behind it.
Switch(p) ==
    /\ ~playing /\ p \in people \ {me} /\ jobs = {}
    /\ me' = p
    /\ UNCHANGED <<people, copy, playing, noted, sees, files, queue, answer, fill, left,
                   since, begun, bounds>>

Change == changes < MaxChanges /\ changes' = changes + 1

Pair(p) ==
    /\ Change
    /\ p \notin people
    /\ people' = people \cup {p} /\ since' = since \cup {p}
    /\ UNCHANGED <<me, copy, playing, noted, sees, files, queue, answer, fill, left, begun,
                   saves, fills, restarts>>

\* RomM hides the game from some, shows it to others, or has deleted it.
RommChanges ==
    /\ Change
    /\ sees' \in SUBSET People
    /\ since' = since \cup sees'
    /\ UNCHANGED <<home, files, queue, answer, fill, left, begun, saves, fills, restarts>>

\* A power cut: the next start asks again, and has refused nothing.
Restart ==
    /\ restarts < MaxRestarts /\ restarts' = restarts + 1
    /\ playing' = FALSE /\ jobs' = {} /\ refused' = {} /\ fill' = Off /\ left' = {}
    /\ asked' = FALSE /\ gone' = FALSE /\ answered' = {} /\ since' = {} /\ begun' = FALSE
    /\ UNCHANGED <<people, me, copy, noted, sees, files, changes, saves, fills>>

Start ==
    /\ people \in SUBSET People \ {{}}
    /\ sees \in SUBSET People
    /\ copy = TRUE /\ playing = FALSE
    /\ \E had \in SUBSET people : \E owe \in SUBSET had :
          /\ save = [p \in People |-> p \in had] /\ owed = [p \in People |-> p \in owe]
    /\ noted = {} /\ jobs = {} /\ refused = {}
    /\ asked = FALSE /\ gone = FALSE /\ fill = Off /\ left = {}
    /\ changes = 0 /\ saves = 0 /\ fills = 0 /\ restarts = 0
    /\ answered = {} /\ since = {} /\ begun = FALSE

Init == Start /\ me \in people

Fill ==
    \/ Backfill \/ AskEntry \/ RemoveCopy \/ Waited \/ GivesUp \/ Deletes \/ FillEnds
    \/ \E p \in People : AskList(p) \/ LooksAt(p)

Next ==
    \/ Fill \/ Resend \/ Play \/ SaveInGame \/ Exit \/ RommChanges \/ Restart
    \/ \E p \in People : Send(p) \/ Switch(p) \/ Pair(p)

Spec == Init /\ [][Next]_vars

-----------------------------------------------------------------------------
(* Properties. *)

\* Every variable holds what its declaration says.
TypeOK ==
    /\ me \in people /\ people \cup sees \cup noted \cup jobs \cup refused \subseteq People
    /\ {copy, playing, asked, gone} \subseteq BOOLEAN
    /\ save \in [People -> BOOLEAN] /\ owed \in [People -> BOOLEAN]
    /\ fill.at \in {"off", "list", "entry", "copy", "wait", "saves"}
    /\ {fill.who, fill.person} \subseteq People \cup {Nobody}
    /\ left \cup answered \cup since \subseteq People

\* A copy and the saves go only when RomM answered 404 to everyone here, each
\* asked as themself: one person it is hidden from does not lose it for another,
\* nor does a server that is away (gonegames.h, when a game is gone). Who is
\* paired, or is shown it again, after the answer is not asked again that start.
GoneToEveryone ==
    [][(copy /\ ~copy') \/ (\E p \in People : save[p] /\ ~save'[p])
          => people \subseteq answered \cup since]_vars

\* A save marked as owed is not deleted untried: it goes once RomM has refused it
\* this run, or, another's than the queue sends for, once RomM has answered that
\* person 404; unless the game is begun while the removal is at it. (A save with
\* no marker goes unasked: removeSaves waits for markers and notes alone.)
TriedFirst ==
    [][\A p \in People \ since :
          owed[p] /\ save[p] /\ ~save'[p] /\ ~begun
              => p \in refused \/ (p # fill.who /\ p \in answered)]_vars
=============================================================================
