------------------------------- MODULE MCGames -------------------------------
(***************************************************************************)
(* Small instances of two parts: the games on the drives, and the saves of *)
(* a game RomM no longer has. A behaviour is of one of them, the part; the *)
(* other stands still.                                                     *)
(***************************************************************************)
EXTENDS Keeps, TLC

CONSTANTS
    ann, bob, tetris, zelda,
    Nobody, MaxChanges, MaxSaves, MaxFills, MaxRestarts   \* GoneSaves

VARIABLES
    part,
    gonePeople, goneMe, goneSees, goneCopy, gonePlaying, goneSave, goneOwed, goneNoted,
    goneJobs, goneRefused, goneAsked, goneGone, goneFill, goneLeft, goneChanges,
    goneSaves, goneFills, goneRestarts, goneAnswered, goneSince, goneBegun

goneVars == <<gonePeople, goneMe, goneSees, goneCopy, gonePlaying, goneSave, goneOwed,
              goneNoted, goneJobs, goneRefused, goneAsked, goneGone, goneFill, goneLeft,
              goneChanges, goneSaves, goneFills, goneRestarts, goneAnswered, goneSince,
              goneBegun>>

Gone == INSTANCE GoneSaves WITH
    people <- gonePeople, me <- goneMe, sees <- goneSees, copy <- goneCopy, playing <-
    gonePlaying, save <- goneSave, owed <- goneOwed, noted <- goneNoted, jobs <-
    goneJobs, refused <- goneRefused, asked <- goneAsked, gone <- goneGone, fill <-
    goneFill, left <- goneLeft, changes <- goneChanges, saves <- goneSaves, fills <-
    goneFills, restarts <- goneRestarts, answered <- goneAnswered, since <- goneSince,
    begun <- goneBegun

ASSUME GoneNumbers == Gone!GoneAssumption

Symmetry == Permutations({ann, bob}) \cup Permutations({tetris, zelda})

\* Nobody is signed in to the part that stands still, so that it is the same
\* whoever the names are exchanged with.
GamesInit ==
    /\ part \in {"keeps", "gone"}
    /\ Start
    /\ IF part = "keeps" THEN user \in People
       ELSE user = None /\ kept = {} /\ \A g \in Games : Copies(disk, g) = {}
    /\ Gone!Start
    /\ IF part = "gone" THEN goneMe \in gonePeople
       ELSE /\ goneMe = None /\ gonePeople = People /\ goneSees = {}
            /\ \A p \in People : ~goneSave[p]

GamesNext ==
    /\ UNCHANGED part
    /\ \/ part = "keeps" /\ Next /\ UNCHANGED goneVars
       \/ part = "gone" /\ Gone!Next /\ UNCHANGED vars

GamesSpec == GamesInit /\ [][GamesNext]_<<part, vars, goneVars>>

-----------------------------------------------------------------------------
(* The properties of the other module, by the names that go with Keeps'    *)
(* own; each is stated and explained there.                                *)

\* Every variable of the part at work holds what its declaration says.
Types ==
    /\ part = "keeps" => TypeOK
    /\ part = "gone" => Gone!TypeOK

\* A game goes only when it is gone for everybody here.
GoneToEveryone == Gone!GoneToEveryone

\* What nobody tried to send is not deleted.
TriedFirst == Gone!TriedFirst
=============================================================================
