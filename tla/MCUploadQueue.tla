--------------------------- MODULE MCUploadQueue ---------------------------
(***************************************************************************)
(* UploadQueue for TLC, with the statements of the repository's comments   *)
(* and documents that the runs named in README.md hold against the code.   *)
(***************************************************************************)
EXTENDS UploadQueue

\* The bound of the run under fairness: a save file and a list with an outage
\* and a restart, or states and their rotation in a single run, with RomM up or
\* away from the start.  Fairness asks for no step that makes a save, ends a run
\* or tells it to end, so for none that the bound forbids.
SaveAndList == \A p \in People, s \in States : made'[p][s] = 0
StatesAlone ==
    /\ ~stopping' /\ runs' = 1 /\ outages' = 0
    /\ \A p \in People, i \in Saves \cup Lists : made'[p][i] = 0

\* Nobody presses a heart for ever: MaxVer bounds the presses, once each is one
\* that the disk has.
PressIsWritten == fpc = "idle" /\ fpc' = "enqueue" => made' # made

SentNext == Next /\ (SaveAndList \/ StatesAlone) /\ PressIsWritten

SentSpec == Init /\ [][SentNext]_vars /\ LocalFairness

\* docs/ARCHITECTURE.md, uploader.cpp push: a save owed to RomM is a marker on
\* the disk before its upload is tried, "so the window in which the console
\* owes the server something and does not know it is zero".
NothingForgotten ==
    \A p \in People, i \in Item :
        Newer(p, i) => <<p, i>> \in owed \/ BeingPushed(p, i)
=============================================================================
