--------------------------- MODULE MCSaveRestore ---------------------------
(***************************************************************************)
(* SaveRestore on small instances, and what the repository's comments say  *)
(* of it without the exceptions its own properties make.                   *)
(***************************************************************************)
EXTENDS SaveRestore

\* Bound: no backfill where a folder is saved. A folder is restored in the order of
\* a battery's save and kept as a file's is, and those two have it.
FoldersAlone == kind = "folder" => bpc' = "idle"

FreshSpec == Init /\ [][Next /\ FoldersAlone]_vars

\* ARCHITECTURE.md and saves.cpp:87-94: a save of the game landing between the
\* fetch and the restore makes the fetch stale, and the console's copy stands.
ConsoleCopyStands ==
    [][playing' /\ ~playing => start' >= own \/ oldCopy \/ forgot]_vars
=============================================================================
