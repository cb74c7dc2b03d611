----------------------------- MODULE SaveLedger -----------------------------
(***************************************************************************)
(* What the console knows of what it owes RomM, without threads, queues    *)
(* and requests (docs/ARCHITECTURE.md, the saves). An entry is a person's  *)
(* save, state or list. UploadQueue implements this for all of them, and   *)
(* SaveRestore for the save of its one game: they leave out different      *)
(* parts of the program, and agree on this.                                *)
(***************************************************************************)
EXTENDS Integers

CONSTANTS
    Entries,
    Frail      \* entries whose record a power cut may empty: written unsynced

VARIABLES
    made,      \* the number of the newest save made here, 0 for none
    gone,      \* what is no longer on the console
    romm,      \* the number of the save RomM has
    writing,   \* written on the disk and not yet marked
    owed,      \* marked as owed
    lapsed     \* what may be newer here with no marker to say so

vars == <<made, gone, romm, writing, owed, lapsed>>

\* The console has a save that RomM does not.
Newer(e) == e \notin gone /\ made[e] > romm[e]

Init ==
    /\ made = [e \in Entries |-> 0] /\ romm = [e \in Entries |-> 0]
    /\ gone = {} /\ writing = {} /\ owed = {} /\ lapsed = {}

Made(e) == made'[e] > made[e] /\ made' = [made EXCEPT ![e] = made'[e]]

\* A save is written first and marked after, ...
Write(e) ==
    /\ Made(e) /\ writing' = writing \cup {e}
    /\ UNCHANGED <<gone, romm, owed, lapsed>>

Mark(e) ==
    /\ e \in writing /\ writing' = writing \ {e}
    /\ owed' = owed \cup {e} /\ lapsed' = lapsed \ {e}
    /\ UNCHANGED <<made, gone, romm>>

\* ... unless the marker cannot be written: an older one may be there, ...
Unmarked(e) ==
    /\ e \in writing /\ writing' = writing \ {e}
    /\ lapsed' = lapsed \cup ({e} \ owed)
    /\ UNCHANGED <<made, gone, romm, owed>>

\* ... or written with what is owed in one file.
Record(e) ==
    /\ Made(e)
    /\ owed' = owed \cup {e} /\ lapsed' \in {lapsed, lapsed \ {e}}
    /\ UNCHANGED <<gone, romm, writing>>

\* RomM has another save, sent from here or from elsewhere. It may be older than
\* what was there: if the console has a newer one, that is known or lapses.
Land(e) ==
    /\ romm' = [romm EXCEPT ![e] = romm'[e]]
    /\ lapsed' \in {lapsed, lapsed \cup {e}}
    /\ Newer(e)' => e \in writing \cup owed \cup lapsed'
    /\ UNCHANGED <<made, gone, writing, owed>>

\* The marker goes once RomM has the newest save, or the entry lapses.
Settle(e) ==
    /\ owed' = owed \ {e}
    /\ lapsed' \in {lapsed, lapsed \cup {e}}
    /\ Newer(e) => e \in writing \cup lapsed'
    /\ UNCHANGED <<made, gone, romm, writing>>

\* Old entries go from RomM (kStatesKept): what is still here lapses ...
Drop ==
    /\ romm' = [e \in Entries |-> IF romm'[e] = 0 THEN 0 ELSE romm[e]]
    /\ lapsed \subseteq lapsed'
    /\ \A e \in Entries : Newer(e)' => e \in writing \cup owed \cup lapsed'
    /\ UNCHANGED <<made, gone, writing, owed>>

\* ... until it goes here too, which it does only then.
Erase(e) ==
    /\ romm[e] = 0 \/ made[e] = 0
    /\ gone' = gone \cup {e}
    /\ UNCHANGED <<made, romm, writing, owed, lapsed>>

\* The power goes: what was not marked lapses, and what was marked unsynced may.
Cut ==
    /\ owed \ Frail \subseteq owed' /\ owed' \subseteq owed
    /\ lapsed' = lapsed \cup ((writing \cup owed) \ owed')
    /\ writing' = {}
    /\ UNCHANGED <<made, gone, romm>>

Next ==
    \/ \E e \in Entries :
        \/ Write(e) \/ Mark(e) \/ Unmarked(e) \/ Record(e)
        \/ Land(e) \/ Settle(e) \/ Erase(e)
    \/ Drop \/ Cut

Spec == Init /\ [][Next]_vars

-----------------------------------------------------------------------------
(* Properties. *)

\* The console knows of every save RomM does not have, but what has lapsed.
AllKnown == \A e \in Entries : Newer(e) => e \in writing \cup owed \cup lapsed
=============================================================================
