------------------------------ MODULE OneWrite ------------------------------
(***************************************************************************)
(* What a file written by cab::writeBytes promises (fileio.h): a read      *)
(* gives the old bytes or the new ones, whole, and a power cut leaves one  *)
(* of them. The other modules write their files like this.                 *)
(***************************************************************************)
CONSTANT Values

VARIABLES
    value,   \* what a read gives
    past     \* what the disk has, and a power cut may bring back

vars == <<value, past>>

Init == value \in Values /\ past = value

Put(v) == value' = v /\ UNCHANGED past

\* The file system writes its own records, every thirty seconds.
Commit == past' = value /\ UNCHANGED value

Cut == value' \in {value, past} /\ past' = value'

Next == (\E v \in Values : Put(v)) \/ Commit \/ Cut

Spec == Init /\ [][Next]_vars
=============================================================================
