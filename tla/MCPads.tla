------------------------------- MODULE MCPads -------------------------------
(***************************************************************************)
(* Pads for TLC, with what players.h says of the numbers in Settings.      *)
(***************************************************************************)
EXTENDS Pads

\* players.h: a person can give a pad a number in Settings, "the two pads swap"
\* (openPadsPanelAt): the pad the question is about gets the number picked.
MakesThatPlayer ==
    [][\A n \in 1 .. Seats, p \in Pads :
          MakePlayer(n) /\ seats' # seats /\ ask.pad = p => Number(p)' = n]_vars
=============================================================================
