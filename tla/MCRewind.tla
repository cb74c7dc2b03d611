------------------------------ MODULE MCRewind ------------------------------
(***************************************************************************)
(* Rewind for TLC, with what the pause menu's page says of a state.        *)
(***************************************************************************)
EXTENDS Rewind

\* docs/wiki/pause-menu.md, Load latest state: it "goes back to your newest save
\* state for this game" (pumpStateLoad): what a game is in was played in that game.
StateOfThisGame == \A m \in past : m[1] = game
=============================================================================
