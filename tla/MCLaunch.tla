------------------------------- MODULE MCLaunch -------------------------------
(***************************************************************************)
(* Small instances of Launch: one game of a core, one of an emulator of    *)
(* its own.                                                                *)
(***************************************************************************)
EXTENDS Launch

CONSTANTS ann, bob, tetris, zelda
=============================================================================
