----------------------------- MODULE MCFileWrite -----------------------------
(***************************************************************************)
(* FileWrite for TLC, with two threads in writeBytes for one file, as the  *)
(* pairing's and the frame's are for accounts.json (README.md, Runs).      *)
(***************************************************************************)
EXTENDS FileWrite
=============================================================================
