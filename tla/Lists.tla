------------------------------- MODULE Lists -------------------------------
(***************************************************************************)
(* What of a vector is left when some of it is erased (std::remove_if, or  *)
(* a loop that copies what it wants), in favorites.cpp and players.cpp.    *)
(* It is SelectSeq, by a definition that the provers can open.             *)
(***************************************************************************)
EXTENDS Naturals, Sequences

\* The elements of s that are in S, in their order.
Chosen(s, S) ==
    LET upTo[n \in 0 .. Len(s)] ==
            IF n = 0 THEN <<>>
            ELSE IF s[n] \in S THEN Append(upTo[n - 1], s[n]) ELSE upTo[n - 1]
    IN  upTo[Len(s)]
=============================================================================
