------------------------------ MODULE MCJournal ------------------------------
(* One or two processes with two or three events to append. *)
EXTENDS Journal, TLC

CONSTANTS p1, p2, d1, d2, d3

Perms == Permutations({p1, p2}) \cup Permutations({d1, d2, d3})
=============================================================================
