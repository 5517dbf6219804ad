------------------------------- MODULE MCLease -------------------------------
(* Two coordinators that compete for the lease, die and are superseded. *)
EXTENDS CoordinatorLease, TLC

CONSTANTS c1, c2

Perms == Permutations(Coord)
=============================================================================
