---------------------------- MODULE MCCheckpoints ----------------------------
(* Two starts, three events, the third of which begins a new epoch. *)
EXTENDS Checkpoints, TLC

Symmetry == Permutations(Proc)
=============================================================================
