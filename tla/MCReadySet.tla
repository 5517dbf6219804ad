------------------------------ MODULE MCReadySet ------------------------------
(* A chain of three tasks, and one beside it that overlaps with the ends. *)
EXTENDS ReadySet

CONSTANTS t1, t2, t3, t4

MCAfter ==
  [t \in Task |-> CASE t = t2 -> {t1} [] t = t3 -> {t2} [] OTHER -> {}]
MCPosition ==
  [t \in Task |-> CASE t = t1 -> 0 [] t = t2 -> 1 [] t = t3 -> 2 [] OTHER -> 3]
Both(t, u) == {<<t, u>>, <<u, t>>}
MCOverlap == Both(t1, t3) \cup Both(t1, t4) \cup Both(t3, t4)
=============================================================================
