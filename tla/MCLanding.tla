------------------------------ MODULE MCLanding ------------------------------
(* Two tasks that may run side by side and one that waits for the first. *)
EXTENDS Landing

CONSTANTS t1, t2, t3

MCAfter == [t \in Task |-> IF t = t3 THEN {t1} ELSE {}]
MCPosition == [t \in Task |-> IF t = t1 THEN 1 ELSE IF t = t2 THEN 2 ELSE 3]
=============================================================================
