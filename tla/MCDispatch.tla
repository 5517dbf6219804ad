------------------------------ MODULE MCDispatch ------------------------------
(* Two tasks that do not depend on each other, under a few coordinators. *)
EXTENDS Dispatch

CONSTANTS t1, t2
=============================================================================
