---------------------------- MODULE MCTurnChannel ----------------------------
(* Two sends and two cancellations of one attempt.                          *)
EXTENDS TurnChannel

CONSTANTS s1, s2, c1, c2

==============================================================================
