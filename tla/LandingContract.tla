--------------------------- MODULE LandingContract ---------------------------
(***************************************************************************)
(* What the run promises about the target branch: it advances by one       *)
(* accepted result at a time, each result at most once, after the results  *)
(* of the tasks it depends on, and what lands is what was accepted: the    *)
(* acceptance commands ran on a candidate whose parent is the commit the   *)
(* result lands on.  The branch belongs to the user, who may commit to it. *)
(* (PromotionRepositoryPort and AcceptancePort, as                         *)
(* processes/workflow.py uses them.)                                       *)
(***************************************************************************)
EXTENDS Naturals, Sequences

CONSTANTS
  Task,   \* the tasks of the frozen graph
  After,  \* After[t]: the tasks t depends on
  User    \* whoever else commits to the target branch

VARIABLES
  target,   \* who made each commit of the target branch since the run began
  accepted  \* <<t, n>>: the candidate of t on the n-th commit was accepted

Landed == {target[i] : i \in DOMAIN target} \cap Task

Init == target = <<>> /\ accepted = {}

\* AcceptancePort.verify: the candidate is built on a commit of the branch.
Accept(t) ==
  /\ \E n \in 0..Len(target) : accepted' = accepted \cup {<<t, n>>}
  /\ UNCHANGED target

\* PromotionRepositoryPort.apply_promotion.
Land(t) ==
  /\ t \notin Landed
  /\ After[t] \subseteq Landed
  /\ <<t, Len(target)>> \in accepted
  /\ target' = Append(target, t)
  /\ UNCHANGED accepted

Commit ==
  /\ target' = Append(target, User)
  /\ UNCHANGED accepted

Next == Commit \/ \E t \in Task : Accept(t) \/ Land(t)

Spec == Init /\ [][Next]_<<target, accepted>>
=============================================================================
