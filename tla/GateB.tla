-------------------------------- MODULE GateB --------------------------------
(***************************************************************************)
(* Gate B: the first eight events of a run                                 *)
(* (services/gate_b_bootstrap.py), the commands that write them (wishctl   *)
(* admit-gate-b and decide, services/decisions.py), and the admission of   *)
(* the journal that every start of a coordinator asks for                  *)
(* (services/execution_admission.py).  A command that stops leaves a       *)
(* prefix, and any command may go on with it.                              *)
(*                                                                         *)
(* Abstractions.  The journal is Journal's: an append takes effect only at *)
(* the head its writer knows, or is found to be there.  The material of a  *)
(* command is what its caller approved; of what else it writes (times, the *)
(* process, the Trellis snapshot) only matters that no two commands write  *)
(* the same.  Everything the coordinator appends later is one kind of      *)
(* event.                                                                  *)
(***************************************************************************)
EXTENDS Naturals, Sequences

CONSTANTS
  Command,    \* processes that run admit-gate-b
  Material,   \* what a caller may approve
  Manifest(_), Workspace(_), Artifact(_), Approver(_),  \* its parts
  Graph(_),   \* trellis_graph_digest of its manifest
  None,       \* no material
  MaxFaults,  \* bound: commands that fail or die
  MaxLater    \* bound: events after the admission

ASSUME GateBAssumption ==
  /\ None \notin Material
  /\ \A m, n \in Material : Manifest(m) = Manifest(n) => Graph(m) = Graph(n)
  /\ MaxFaults \in Nat /\ MaxLater \in Nat

VARIABLES
  log,       \* the journal
  pc,        \* where each command is
  mat,       \* its material
  view,      \* the events it knows
  approved,  \* history: what a human approved
  faults

process == <<pc, mat, view>>
vars == <<log, process, approved, faults>>

Lifecycle ==
  <<"RUN_INITIALIZED", "PREFLIGHT_COMPLETED", "DISCOVERY_COMPLETED", "GATE_APPROVED",
    "TRELLIS_GRAPH_IMPORTED", "DECISION_REQUESTED", "DECISION_OBSERVED",
    "TASK_GRAPH_FROZEN">>

Imported == 5
Requested == 6
Decided == 7

\* id: which of the eight events of the bootstrap it is, 0 if none; of: the
\* material it binds.
Event == [id : 0..8, type : {Lifecycle[i] : i \in 1..8} \cup {"LATER"},
          of : Material \cup {None}, choice : {"approve", "reject", "none"}]

------------------------------------------------------------------------------
(* admit_execution_snapshot.                                                *)

Of(l, type) == {i \in DOMAIN l : l[i].type = type}

AdmitsElsewhere(l, m) ==
  \E i \in DOMAIN l :
    /\ \A n \in 1..3 : Of(l, Lifecycle[n]) = {n}
    /\ i > 4
    /\ \A n \in 4..8 : Of(l, Lifecycle[n]) = {i + n - 5}
    /\ Graph(l[i].of) = Graph(m)
    /\ Manifest(l[i + 1].of) = Manifest(m)
    /\ l[i + 2].of = l[i + 1].of /\ l[i + 2].choice = "approve"
    /\ Artifact(l[i + 3].of) = Artifact(l[i + 1].of)
    /\ Manifest(l[i + 3].of) = Manifest(m)

\* One import of the graph of m, one request to approve m in this workspace, right
\* behind it the approval of just that request, and one freeze of what it names.
Admits(l, m) ==
  \E i \in DOMAIN l :
    /\ \A n \in 1..3 : Of(l, Lifecycle[n]) = {n}
    /\ i > 4
    /\ \A n \in 4..8 : Of(l, Lifecycle[n]) = {i + n - 5}
    /\ Graph(l[i].of) = Graph(m)
    /\ Manifest(l[i + 1].of) = Manifest(m) /\ Workspace(l[i + 1].of) = Workspace(m)
    /\ l[i + 2].of = l[i + 1].of /\ l[i + 2].choice = "approve"
    /\ Artifact(l[i + 3].of) = Artifact(l[i + 1].of)
    /\ Manifest(l[i + 3].of) = Manifest(m)

------------------------------------------------------------------------------
(* bootstrap_gate_b.                                                        *)

\* _draft_for_index: the first four are the same for every command, and the
\* decision is about the request in the journal.
Draft(m, l) ==
  LET n == Len(l) + 1 IN
  [id |-> n, type |-> Lifecycle[n],
   of |-> IF n < Imported THEN None ELSE IF n = Decided THEN l[Requested].of ELSE m,
   choice |-> IF n = Decided THEN "approve" ELSE "none"]

OtherArtifactFits(m, l, i) ==
  /\ l[i].id = i /\ l[i].type = Lifecycle[i]
  /\ i = Imported => Graph(l[i].of) = Graph(m)
  /\ i >= Requested => Manifest(l[i].of) = Manifest(m)
  /\ i = Requested => Workspace(l[i].of) = Workspace(m) /\ Approver(l[i].of) = Approver(m)
  /\ i = Decided => l[i].of = l[Requested].of /\ l[i].choice = "approve"

\* _prefix_event_matches: the event is the one this command would have written, as
\* far as what was approved goes.
Fits(m, l, i) ==
  /\ l[i].id = i /\ l[i].type = Lifecycle[i]
  /\ i = Imported => Graph(l[i].of) = Graph(m)
  /\ i >= Requested => Manifest(l[i].of) = Manifest(m) /\ Artifact(l[i].of) = Artifact(m)
  /\ i = Requested => Workspace(l[i].of) = Workspace(m) /\ Approver(l[i].of) = Approver(m)
  /\ i = Decided => l[i].of = l[Requested].of /\ l[i].choice = "approve"

PrefixFits(m, l) == \A i \in DOMAIN l : i <= 8 => Fits(m, l, i)

Goto(c, l) == pc' = [pc EXCEPT ![c] = l]

Init ==
  /\ log = <<>>
  /\ pc = [c \in Command |-> "idle"] /\ mat = [c \in Command |-> None]
  /\ view = [c \in Command |-> <<>>]
  /\ approved = {} /\ faults = 0

\* The command ends, and forgets.
End(c) ==
  /\ Goto(c, "idle")
  /\ mat' = [mat EXCEPT ![c] = None] /\ view' = [view EXCEPT ![c] = <<>>]

\* The journal is read; it is refused (JOURNAL_PREFIX_INVALID) or admits already,
\* or the command goes on behind the prefix it found.
Begin(c, m) ==
  /\ pc[c] = "idle"
  /\ PrefixFits(m, log) /\ ~Admits(log, m) /\ Len(log) <= 8
  /\ Goto(c, "append")
  /\ mat' = [mat EXCEPT ![c] = m] /\ view' = [view EXCEPT ![c] = log]
  /\ UNCHANGED <<log, approved, faults>>

\* evaluate_decision accepts: the request names this workspace and this human.
Decidable(m, l) ==
  Len(l) + 1 = Decided =>
    Workspace(l[Requested].of) = Workspace(m) /\ Approver(l[Requested].of) = Approver(m)

AnyHead(c) == TRUE

\* append_draft finds the head where the command knows it ...
AtHead(c) == log = view[c]

AppendNext(c) ==
  /\ pc[c] = "append" /\ Len(view[c]) < 8
  /\ Decidable(mat[c], view[c])
  /\ AtHead(c)
  /\ log' = Append(log, Draft(mat[c], view[c]))
  /\ view' = [view EXCEPT ![c] = Append(@, Draft(mat[c], view[c]))]
  /\ approved' = IF Len(view[c]) + 1 = Decided THEN approved \cup {mat[c]} ELSE approved
  /\ UNCHANGED <<pc, mat, faults>>

\* ... or its own draft behind it, IDEMPOTENT: only the first four can be.
Found(c) ==
  /\ pc[c] = "append" /\ Len(view[c]) < Imported - 1
  /\ log # <<>> /\ log[Len(log)] = Draft(mat[c], view[c])
  /\ view' = [view EXCEPT ![c] = Append(@, log[Len(log)])]
  /\ UNCHANGED <<log, pc, mat, approved, faults>>

\* ... or anything else: JOURNAL_CONFLICT.  A decision that is not admissible ends
\* the command as well.
Conflict(c) ==
  /\ pc[c] = "append" /\ Len(view[c]) < 8
  /\ \/ ~Decidable(mat[c], view[c])
     \/ ~AtHead(c) /\ ~(log # <<>> /\ Len(view[c]) < Imported - 1
                          /\ log[Len(log)] = Draft(mat[c], view[c]))
  /\ End(c)
  /\ UNCHANGED <<log, approved, faults>>

\* The journal is admitted, or POSTCONDITION_FAILED.
Finish(c) ==
  /\ pc[c] = "append" /\ Len(view[c]) = 8
  /\ End(c)
  /\ UNCHANGED <<log, approved, faults>>

\* The command dies, or its append fails, before or after it took effect.
Fail(c) ==
  /\ pc[c] = "append" /\ faults < MaxFaults
  /\ \/ UNCHANGED <<log, approved>>
     \/ /\ Len(view[c]) < 8 /\ Decidable(mat[c], view[c]) /\ AtHead(c)
        /\ log' = Append(log, Draft(mat[c], view[c]))
        /\ approved' =
             IF Len(view[c]) + 1 = Decided THEN approved \cup {mat[c]} ELSE approved
  /\ End(c) /\ faults' = faults + 1

------------------------------------------------------------------------------
(* Others who write to the journal.                                         *)

\* wishctl decide, of the request that an interrupted command left.
Decide ==
  /\ Len(log) = Requested
  /\ \E choice \in {"approve", "reject"} :
       /\ log' = Append(log, [id |-> 0, type |-> Lifecycle[Decided],
                              of |-> log[Requested].of, choice |-> choice])
       /\ approved' = IF choice = "approve" THEN approved \cup {log[Requested].of}
                      ELSE approved
  /\ UNCHANGED <<process, faults>>

\* A coordinator that the journal admits.
Later ==
  /\ \E m \in Material : Admits(log, m)
  /\ Len(log) < 8 + MaxLater
  /\ log' = Append(log, [id |-> 0, type |-> "LATER", of |-> None, choice |-> "none"])
  /\ UNCHANGED <<process, approved, faults>>

------------------------------------------------------------------------------
Work(c) == AppendNext(c) \/ Found(c) \/ Conflict(c) \/ Finish(c)

Next ==
  \/ \E c \in Command : (\E m \in Material : Begin(c, m)) \/ Work(c) \/ Fail(c)
  \/ Decide \/ Later

Spec == Init /\ [][Next]_vars

\* A command that runs goes on, and each of them is run again and again.
FairSpec ==
  /\ Spec
  /\ \A c \in Command :
       WF_vars(Work(c)) /\ \A m \in Material : SF_vars(Begin(c, m))

------------------------------------------------------------------------------
TypeOK ==
  /\ log \in Seq(Event)
  /\ pc \in [Command -> {"idle", "append"}]
  /\ mat \in [Command -> Material \cup {None}]
  /\ view \in [Command -> Seq(Event)]
  /\ approved \subseteq Material /\ faults \in 0..MaxFaults

\* A start is admitted only to what one human approved as a whole: that manifest,
\* in that workspace, with the artifact that the freeze names; whichever commands,
\* of whatever material, wrote the prefix between them.
AdmittedAsApproved ==
  \A m \in Material : Admits(log, m) =>
    \E a \in approved :
      /\ Manifest(a) = Manifest(m) /\ Workspace(a) = Workspace(m)
      /\ Graph(log[Imported].of) = Graph(a)
      /\ Artifact(a) = Artifact(log[8].of) /\ Approver(a) = Approver(log[Decided].of)

\* What was admitted stays admitted: no command that is run again, or that was
\* suspended in the middle, adds a second request, decision or graph
\* (README.md, "durable Gate B admission that can be rerun safely even after later
\* runtime events were written").
AdmissionStays ==
  [][\A m \in Material : Admits(log, m) => Admits(log', m)]_vars

\* Whatever prefix was left, by commands of whatever material, the command that
\* fits it completes the bootstrap when it is run again, unless somebody used
\* decide on the request in between: then no command fits the journal.
EventuallyAdmitted ==
  <>(\/ \E m \in Material : Admits(log, m)
     \/ Len(log) >= Decided /\ log[Decided].id = 0)
=============================================================================
