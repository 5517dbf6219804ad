----------------------------- MODULE StateKernel -----------------------------
(***************************************************************************)
(* The state kernel (kernel/state.py): the run, task and attempt state     *)
(* machines that every journal event is folded through.  Replay folds the  *)
(* journal from its first event, and a coordinator folds each event it has *)
(* just appended; an event the kernel rejects makes the journal unreadable.*)
(*                                                                         *)
(* Abstractions.  Sequence numbers, hashes and the run id are the          *)
(* journal's (module Journal): an event here extends the head.  The        *)
(* correlation id of an attempt is a function of the task, the attempt and *)
(* the epoch that reserved it (production correlation_id_factory), so the  *)
(* attempt's coordinator_epoch stands for both.  The attempts of a task    *)
(* are numbered as their reservations number them (_next_attempt): their   *)
(* sequence in the snapshot.                                               *)
(***************************************************************************)
EXTENDS Naturals, Sequences

CONSTANT Task

RunPhase ==
  {"NONE", "PREFLIGHT", "DISCOVERY", "GATE_A_PENDING", "TRELLIS_PREPARATION",
   "DECOMPOSITION", "GATE_B_PENDING", "EXECUTING", "INTEGRATION", "QUALITY_DOCS",
   "COMPLETE"}

RunStatus ==
  {"RUNNING", "PAUSING", "PAUSED", "BLOCKED", "ESCALATED", "CANCELLING",
   "CANCELLED", "FAILED", "ARCHIVED"}

TaskState ==
  {"PROPOSED", "APPROVED", "READY", "LEASED", "DISPATCHED", "PR_OPEN", "MERGED",
   "STAGED", "PROMOTED", "VERIFIED", "ARCHIVED", "BLOCKED", "REVERTED",
   "INVALIDATED"}

AttemptState ==
  {"RESERVED", "DISPATCH_REQUESTED", "RUNNING", "CANCEL_REQUESTED", "SUCCEEDED",
   "FAILED", "TERMINATED", "OUTCOME_UNKNOWN"}

Terminal == {"SUCCEEDED", "FAILED", "TERMINATED", "OUTCOME_UNKNOWN"}

NonTerminalStatus ==
  {"RUNNING", "PAUSING", "PAUSED", "BLOCKED", "ESCALATED", "CANCELLING"}

------------------------------------------------------------------------------
(* The transition tables: event type, state before, state after.            *)

PhaseMoves ==
  {<<"RUN_INITIALIZED", "NONE", "PREFLIGHT">>,
   <<"PREFLIGHT_COMPLETED", "PREFLIGHT", "DISCOVERY">>,
   <<"DISCOVERY_COMPLETED", "DISCOVERY", "GATE_A_PENDING">>,
   <<"GATE_APPROVED", "GATE_A_PENDING", "TRELLIS_PREPARATION">>,
   <<"GATE_APPROVED", "GATE_A_PENDING", "DECOMPOSITION">>,
   <<"TRELLIS_GRAPH_IMPORTED", "TRELLIS_PREPARATION", "GATE_B_PENDING">>,
   <<"DECOMPOSITION_COMPLETED", "DECOMPOSITION", "GATE_B_PENDING">>,
   <<"TASK_GRAPH_FROZEN", "GATE_B_PENDING", "EXECUTING">>,
   <<"EXECUTION_COMPLETED", "EXECUTING", "INTEGRATION">>,
   <<"INTEGRATION_VERIFIED", "INTEGRATION", "QUALITY_DOCS">>,
   <<"QUALITY_DOCS_VERIFIED", "QUALITY_DOCS", "COMPLETE">>}

Moves(type, from, to) == {<<type, s, to>> : s \in from}

StatusMoves ==
  Moves("PAUSE_REQUESTED", {"RUNNING", "BLOCKED", "ESCALATED"}, "PAUSING")
  \cup Moves("RUN_PAUSED", {"PAUSING"}, "PAUSED")
  \cup Moves("RUN_RESUMED", {"PAUSED", "BLOCKED", "ESCALATED"}, "RUNNING")
  \cup Moves("RUN_BLOCKED", {"RUNNING", "PAUSING"}, "BLOCKED")
  \cup Moves("RUN_ESCALATED", {"RUNNING", "BLOCKED"}, "ESCALATED")
  \cup Moves("CANCEL_REQUESTED", NonTerminalStatus, "CANCELLING")
  \cup Moves("RUN_CANCELLED", {"CANCELLING"}, "CANCELLED")
  \cup Moves("RUN_FAILED", NonTerminalStatus, "FAILED")
  \cup Moves("RUN_ARCHIVED", {"RUNNING", "CANCELLED", "FAILED"}, "ARCHIVED")

TaskMoves ==
  Moves("TASK_READY", {"APPROVED"}, "READY")
  \cup Moves("LEASE_ACQUIRED", {"READY"}, "LEASED")
  \cup Moves("DISPATCH_OBSERVED", {"LEASED"}, "DISPATCHED")
  \cup Moves("TASK_BLOCKED",
             {"LEASED", "DISPATCHED", "PR_OPEN", "STAGED", "PROMOTED"}, "BLOCKED")
  \cup Moves("PR_OBSERVED", {"DISPATCHED", "PROMOTED"}, "PR_OPEN")
  \cup Moves("MERGE_OBSERVED", {"PR_OPEN"}, "MERGED")
  \cup Moves("TASK_VERIFIED", {"MERGED", "PROMOTED"}, "VERIFIED")
  \cup Moves("TASK_ARCHIVED", {"VERIFIED"}, "ARCHIVED")
  \cup Moves("TASK_RETRY_SCHEDULED", {"BLOCKED"}, "READY")
  \cup Moves("REVERT_OBSERVED", {"MERGED", "VERIFIED"}, "REVERTED")
  \cup Moves("TASK_INVALIDATED",
             {"APPROVED", "READY", "LEASED", "DISPATCHED", "PR_OPEN", "MERGED",
              "VERIFIED"}, "INVALIDATED")
  \cup Moves("REPAIR_SCHEDULED", {"REVERTED"}, "READY")
  \cup Moves("REWORK_SCHEDULED", {"INVALIDATED"}, "READY")
  \cup Moves("TASK_REVERIFIED", {"INVALIDATED"}, "VERIFIED")
  \cup Moves("RESULT_STAGED", {"DISPATCHED"}, "STAGED")
  \cup Moves("PROMOTION_OBSERVED", {"STAGED"}, "PROMOTED")

AttemptMoves ==
  Moves("ATTEMPT_RESERVED", {"PLANNED", "TERMINATED"}, "RESERVED")
  \cup Moves("DISPATCH_REQUESTED", {"RESERVED"}, "DISPATCH_REQUESTED")
  \cup Moves("ATTEMPT_RELEASED", {"RESERVED"}, "TERMINATED")
  \cup Moves("DISPATCH_OBSERVED", {"DISPATCH_REQUESTED"}, "RUNNING")
  \cup Moves("ATTEMPT_SUCCEEDED", {"RUNNING"}, "SUCCEEDED")
  \cup Moves("ATTEMPT_FAILED", {"DISPATCH_REQUESTED", "RUNNING"}, "FAILED")
  \cup Moves("CANCEL_REQUESTED", {"RUNNING"}, "CANCEL_REQUESTED")
  \cup Moves("ATTEMPT_TERMINATED", {"CANCEL_REQUESTED"}, "TERMINATED")
  \cup Moves("ATTEMPT_OUTCOME_UNKNOWN", {"DISPATCH_REQUESTED", "CANCEL_REQUESTED"},
             "OUTCOME_UNKNOWN")

------------------------------------------------------------------------------
(* A snapshot k is a record [epoch, phase, status, why, task, attempt]:     *)
(* attempt[t] is the sequence of the attempts of task t.                    *)

HasActive(k, t) ==
  \E n \in DOMAIN k.attempt[t] : k.attempt[t][n].state \notin Terminal

IsPhase(e) == \E m \in PhaseMoves : m[1] = e.type

RunAccepts(k, e) ==
  /\ <<e.type, e.from, e.to>> \in (IF IsPhase(e) THEN PhaseMoves ELSE StatusMoves)
  /\ e.from = (IF IsPhase(e) THEN k.phase ELSE k.status)
  /\ e.type = "RUN_ARCHIVED" /\ e.from = "RUNNING" => k.phase = "COMPLETE"
  /\ e.type = "TASK_GRAPH_FROZEN" =>
       \A t \in Task : k.task[t].state = "PROPOSED"

RunFold(k, e) ==
  IF e.type = "TASK_GRAPH_FROZEN"
  THEN [k EXCEPT !.phase = e.to,
                 !.task = [t \in Task |-> [@[t] EXCEPT !.state = "APPROVED"]]]
  ELSE IF IsPhase(e)
  THEN [k EXCEPT !.phase = e.to]
  ELSE [k EXCEPT !.status = e.to,
                 !.why = IF e.to \in {"RUNNING", "PAUSED", "ARCHIVED"} THEN "none"
                         ELSE IF e.to = "CANCELLED" /\ e.why = "none" THEN @
                         ELSE e.why]

TaskAccepts(k, e) ==
  /\ <<e.type, e.from, e.to>> \in TaskMoves
  /\ k.task[e.task].state = e.from

TaskFold(k, e) ==
  [k EXCEPT !.task[e.task] =
     [state |-> e.to,
      why |-> IF e.to \in {"BLOCKED", "INVALIDATED", "REVERTED"} THEN e.why
              ELSE "none"]]

\* A released or cancelled attempt is reserved again, by a later epoch.
Reclaims(e) == e.type = "ATTEMPT_RESERVED" /\ e.from = "TERMINATED"

AttemptAccepts(k, e) ==
  /\ <<e.type, e.from, e.to>> \in AttemptMoves
  /\ IF e.attempt \notin DOMAIN k.attempt[e.task]
     THEN e.from = "PLANNED" /\ ~HasActive(k, e.task)
     ELSE LET a == k.attempt[e.task][e.attempt] IN
          /\ a.state = e.from
          /\ IF Reclaims(e) THEN e.epoch > a.epoch ELSE e.reserved = a.epoch

AttemptFold(k, e) ==
  IF e.attempt \notin DOMAIN k.attempt[e.task]
  THEN [k EXCEPT !.attempt[e.task] =
          Append(@, [state |-> e.to, epoch |-> e.epoch, why |-> e.why])]
  ELSE [k EXCEPT !.attempt[e.task][e.attempt] =
          [state |-> e.to, epoch |-> IF Reclaims(e) THEN e.epoch ELSE @.epoch,
           why |-> e.why]]

\* apply_transition.
Accepts(k, e) ==
  /\ e.epoch = k.epoch
  /\ CASE e.subject = "run" -> RunAccepts(k, e)
       [] e.subject = "task" -> TaskAccepts(k, e)
       [] OTHER -> AttemptAccepts(k, e)

Fold(k, e) ==
  CASE e.subject = "run" -> RunFold(k, e)
    [] e.subject = "task" -> TaskFold(k, e)
    [] OTHER -> AttemptFold(k, e)

\* apply_journal_event of the coordinator's lease: the epoch is its token.
FoldLease(k, token) == [k EXCEPT !.epoch = token]

\* apply_journal_event of DISPATCH_OBSERVED with an APPLIED receipt: the task
\* and the attempt move together.
ObservedAccepts(k, e) ==
  /\ e.epoch = k.epoch
  /\ e.attempt \in DOMAIN k.attempt[e.task]
  /\ k.attempt[e.task][e.attempt].epoch = e.reserved
  /\ k.attempt[e.task][e.attempt].state = "DISPATCH_REQUESTED"
  /\ k.task[e.task].state = "LEASED"

ObservedFoldSwapped(k, e) ==
  [k EXCEPT !.task[e.task].state = "RUNNING",
            !.attempt[e.task][e.attempt].state = "DISPATCHED"]

ObservedFold(k, e) ==
  [k EXCEPT !.task[e.task].state = "DISPATCHED",
            !.attempt[e.task][e.attempt].state = "RUNNING"]
=============================================================================
