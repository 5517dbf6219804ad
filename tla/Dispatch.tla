------------------------------- MODULE Dispatch -------------------------------
(***************************************************************************)
(* Dispatching the tasks of a run and recovering from a stop at any point: *)
(* the foreground coordinator (processes/coordinator.py, its subclass and  *)
(* acquire_lease in processes/production.py), the wave loop                *)
(* (processes/foreground.py), the child effects of a dispatch              *)
(* (services/backend_effects.py), their reconciliation at the next start   *)
(* (processes/production_recovery.py, services/external_recovery.py) and   *)
(* the resume command (cli/wishctl.py).                                    *)
(*                                                                         *)
(* Abstractions.  One coordinator runs at a time (EffectsExclusive and     *)
(* Fenced of CoordinatorLease); a start takes the lease over, which is a   *)
(* new epoch.  The journal is its projection: the kernel's snapshot, the   *)
(* effects and dispatches without an answer, the resume in progress.  An   *)
(* append and the fold of the event are one step, and a crash may come     *)
(* after each event.  The tasks of a wave are handled in any order where   *)
(* the code takes the graph's.  The Trellis lifecycle, renewals, the       *)
(* journal's pair of events around a worktree, and the graph's             *)
(* dependencies are left out; landing a result is its task transitions.    *)
(* Where the wave loop returns early without writing anything (a renewal   *)
(* that fails, an exception of a port), the journal is left as a crash     *)
(* leaves it there, and Crash stands for both.                             *)
(***************************************************************************)
EXTENDS StateKernel, FiniteSets, SequencesExt

CONSTANTS
  MaxConcurrency,      \* max_concurrency of the manifest
  MaxAttemptsPerTask,  \* max_attempts_per_task and max_attempts_per_run of its
  MaxAttemptsPerRun,   \* execution budget
  MaxEpoch             \* bound: how often the coordinator is started

ASSUME DispatchAssumption ==
  /\ IsFiniteSet(Task)
  /\ {MaxConcurrency, MaxAttemptsPerTask, MaxAttemptsPerRun} \subseteq Nat \ {0}
  /\ MaxEpoch \in Nat

VARIABLES
  k,           \* the kernel's snapshot of the journal
  pending,     \* child effects that were requested and not observed APPLIED
  doubted,     \* those of them that were observed UNKNOWN
  unanswered,  \* dispatches requested and not observed
  applied,     \* dispatches observed APPLIED
  cancelled,   \* attempts whose turn was observed cancelled
  absent,      \* attempts whose worktree was observed ABSENT
  recovery,    \* the incomplete resume: its attempt and its last event
  resolved,    \* unknown dispatches that a complete resume resolved
  late,        \* a start has settled a child effect of a dispatch that the provider
               \* had answered UNKNOWN to (history)
  broken,      \* what makes the journal unreadable, or "no"
  pc,          \* where the coordinator is
  fresh,       \* its cursor is at the head of the journal
  todo,        \* the events it appends next
  wave,        \* the tasks of the wave
  left,        \* those the current stage has not handled yet
  at,          \* the attempt it is dispatching or taking back
  done,        \* effects that took place at the provider
  live,        \* attempts with a running worker
  finished,    \* attempts whose turn ended by itself, with a result
  dirty        \* attempts whose worktree holds changes to owned paths

journal == <<k, pending, doubted, unanswered, applied, cancelled, absent, broken>>
resume == <<recovery, resolved, late>>
process == <<pc, fresh, todo, wave, left, at>>
world == <<done, live, finished, dirty>>
vars == <<journal, resume, process, world>>

\* An attempt under the epoch that reserved it: <<task, attempt, epoch>>.
NoId == <<"none", 0, 0>>
NoRecovery == [id |-> NoId, step |-> "none"]

Of(id) == k.attempt[id[1]][id[2]]
Latest(t) == Len(k.attempt[t])
IdOf(t, n) == <<t, n, k.attempt[t][n].epoch>>
State(t) == k.task[t].state

\* The attempts of the snapshot, as identities.
Attempts == UNION {{IdOf(t, n) : n \in DOMAIN k.attempt[t]} : t \in Task}
Stale(id) == id[3] < k.epoch

------------------------------------------------------------------------------
(* Events.                                                                  *)

RunMove(type, from, to, why) ==
  [subject |-> "run", type |-> type, from |-> from, to |-> to, why |-> why,
   epoch |-> k.epoch]

TaskMove(type, t, from, to, why) ==
  [subject |-> "task", type |-> type, task |-> t, from |-> from, to |-> to,
   why |-> why, epoch |-> k.epoch]

AttemptMove(type, id, from, to, why) ==
  [subject |-> "attempt", type |-> type, task |-> id[1], attempt |-> id[2],
   reserved |-> id[3], from |-> from, to |-> to, why |-> why, epoch |-> k.epoch]

\* EFFECT_REQUESTED; EFFECT_OBSERVED and EFFECT_RECONCILED with the answer.
Ask(op, id) == [subject |-> "effect", op |-> op, id |-> id, status |-> "ASKED"]
Tell(op, id, status) == [subject |-> "effect", op |-> op, id |-> id, status |-> status]

\* DISPATCH_OBSERVED.
Observed(id, status) ==
  [subject |-> "dispatch", task |-> id[1], attempt |-> id[2], reserved |-> id[3],
   status |-> status, epoch |-> k.epoch]

\* The kernel takes the event, or does not know it and only moves its head.
KernelTakes(e) ==
  CASE e.subject = "effect" -> TRUE
    [] e.subject = "dispatch" -> e.status = "APPLIED" => ObservedAccepts(k, e)
    [] OTHER -> Accepts(k, e)

KernelAfter(e) ==
  CASE e.subject = "effect" -> k
    [] e.subject = "dispatch" -> IF e.status = "APPLIED" THEN ObservedFold(k, e) ELSE k
    [] OTHER -> Fold(k, e)

\* advance_external_effect_projection.
EffectAfter(e) ==
  LET p == <<e.id, e.op>> IN
  /\ pending' = IF e.status = "ASKED" THEN pending \cup {p}
                ELSE IF e.status = "APPLIED" THEN pending \ {p} ELSE pending
  /\ doubted' = IF e.status = "UNKNOWN" THEN doubted \cup {p} ELSE doubted \ {p}
  /\ cancelled' = IF e.op = "cancel" /\ e.status = "APPLIED"
                  THEN cancelled \cup {e.id} ELSE cancelled

\* The dispatches that _stream_lease_projection keeps.
DispatchAfter(e) ==
  LET requested == e.subject = "attempt" /\ e.type = "DISPATCH_REQUESTED"
      observed == e.subject = "dispatch"
      id == <<e.task, e.attempt, e.reserved>>
  IN /\ unanswered' = IF requested THEN unanswered \cup {id}
                      ELSE IF observed THEN unanswered \ {id} ELSE unanswered
     /\ applied' = IF observed /\ e.status = "APPLIED" THEN applied \cup {id} ELSE applied

\* The journal after event e.  An incomplete resume admits no event but its own.
Commit(e) ==
  IF recovery = NoRecovery /\ KernelTakes(e)
  THEN /\ k' = KernelAfter(e)
       /\ IF e.subject = "effect" THEN EffectAfter(e)
          ELSE UNCHANGED <<pending, doubted, cancelled>>
       /\ IF e.subject \in {"attempt", "dispatch"} THEN DispatchAfter(e)
          ELSE UNCHANGED <<unanswered, applied>>
       /\ UNCHANGED broken
  ELSE /\ broken' = IF recovery = NoRecovery THEN "kernel" ELSE "recovery"
       /\ UNCHANGED <<k, pending, doubted, cancelled, unanswered, applied>>

------------------------------------------------------------------------------
Init ==
  /\ k = [epoch |-> 0, phase |-> "EXECUTING", status |-> "RUNNING", why |-> "none",
          task |-> [t \in Task |-> [state |-> "APPROVED", why |-> "none"]],
          attempt |-> [t \in Task |-> <<>>]]
  /\ pending = {} /\ doubted = {} /\ unanswered = {} /\ applied = {}
  /\ cancelled = {} /\ absent = {} /\ recovery = NoRecovery /\ resolved = {}
  /\ late = FALSE
  /\ broken = "no" /\ pc = "down" /\ fresh = FALSE /\ todo = <<>>
  /\ wave = {} /\ left = {} /\ at = NoId
  /\ done = {} /\ live = {} /\ finished = {} /\ dirty = {}

At(l) == pc = l /\ todo = <<>> /\ fresh
Goto(l) == pc' = l /\ UNCHANGED fresh
Later(events) == todo' = events

\* _append_payload: the event is in the journal before it is folded, and one
\* that cannot be folded stops the coordinator.
AppendNext ==
  /\ todo # <<>> /\ fresh
  /\ Commit(Head(todo))
  /\ IF broken' = "no" THEN todo' = Tail(todo) /\ UNCHANGED pc
     ELSE todo' = <<>> /\ pc' = "down"
  /\ UNCHANGED <<absent, resume, fresh, wave, left, at, world>>

\* The resume command has written: JOURNAL_CONFLICT.
Conflict ==
  /\ pc # "down" /\ ~fresh
  /\ pc' = "down" /\ todo' = <<>>
  /\ UNCHANGED <<journal, resume, fresh, wave, left, at, world>>

Leave ==
  /\ At("ending")
  /\ Goto("down")
  /\ UNCHANGED <<journal, resume, todo, wave, left, at, world>>

------------------------------------------------------------------------------
(* acquire_lease.                                                           *)

Start ==
  /\ pc = "down" /\ broken = "no"
  /\ k.epoch < MaxEpoch
  /\ k' = FoldLease(k, k.epoch + 1)
  /\ pc' = "reconcile" /\ fresh' = TRUE /\ todo' = <<>>
  /\ wave' = {} /\ left' = {} /\ at' = NoId
  /\ UNCHANGED <<pending, doubted, unanswered, applied, cancelled, absent, broken,
                 resume, world>>

\* The inspection of a pending effect finds it done, also where the provider had
\* answered UNKNOWN before ...
ReconcileApplied(p) ==
  /\ At("reconcile") /\ p \in pending
  /\ p \in done
  /\ Later(<<Tell(p[2], p[1], "APPLIED")>>)
  /\ late' = (late \/ (p \in doubted /\ p[2] # "cancel"))
  /\ UNCHANGED <<journal, recovery, resolved, pc, fresh, wave, left, at, world>>

\* ... or it is a cancellation that has not been done, and is done now ...
ReconcileRetry(p) ==
  /\ At("reconcile") /\ p \in pending
  /\ p[2] = "cancel" /\ p \notin done
  /\ done' = done \cup {p}
  /\ live' = live \ {p[1]}
  /\ Later(<<Tell("cancel", p[1], "APPLIED")>>)
  /\ UNCHANGED <<journal, resume, pc, fresh, wave, left, at, finished, dirty>>

\* ... or it has no answer, or is another effect of an older epoch that has not
\* been done: the run stays blocked.
ReconcileBlocked(p) ==
  /\ At("reconcile") /\ p \in pending
  /\ Goto("ending")
  /\ UNCHANGED <<journal, resume, todo, wave, left, at, world>>

SomethingLeftOpen == TRUE

\* Every pending effect has been observed APPLIED.
NothingPending == pending = {}

Reconciled ==
  /\ At("reconcile") /\ NothingPending
  /\ Goto("takeback")
  /\ UNCHANGED <<journal, resume, todo, wave, left, at, world>>

ReservesFirst(id) ==
  <<AttemptMove("CANCEL_REQUESTED", id, "RUNNING", "CANCEL_REQUESTED", "LEASE_LOST"),
    AttemptMove("ATTEMPT_TERMINATED", id, "CANCEL_REQUESTED", "TERMINATED", "LEASE_LOST"),
    TaskMove("TASK_BLOCKED", id[1], "DISPATCHED", "BLOCKED", "LEASE_LOST"),
    TaskMove("TASK_RETRY_SCHEDULED", id[1], "BLOCKED", "READY", "none"),
    AttemptMove("ATTEMPT_RESERVED", id, "TERMINATED", "RESERVED", "none"),
    TaskMove("LEASE_ACQUIRED", id[1], "READY", "LEASED", "none")>>

\* reclaim_cancelled_dispatch: the transitions that take an attempt back.
TakeBackSteps(id) ==
  <<AttemptMove("CANCEL_REQUESTED", id, "RUNNING", "CANCEL_REQUESTED", "LEASE_LOST"),
    AttemptMove("ATTEMPT_TERMINATED", id, "CANCEL_REQUESTED", "TERMINATED", "LEASE_LOST"),
    TaskMove("TASK_BLOCKED", id[1], "DISPATCHED", "BLOCKED", "LEASE_LOST"),
    TaskMove("TASK_RETRY_SCHEDULED", id[1], "BLOCKED", "READY", "none"),
    TaskMove("LEASE_ACQUIRED", id[1], "READY", "LEASED", "none"),
    AttemptMove("ATTEMPT_RESERVED", id, "TERMINATED", "RESERVED", "none")>>

Lost(id) == Of(id).state = "TERMINATED" /\ Of(id).why = "LEASE_LOST"

NothingIsMissing(id) == 6

\* How many of these steps are in the journal already.
StepsTaken(id) ==
  CASE Of(id).state = "RUNNING" -> 0
    [] Of(id).state = "CANCEL_REQUESTED" -> 1
    [] Lost(id) -> CASE State(id[1]) = "DISPATCHED" -> 2
                     [] State(id[1]) = "BLOCKED" -> 3
                     [] State(id[1]) = "READY" -> 4
                     [] OTHER -> 5

\* _recover_cancelled_dispatch: attempts of an older epoch whose dispatch was
\* applied, the ones half way through being taken back included.
ToTakeBack ==
  {id \in applied \cap Attempts :
     /\ Stale(id)
     /\ \/ Of(id).state \in {"RUNNING", "CANCEL_REQUESTED"} /\ State(id[1]) = "DISPATCHED"
        \/ Lost(id) /\ State(id[1]) \in {"DISPATCHED", "BLOCKED", "READY", "LEASED"}}

Admitted(id) ==
  /\ k.status = "RUNNING"
  /\ id[2] = Latest(id[1])
  /\ recovery = NoRecovery
  /\ <<id[1], id[2]>> \notin dirty

AnyTurnIsCancelled(id) == TRUE

\* An earlier epoch asked for the cancellation of the turn and it was APPLIED.
TurnIsCancelled(id) == id \in cancelled

\* The turn is not known to be cancelled: request it.
TakeBack(id) ==
  /\ At("takeback") /\ id \in ToTakeBack
  /\ Admitted(id)
  /\ ~TurnIsCancelled(id)
  /\ Later(<<Ask("cancel", id)>>)
  /\ at' = id
  /\ Goto("cancel")
  /\ UNCHANGED <<journal, resume, wave, left, world>>

\* The turn was cancelled before the previous coordinator stopped.
TakeBackCancelled(id) ==
  /\ At("takeback") /\ id \in ToTakeBack
  /\ Admitted(id)
  /\ TurnIsCancelled(id)
  /\ at' = id
  /\ Goto("recheck")
  /\ UNCHANGED <<journal, resume, todo, wave, left, world>>

TakeBackBlocked(id) ==
  /\ At("takeback") /\ id \in ToTakeBack
  /\ ~Admitted(id)
  /\ Goto("ending")
  /\ UNCHANGED <<journal, resume, todo, wave, left, at, world>>

\* The provider's answer to the cancellation.
Cancel ==
  /\ At("cancel")
  /\ \E status \in {"APPLIED", "ABSENT", "UNKNOWN", "none"}, happens \in BOOLEAN :
       /\ status = "APPLIED" => happens
       /\ status = "ABSENT" => ~happens
       /\ done' = IF happens THEN done \cup {<<at, "cancel">>} ELSE done
       /\ live' = IF happens THEN live \ {at} ELSE live
       /\ Later(IF status = "none" THEN <<>> ELSE <<Tell("cancel", at, status)>>)
       /\ Goto(IF status = "APPLIED" THEN "recheck" ELSE "ending")
  /\ UNCHANGED <<journal, resume, wave, left, at, finished, dirty>>

NoRecheck == TRUE

\* owned_path_recheck: the worker wrote nothing until it was cancelled.
Untouched == <<at[1], at[2]>> \notin dirty

AnyEnd == TRUE

\* The cancellation of a turn that had ended is APPLIED, with the turn's own end
\* (_complete_cancel_locked): only a turn that was cut short is taken back.
CutShort == at \notin finished

Recheck ==
  /\ At("recheck")
  /\ IF CutShort /\ Untouched
     THEN /\ Later(SubSeq(TakeBackSteps(at), StepsTaken(at) + 1, 6))
          /\ Goto("takeback")
     ELSE Goto("ending") /\ UNCHANGED todo
  /\ UNCHANGED <<journal, resume, wave, left, at, world>>

TookBack ==
  /\ At("takeback") /\ ToTakeBack = {}
  /\ Goto("reclaim")
  /\ UNCHANGED <<journal, resume, todo, wave, left, at, world>>

\* reclaim_stale_reservations: attempts that never reached a dispatch.
Unsent ==
  {id \in Attempts : Stale(id) /\ (Of(id).state = "RESERVED" \/ Lost(id))}

Reclaimable ==
  /\ unanswered = {}
  /\ recovery = NoRecovery
  /\ \A id \in Unsent : State(id[1]) = "LEASED"

Reclaim(id) ==
  /\ At("reclaim") /\ id \in Unsent
  /\ Reclaimable
  /\ Later((IF Lost(id) THEN <<>>
            ELSE <<AttemptMove("ATTEMPT_RELEASED", id, "RESERVED", "TERMINATED",
                               "LEASE_LOST")>>)
           \o <<AttemptMove("ATTEMPT_RESERVED", id, "TERMINATED", "RESERVED", "none")>>)
  /\ UNCHANGED <<journal, resume, pc, fresh, wave, left, at, world>>

\* A dispatch without an answer, or a reservation that is not to be had back.
ReclaimBlocked ==
  /\ At("reclaim")
  /\ unanswered # {} \/ Unsent # {}
  /\ ~Reclaimable
  /\ Goto("ending")
  /\ UNCHANGED <<journal, resume, todo, wave, left, at, world>>

\* _recover_absent_preparation: the attempts whose worktree is proven absent.
AbsentPreparations ==
  {id \in absent \cap Attempts :
     /\ id[2] = Latest(id[1])
     /\ Of(id).state \in {"RESERVED", "TERMINATED"}
     /\ \/ State(id[1]) = "READY"
        \/ State(id[1]) = "BLOCKED" /\ k.task[id[1]].why = "GIT_STATE_CONFLICT"}

\* retry_absent_preparation takes the attempt on: its state, the task's and the run's
\* fit, and the attempt budget is not used up.
Requeueable(id) ==
  /\ recovery = NoRecovery
  /\ <<Of(id).state, State(id[1]), k.status>> \in
       {<<"RESERVED", "BLOCKED", "BLOCKED">>, <<"TERMINATED", "BLOCKED", "BLOCKED">>,
        <<"TERMINATED", "READY", "BLOCKED">>, <<"TERMINATED", "READY", "RUNNING">>}
  /\ Latest(id[1]) < MaxAttemptsPerTask
  /\ Cardinality(Attempts) < MaxAttemptsPerRun

RequeueSteps(id) ==
  (IF Of(id).state = "RESERVED"
   THEN <<AttemptMove("ATTEMPT_RELEASED", id, "RESERVED", "TERMINATED", "none")>>
   ELSE <<>>)
  \o (IF State(id[1]) = "BLOCKED"
      THEN <<TaskMove("TASK_RETRY_SCHEDULED", id[1], "BLOCKED", "READY", "none")>>
      ELSE <<>>)
  \o (IF k.status = "BLOCKED" THEN <<RunMove("RUN_RESUMED", "BLOCKED", "RUNNING", "none")>>
      ELSE <<>>)

\* The one absent preparation of a run that is blocked for a Git conflict, if any.
Conflicting ==
  IF k.status = "BLOCKED" /\ k.why = "GIT_STATE_CONFLICT" /\ Cardinality(AbsentPreparations) = 1
  THEN AbsentPreparations ELSE {}

Reclaimed ==
  /\ At("reclaim")
  /\ unanswered = {} /\ Unsent = {}
  /\ UNCHANGED <<journal, resume, wave, left, at, world>>

\* The run goes on, with the absent preparation queued again ...
Acquired ==
  /\ Reclaimed
  /\ \/ Conflicting = {} /\ UNCHANGED todo
     \/ \E id \in Conflicting : Requeueable(id) /\ Later(RequeueSteps(id))
  /\ Goto("wave")

\* ... or stays blocked: it cannot be, or its worktree is there by now.
AcquireBlocked ==
  /\ Reclaimed
  /\ Conflicting # {}
  /\ Goto("ending") /\ UNCHANGED todo

\* Only a run without conflict is known to get here: ReclaimBlocked keeps a blocked one out.
RecoverAbsent ==
  /\ At("reclaim")
  /\ Acquired \/ AcquireBlocked

------------------------------------------------------------------------------
(* The wave loop.                                                           *)

ActiveTask == {t \in Task : State(t) \in {"LEASED", "DISPATCHED", "STAGED", "PROMOTED"}}

Ready ==
  IF k.status = "RUNNING" /\ Cardinality(ActiveTask) < MaxConcurrency
  THEN {t \in Task : State(t) \in {"APPROVED", "READY"}}
  ELSE {}

\* Reservations of this epoch that are not dispatched yet.
Resumable ==
  {t \in Task :
     /\ State(t) = "LEASED"
     /\ Latest(t) > 0
     /\ LET a == k.attempt[t][Latest(t)] IN a.state = "RESERVED" /\ a.epoch = k.epoch}

\* reserve_ready hands out what is reserved already ...
ReserveResumed ==
  /\ At("wave")
  /\ recovery = NoRecovery
  /\ \E S \in SUBSET Resumable :
       /\ S # {} /\ Cardinality(S) <= MaxConcurrency
       /\ S # Resumable => Cardinality(S) = MaxConcurrency
       /\ wave' = S /\ left' = S
  /\ Goto("prepare")
  /\ UNCHANGED <<journal, resume, todo, at, world>>

\* ... or reserves ready tasks, one by one (reserve_task, _reserve_attempt).
ReserveTask(t) ==
  /\ At("wave") \/ At("reserve")
  /\ recovery = NoRecovery
  /\ pc = "wave" => Resumable = {}
  /\ t \in Ready /\ Cardinality(wave) < MaxConcurrency
  /\ Later((IF State(t) = "APPROVED"
            THEN <<TaskMove("TASK_READY", t, "APPROVED", "READY", "none")>> ELSE <<>>)
           \o <<TaskMove("LEASE_ACQUIRED", t, "READY", "LEASED", "none"),
                AttemptMove("ATTEMPT_RESERVED", <<t, Latest(t) + 1, k.epoch>>,
                            "PLANNED", "RESERVED", "none")>>)
  /\ wave' = wave \cup {t} /\ left' = wave'
  /\ Goto("reserve")
  /\ UNCHANGED <<journal, resume, at, world>>

Reserved ==
  /\ At("reserve")
  /\ Ready = {} \/ Cardinality(wave) = MaxConcurrency
  /\ Goto("prepare")
  /\ UNCHANGED <<journal, resume, todo, wave, left, at, world>>

\* NO_READY_TASKS, or RECOVERY_IN_PROGRESS; the run may be complete.
NothingToReserve ==
  /\ At("wave")
  /\ recovery # NoRecovery \/ (Resumable = {} /\ Ready = {})
  /\ Goto("ending")
  /\ UNCHANGED <<journal, resume, todo, wave, left, at, world>>

BlockAlways(t, why) ==
  <<TaskMove("TASK_BLOCKED", t, State(t), "BLOCKED", why),
    RunMove("RUN_BLOCKED", "RUNNING", "BLOCKED", why)>>

\* The events that block the run for a task; RUN_BLOCKED only if it is running.
BlockRun(t, why) ==
  <<TaskMove("TASK_BLOCKED", t, State(t), "BLOCKED", why)>>
  \o (IF k.status = "RUNNING" THEN <<RunMove("RUN_BLOCKED", "RUNNING", "BLOCKED", why)>>
      ELSE <<>>)

\* prepare_attempt: the worktree is created (or found, for a second time).
Prepare(t) ==
  /\ At("prepare") /\ t \in left
  /\ \/ /\ left' = left \ {t}
        /\ UNCHANGED <<pc, absent, todo>>
     \/ /\ \E why \in {"GIT_STATE_CONFLICT", "INVARIANT_VIOLATION"} :
             /\ absent' = IF why = "GIT_STATE_CONFLICT"
                          THEN absent \cup {IdOf(t, Latest(t))} ELSE absent
             /\ Later(BlockRun(t, why))
        /\ pc' = "ending"
        /\ UNCHANGED left
  /\ UNCHANGED <<k, pending, doubted, unanswered, applied, cancelled, broken, resume,
                 fresh, wave, at, world>>

Prepared ==
  /\ At("prepare") /\ left = {}
  /\ left' = wave
  /\ Goto("dispatch")
  /\ UNCHANGED <<journal, resume, todo, wave, at, world>>

\* dispatch_reserved, _request_and_apply: the intent, then the first child effect.
Dispatch(t) ==
  /\ At("dispatch") /\ t \in left
  /\ LET id == IdOf(t, Latest(t)) IN
       /\ Later(<<AttemptMove("DISPATCH_REQUESTED", id, "RESERVED",
                              "DISPATCH_REQUESTED", "none"),
                  Ask("reserve", id)>>)
       /\ at' = id
  /\ left' = left \ {t}
  /\ Goto("channel")
  /\ UNCHANGED <<journal, resume, wave, world>>

\* _complete_dispatch without an APPLIED receipt, and _block_unknown_dispatch.
BlockUnknown(id, status) ==
  LET why == IF status = "UNKNOWN" THEN "WORKER_OUTCOME_UNKNOWN"
             ELSE "INVARIANT_VIOLATION" IN
  <<Observed(id, status),
    AttemptMove("ATTEMPT_OUTCOME_UNKNOWN", id, "DISPATCH_REQUESTED", "OUTCOME_UNKNOWN", why),
    TaskMove("TASK_BLOCKED", id[1], "LEASED", "BLOCKED", why),
    RunMove("RUN_BLOCKED", "RUNNING", "BLOCKED", why)>>

\* _apply_child: the provider carries the effect out or not, and answers APPLIED,
\* ABSENT, UNKNOWN or nothing that can be used (which leaves the parent open).
Child(op, next, events) ==
  \E status \in {"APPLIED", "ABSENT", "UNKNOWN", "none"}, happens \in BOOLEAN :
    /\ status = "APPLIED" => happens
    /\ status = "ABSENT" => ~happens
    /\ done' = IF happens THEN done \cup {<<at, op>>} ELSE done
    /\ live' = IF happens /\ op = "send" THEN live \cup {at} ELSE live
    /\ Later(IF status = "none" THEN <<>>
             ELSE <<Tell(op, at, status)>> \o
                  (IF status = "APPLIED" THEN events ELSE BlockUnknown(at, status)))
    /\ Goto(IF status = "APPLIED" THEN next ELSE "ending")

ReserveChannel ==
  /\ At("channel")
  /\ Child("reserve", "packet", <<Ask("send", at)>>)
  /\ UNCHANGED <<journal, resume, wave, left, at, finished, dirty>>

SendTaskPacket ==
  /\ At("packet")
  /\ Child("send", "dispatch", <<Observed(at, "APPLIED")>>)
  /\ UNCHANGED <<journal, resume, wave, left, at, finished, dirty>>

\* run_workers: every worker of the wave has ended with a known result ...
Collect ==
  /\ At("dispatch") /\ left = {}
  /\ left' = wave
  /\ live' = {id \in live : id[1] \notin wave}
  /\ finished' = finished \cup (live \ live')
  /\ Goto("accept")
  /\ UNCHANGED <<journal, resume, todo, wave, at, done, dirty>>

\* ... or some outcome is not known.
CollectBlocked ==
  /\ At("dispatch") /\ left = {}
  /\ Goto("ending")
  /\ UNCHANGED <<journal, resume, todo, wave, left, at, world>>

\* accept_worker_result.
Accept(t) ==
  /\ At("accept") /\ t \in left
  /\ left' = left \ {t}
  /\ LET id == IdOf(t, Latest(t)) IN
       \/ Later(<<AttemptMove("ATTEMPT_SUCCEEDED", id, "RUNNING", "SUCCEEDED", "none")>>)
       \/ Later(<<AttemptMove("ATTEMPT_FAILED", id, "RUNNING", "FAILED", "WORKER_FAILED")>>
                \o BlockRun(t, "WORKER_FAILED"))
  /\ UNCHANGED <<journal, resume, pc, fresh, wave, at, world>>

Successful == {t \in wave : k.attempt[t][Latest(t)].state = "SUCCEEDED"}

\* The successful results are staged, promoted and verified, in the same order;
\* the loop goes on unless a worker failed.
Land ==
  /\ At("accept") /\ left = {}
  /\ LET order == SetToSeq(Successful)
         All(type, from, to) ==
           [i \in 1..Len(order) |-> TaskMove(type, order[i], from, to, "none")]
     IN Later(All("RESULT_STAGED", "DISPATCHED", "STAGED")
              \o All("PROMOTION_OBSERVED", "STAGED", "PROMOTED")
              \o All("TASK_VERIFIED", "PROMOTED", "VERIFIED"))
  /\ Goto(IF Successful = wave THEN "wave" ELSE "ending")
  /\ wave' = {}
  /\ UNCHANGED <<journal, resume, left, at, world>>

------------------------------------------------------------------------------
(* The resume command: resume_unknown_dispatch, with a human's proof that the *)
(* task packet never reached the provider and that no worker runs.           *)

Unknown == {id \in Attempts : Of(id).state = "OUTCOME_UNKNOWN" /\ id \notin resolved}

\* _unknown_dispatch_state_matches.
UnknownMatches(id) ==
  /\ Unknown = {id}
  /\ k.status = "BLOCKED" /\ State(id[1]) = "BLOCKED"

\* DispatchRecoveryPayload: an ABSENT receipt and a terminated process tree.
ProvenAbsent(id) == <<id, "send">> \notin done /\ id \notin live

Resume ==
  /\ broken = "no" /\ k.epoch > 0
  /\ fresh' = FALSE
  /\ UNCHANGED <<pending, doubted, unanswered, applied, cancelled, absent, broken,
                 late, pc, todo, wave, left, at, world>>

ResumeProof(id) ==
  /\ recovery = NoRecovery
  /\ id \in Attempts /\ Stale(id)
  /\ UnknownMatches(id)
  /\ ProvenAbsent(id)
  /\ Resume
  /\ recovery' = [id |-> id, step |-> "proof"]
  /\ UNCHANGED <<k, resolved>>

ResumeRetry ==
  /\ recovery.step = "proof"
  /\ Resume
  /\ LET e == TaskMove("TASK_RETRY_SCHEDULED", recovery.id[1], "BLOCKED", "READY", "none")
     IN Accepts(k, e) /\ k' = Fold(k, e)
  /\ recovery' = [recovery EXCEPT !.step = "retried"]
  /\ UNCHANGED resolved

ResumeRun ==
  /\ recovery.step = "retried"
  /\ Resume
  /\ LET e == RunMove("RUN_RESUMED", "BLOCKED", "RUNNING", "none")
     IN Accepts(k, e) /\ k' = Fold(k, e)
  /\ recovery' = NoRecovery
  /\ resolved' = resolved \cup {recovery.id}

------------------------------------------------------------------------------
(* The environment.                                                         *)

Crash ==
  /\ pc # "down"
  /\ pc' = "down" /\ todo' = <<>>
  /\ UNCHANGED <<journal, resume, fresh, wave, left, at, world>>

WorkerWrites(id) ==
  /\ id \in live
  /\ dirty' = dirty \cup {<<id[1], id[2]>>}
  /\ UNCHANGED <<journal, resume, process, done, live, finished>>

\* A worker completes its turn, or dies in the middle of it.
WorkerEnds(id) ==
  /\ id \in live
  /\ live' = live \ {id}
  /\ finished' \in {finished, finished \cup {id}}
  /\ UNCHANGED <<journal, resume, process, done, dirty>>
------------------------------------------------------------------------------
Coordinator ==
  \/ AppendNext \/ Conflict \/ Leave
  \/ \E p \in pending : ReconcileApplied(p) \/ ReconcileRetry(p) \/ ReconcileBlocked(p)
  \/ Reconciled
  \/ \E id \in Attempts :
       TakeBack(id) \/ TakeBackCancelled(id) \/ TakeBackBlocked(id) \/ Reclaim(id)
  \/ Cancel \/ Recheck \/ TookBack \/ ReclaimBlocked \/ RecoverAbsent
  \/ ReserveResumed \/ Reserved \/ NothingToReserve
  \/ \E t \in Task : ReserveTask(t) \/ Prepare(t) \/ Dispatch(t) \/ Accept(t)
  \/ Prepared \/ ReserveChannel \/ SendTaskPacket
  \/ Collect \/ CollectBlocked \/ Land

ResumeCommand == (\E id \in Attempts : ResumeProof(id)) \/ ResumeRetry \/ ResumeRun

Environment == Crash \/ \E id \in live : WorkerWrites(id) \/ WorkerEnds(id)

Next == Start \/ Coordinator \/ ResumeCommand \/ Environment

Spec == Init /\ [][Next]_vars

\* The coordinator is one thread, and every call it makes to a provider, to git
\* or to the journal returns, with a result or an error.
FairSpec == Spec /\ WF_vars(Coordinator)

------------------------------------------------------------------------------
(* Properties.                                                              *)

Why ==
  {"none", "LEASE_LOST", "GIT_STATE_CONFLICT", "INVARIANT_VIOLATION",
   "WORKER_OUTCOME_UNKNOWN", "WORKER_FAILED"}

Id == Task \X (1..MaxEpoch) \X (1..MaxEpoch)
Effect == Id \X {"reserve", "send", "cancel"}

Snapshot ==
  [epoch : 0..MaxEpoch, phase : RunPhase, status : RunStatus, why : Why,
   task : [Task -> [state : TaskState, why : Why]],
   attempt : [Task -> Seq([state : AttemptState, epoch : 1..MaxEpoch, why : Why])]]

\* Every variable holds a value of its kind: the snapshot is one of the kernel's,
\* the projections of the journal and the world hold effects and attempts.
TypeOK ==
  /\ k \in Snapshot
  /\ pending \subseteq Effect /\ doubted \subseteq pending /\ done \subseteq Effect
  /\ unanswered \cup applied \cup cancelled \cup absent \cup resolved \cup live
       \cup finished \subseteq Id
  /\ recovery = NoRecovery \/ recovery \in [id : Id, step : {"proof", "retried"}]
  /\ broken \in {"no", "kernel", "recovery"} /\ late \in BOOLEAN
  /\ pc \in {"down", "reconcile", "takeback", "cancel", "recheck", "reclaim", "wave",
             "reserve", "prepare", "dispatch", "channel", "packet", "accept", "ending"}
  /\ fresh \in BOOLEAN /\ left \subseteq wave /\ wave \subseteq Task
  /\ at \in Id \cup {NoId}
  /\ dirty \subseteq Task \X (1..MaxEpoch)

\* A task's packet reaches the provider a second time only after the turn of the
\* first was cancelled before it ended: no restart and no resume sends a task out
\* twice or throws a result away (_recover_cancelled_dispatch,
\* resume_unknown_dispatch).
SentAgainOnlyCancelled ==
  \A p, q \in done :
    p[2] = "send" /\ q[2] = "send" /\ p # q /\ p[1][1] = q[1][1] =>
      \E id \in {p[1], q[1]} : <<id, "cancel">> \in done /\ id \notin finished

\* No two workers of one task run at the same time, whatever coordinator started
\* them (acquire_lease settles the old ones before reserve_ready).
OneWorker == \A i, j \in live : i[1] = j[1] => i = j

\* A worktree that is handed out for a (new) dispatch holds no change a former
\* worker made, and no former worker runs in it (owned_path_recheck comes after
\* the cancellation in reclaim_cancelled_dispatch).
CleanReservation ==
  \A t \in Task, n \in 1..MaxEpoch :
    n \in DOMAIN k.attempt[t] /\ k.attempt[t][n].state = "RESERVED" =>
      <<t, n>> \notin dirty /\ \A id \in live : <<id[1], id[2]>> # <<t, n>>

\* A task and its attempts stay in step through every crash between two of the
\* events that move them: only the latest attempt is at work, one that runs has
\* a dispatched task, and a landed task has a succeeded attempt.
Aligned ==
  \A t \in Task : \A n \in DOMAIN k.attempt[t] :
    LET s == k.attempt[t][n].state IN
    /\ s \notin Terminal => n = Latest(t)
    /\ s \in {"RUNNING", "CANCEL_REQUESTED"} => State(t) = "DISPATCHED"
    /\ s = "DISPATCH_REQUESTED" => State(t) = "LEASED"
    /\ s = "RESERVED" => State(t) \in {"LEASED", "BLOCKED"}
    /\ n = Latest(t) /\ State(t) \in {"STAGED", "PROMOTED", "VERIFIED"} => s = "SUCCEEDED"

\* At most one child effect is open: the next one is requested only when the
\* journal holds the answer to the last (dispatch and cancel of
\* backend_effects.py, reconcile_pending_external_effects).
OneEffectOpen == Cardinality(pending) <= 1

\* At most one dispatch has an unknown outcome that nobody has resolved, the
\* case the resume command is for (_unknown_dispatch_state_matches) -- as long as no
\* start has settled a child effect that the provider had answered UNKNOWN to: the
\* effect is then no longer pending though the dispatch stays unknown, so that the
\* next tasks are dispatched and may come to an unknown outcome too.
OneUnknown == ~late => Cardinality(Unknown) <= 1

\* The coordinator appends no event that the kernel rejects: the journal it
\* leaves can be replayed (_append_payload appends before it folds) -- as long as no
\* start has settled a child effect that the provider had answered UNKNOWN to: it
\* then dispatches while the run is blocked, and RUN_BLOCKED may come a second time.
KernelFolds == ~late => broken # "kernel"

\* Nor does it append one inside an incomplete resume (advance_dispatch_recoveries)
\* -- as long as no start has settled a child effect that the provider had answered
\* UNKNOWN to: it may do so between two events of a resume that was interrupted.
RecoveriesFold == ~late => broken # "recovery"

\* A start ends: the coordinator neither goes round in circles taking back,
\* reclaiming and dispatching, nor gets stuck.
StartEnds == pc # "down" ~> pc = "down"
=============================================================================
