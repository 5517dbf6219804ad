------------------------------- MODULE ReadySet -------------------------------
(***************************************************************************)
(* The dependency graph and the ready set (kernel/dag.py,                  *)
(* kernel/graph_index.py): a coordinator carries an index along its        *)
(* cursor, advances it by every event it appends, and leases what the      *)
(* index holds ready; before that, when it starts, it takes back the tasks *)
(* that an earlier coordinator dispatched, which leases them again without *)
(* asking the index (processes/coordinator.py).  A replay advances the     *)
(* index by the events it reads, and a checkpoint is rebuilt from its      *)
(* snapshot.                                                               *)
(*                                                                         *)
(* Abstractions.  The graph is valid: compile refuses one with a cycle and *)
(* orders the tasks topologically.  The snapshot is StateKernel's, without *)
(* attempts and reasons, which the index does not read.  The kernel may    *)
(* fold any legal event in any order, those that no part of the program    *)
(* writes so far included; only a coordinator leases, in reserve_task,     *)
(* dispatch_task and reclaim_cancelled_dispatch.  Which of the dispatched  *)
(* tasks have a worker of an earlier epoch is module Dispatch's: here it   *)
(* may be any of them.                                                     *)
(***************************************************************************)
EXTENDS StateKernel, FiniteSets

CONSTANTS
  After,          \* After[t]: the tasks t depends on
  Overlap,        \* pairs of tasks whose writable sets overlap
  Position,       \* topological_position
  MaxConcurrency, \* max_concurrency of the manifest
  MaxUndone       \* bound: tasks that are reverted or invalidated

ASSUME ReadySetAssumption ==
  /\ IsFiniteSet(Task)
  /\ After \in [Task -> SUBSET Task]
  /\ Position \in [Task -> 0..(Cardinality(Task) - 1)]
  /\ \A t, u \in Task : Position[t] = Position[u] => t = u
  /\ \A t \in Task : \A u \in After[t] : Position[u] < Position[t]
  /\ Overlap \in SUBSET (Task \X Task)
  /\ \A t, u \in Task : <<t, u>> \in Overlap => <<u, t>> \in Overlap
  /\ MaxConcurrency \in Nat \ {0} /\ MaxUndone \in Nat

VARIABLES
  kernel,    \* the snapshot of the cursor
  index,     \* its GraphIndex
  mismatch,  \* advance raised GraphIndexError
  picked,    \* the tasks reserve_task has made ready and is about to lease
  settling,  \* the coordinator settles what earlier epochs left (acquire_lease)
  taking,    \* tasks of attempts that were terminated to be taken back, until they
             \* are leased again
  undone     \* history: how often a task was reverted or invalidated

vars == <<kernel, index, mismatch, picked, settling, taking, undone>>

------------------------------------------------------------------------------
(* TaskDag.compile.                                                         *)

Complete == {"VERIFIED", "ARCHIVED"}
ActiveState == {"LEASED", "DISPATCHED", "PR_OPEN", "STAGED", "PROMOTED"}

Dependents(t) == {u \in Task : t \in After[u]}

\* _descendant_sets: the least set that holds the dependents of t and of its
\* members.
Descendants ==
  [t \in Task |->
    {u \in Task : \A S \in SUBSET Task :
       Dependents(t) \subseteq S /\ (\A v \in S : Dependents(v) \subseteq S) => u \in S}]

Conflicts ==
  [t \in Task |->
    {u \in Task \ {t} : /\ <<t, u>> \in Overlap
                        /\ u \notin Descendants[t] /\ t \notin Descendants[u]}]

------------------------------------------------------------------------------
(* GraphIndex.                                                              *)

States(k) == [t \in Task |-> k.task[t].state]
Completed(s) == {t \in Task : s[t] \in Complete}

ActiveTasks(s) == {t \in Task : s[t] \in ActiveState}

Remaining(s) == [t \in Task |-> Cardinality(After[t] \ Completed(s))]

Candidates(s, remaining) ==
  {t \in Task : s[t] \in {"APPROVED", "READY"} /\ remaining[t] = 0}

Before(t, S) == {u \in S : Position[u] < Position[t]}

ScanMutual(S, s, remaining) ==
  \A t \in Task :
    t \in S <=>
      /\ t \in Candidates(s, remaining)
      /\ Cardinality(Before(t, S)) + Cardinality(ActiveTasks(s)) < MaxConcurrency
      /\ Conflicts[t] \cap (ActiveTasks(s) \cup Candidates(s, remaining)) = {}

\* The loop of _ready_tasks selects S: in topological order, each task that may
\* start and conflicts with nothing active or selected, up to max_concurrency.
Selects(S, s, remaining) ==
  \A t \in Task :
    t \in S <=>
      /\ t \in Candidates(s, remaining)
      /\ Cardinality(Before(t, S)) + Cardinality(ActiveTasks(s)) < MaxConcurrency
      /\ Conflicts[t] \cap (ActiveTasks(s) \cup Before(t, S)) = {}

ReadyTasks(s, remaining, phase, status) ==
  IF phase = "EXECUTING" /\ status = "RUNNING"
  THEN CHOOSE S \in SUBSET Candidates(s, remaining) : Selects(S, s, remaining)
  ELSE {}

Index(k, remaining) ==
  [state |-> States(k), remaining |-> remaining, active |-> ActiveTasks(States(k)),
   phase |-> k.phase, status |-> k.status,
   ready |-> ReadyTasks(States(k), remaining, k.phase, k.status)]

\* compile, of a snapshot.
Rebuild(k) == Index(k, Remaining(States(k)))

CountedDown(x, before, after) ==
  [t \in Task |-> x.remaining[t] - Cardinality(After[t] \cap (after \ before))]

\* One less for each dependency that is now complete, one more for each that no
\* longer is.
Adjusted(x, before, after) ==
  [t \in Task |-> x.remaining[t] + Cardinality(After[t] \cap (before \ after))
                                 - Cardinality(After[t] \cap (after \ before))]

\* advance, from one snapshot to the next.
Advance(previous, next) ==
  \E remaining \in {Adjusted(index, Completed(States(previous)), Completed(States(next)))} :
    LET fits == /\ index.state = States(previous)
                /\ \A t \in Task : remaining[t] \in 0..Cardinality(After[t])
    IN /\ index' = IF fits THEN Index(next, remaining) ELSE index
       /\ mismatch' = (mismatch \/ ~fits)

------------------------------------------------------------------------------
Init ==
  /\ kernel = [epoch |-> 1, phase |-> "NONE", status |-> "RUNNING", why |-> "none",
               task |-> [t \in Task |-> [state |-> "PROPOSED", why |-> "none"]]]
  /\ index = Rebuild(kernel)
  /\ mismatch = FALSE /\ picked = {} /\ undone = 0
  /\ settling = FALSE /\ taking = {}

RunEvent(m) ==
  [subject |-> "run", type |-> m[1], from |-> m[2], to |-> m[3], why |-> "none",
   epoch |-> 1]

TaskEvent(t, m) ==
  [subject |-> "task", task |-> t, type |-> m[1], from |-> m[2], to |-> m[3],
   why |-> "none", epoch |-> 1]

RunMovesFrom ==
  [s \in RunPhase \cup RunStatus |-> {m \in PhaseMoves \cup StatusMoves : m[2] = s}]
TaskMovesFrom == [s \in TaskState |-> {m \in TaskMoves : m[2] = s}]

\* The event is appended, folded, and the index advanced.
Apply(e) ==
  /\ Accepts(kernel, e)
  /\ kernel' = Fold(kernel, e)
  /\ Advance(kernel, kernel')

\* _admission_reason: INDEX_MISMATCH.
Verified == ~mismatch /\ index = Rebuild(kernel)

\* reserve_task and dispatch_task, of a task that is only approved ...
MakeReady(t) ==
  /\ ~settling
  /\ picked = {} /\ t \in index.ready /\ Verified
  /\ \E m \in Moves("TASK_READY", {"APPROVED"}, "READY") : Apply(TaskEvent(t, m))
  /\ picked' = {t}
  /\ UNCHANGED <<settling, taking, undone>>

\* ... and then, or at once if it was ready: LEASE_ACQUIRED.
LeaseTask(t) ==
  /\ ~settling
  /\ \/ picked = {t}
     \/ picked = {} /\ t \in index.ready /\ Verified
  /\ \E m \in Moves("LEASE_ACQUIRED", {"READY"}, "LEASED") : Apply(TaskEvent(t, m))
  /\ picked' = {}
  /\ taking' = taking \ {t}
  /\ UNCHANGED <<settling, undone>>

\* reclaim_cancelled_dispatch: TASK_BLOCKED, of a task whose worker was cancelled;
\* its TASK_RETRY_SCHEDULED is one of the moves of TaskMovesOn ...
LoseTask(t) ==
  /\ settling /\ Verified /\ kernel.status = "RUNNING"
  /\ \E m \in Moves("TASK_BLOCKED", {"DISPATCHED"}, "BLOCKED") : Apply(TaskEvent(t, m))
  /\ picked' = {}
  /\ taking' = taking \cup {t}
  /\ UNCHANGED <<settling, undone>>

\* ... and then LEASE_ACQUIRED, whatever else is active.  A coordinator that finds a
\* task on this way goes on with it.
LeaseBack(t) ==
  /\ settling /\ t \in taking
  /\ \E m \in Moves("LEASE_ACQUIRED", {"READY"}, "LEASED") : Apply(TaskEvent(t, m))
  /\ picked' = {}
  /\ taking' = taking \ {t}
  /\ UNCHANGED <<settling, undone>>

LoopAtOnce == TRUE

\* _recover_cancelled_dispatch finds nothing more to take back.
AllTakenBack == \A t \in taking : kernel.task[t].state \notin {"BLOCKED", "READY"}

\* acquire_lease returns, and the loop may reserve.
Settled ==
  /\ settling /\ AllTakenBack
  /\ settling' = FALSE
  /\ UNCHANGED <<kernel, index, mismatch, picked, taking, undone>>

\* Any other event of the run.  When somebody else writes it, the event that the
\* coordinator is about to append is in conflict.
RunMoves ==
  /\ \E m \in RunMovesFrom[kernel.phase] \cup RunMovesFrom[kernel.status] :
       Apply(RunEvent(m))
  /\ picked' = {}
  /\ UNCHANGED <<settling, taking, undone>>

Undoes == {"REVERT_OBSERVED", "TASK_INVALIDATED"}

TaskMovesOn ==
  /\ \E t \in Task : \E m \in TaskMovesFrom[kernel.task[t].state] :
       /\ m[1] \notin {"TASK_READY", "LEASE_ACQUIRED"}
       /\ Apply(TaskEvent(t, m))
       /\ undone' = undone + IF m[1] \in Undoes THEN 1 ELSE 0
       /\ undone' <= MaxUndone
  /\ picked' = {}
  /\ UNCHANGED <<settling, taking>>

\* The coordinator dies or stops; the next one starts from a checkpoint.  The journal
\* says which attempts were terminated.
Restart ==
  /\ index' = Rebuild(kernel)
  /\ mismatch' = FALSE /\ picked' = {} /\ settling' = TRUE
  /\ UNCHANGED <<kernel, taking, undone>>

Next ==
  \/ \E t \in Task : MakeReady(t) \/ LeaseTask(t) \/ LoseTask(t) \/ LeaseBack(t)
  \/ Settled \/ RunMoves \/ TaskMovesOn \/ Restart

Spec == Init /\ [][Next]_vars

------------------------------------------------------------------------------
Active == ActiveTasks(States(kernel))

\* The index that was advanced event by event is the one that a rebuild from the
\* snapshot gives, and advance never raises: neither a replay nor a coordinator
\* stops at an index that drifted, whatever was completed, reverted or retried.
IndexIsRebuild == ~mismatch /\ index = Rebuild(kernel)

\* Two tasks whose writable sets overlap are never active together: those that the
\* graph does not order conflict, and of the others the later one waits, through
\* every chain of dependencies, until the earlier one is complete.  A take-back asks
\* for neither: nothing may be reserved between the loss of its task and the lease.
\* A reverted or invalidated task is started again while its dependents may be active.
OverlapExcluded ==
  undone = 0 =>
    \A t, u \in Active : t # u => <<t, u>> \notin Overlap

\* No more tasks are active than the manifest allows, although a take-back leases
\* without asking for the limit, as long as no task is reverted or invalidated.
WithinConcurrency == undone = 0 => Cardinality(Active) <= MaxConcurrency

\* A run that is running and has tasks to start, and nothing active to wait for,
\* has a ready task: conflicts never hold all of them back.
NeverStuck ==
  kernel.phase = "EXECUTING" /\ kernel.status = "RUNNING" /\ Active = {}
    /\ Candidates(States(kernel), Remaining(States(kernel))) # {}
  => index.ready # {}
=============================================================================
