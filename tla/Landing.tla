------------------------------- MODULE Landing -------------------------------
(***************************************************************************)
(* Landing the results of a wave on the target branch                      *)
(* (processes/workflow.py, LocalExecutionWorkflow; services/promotion.py;  *)
(* services/cleanup.py; adapters/git_worktree.py), from the creation of    *)
(* the worktrees to their removal, over all waves of a run and all starts  *)
(* of its coordinator (processes/foreground.py).                           *)
(*                                                                         *)
(* Abstractions.  One coordinator at a time (EffectsExclusive and Fenced   *)
(* of CoordinatorLease); the dispatch of workers, their loss and their     *)
(* reclaim are Dispatch's, so that a worker just ends with a result or     *)
(* fails, and a task whose worker was lost is leased.  A commit is whoever *)
(* made it and the paths it writes; every write gives a path new content.  *)
(* The user may commit to the target branch or edit its working tree       *)
(* between any two steps and never rewrites its history.  The task files   *)
(* that every committed event rewrites in that tree, the projection, are   *)
(* not edits: what counts is whether the validator proves that there is    *)
(* nothing else.  So may another   *)
(* run, under the repository lock: the lock is not modelled, a lock that   *)
(* is busy is a stop.  A port that raises, an append that fails or a lease *)
(* that is no longer admitted stops the start without another event: Crash *)
(* stands for these too.                                                   *)
(***************************************************************************)
EXTENDS Naturals, Sequences, FiniteSets

CONSTANTS
  Task,            \* the tasks of the frozen graph
  After,           \* After[t]: the tasks t depends on
  Position,        \* topological_position
  User,            \* whoever else commits to the target branch
  Aux,             \* an auxiliary path that every task may write
  MaxConcurrency,  \* max_concurrency of the manifest
  MaxStarts,       \* bound: how often a coordinator is started
  MaxForeign       \* bound: commits and edits by the user

ASSUME LandingAssumption ==
  /\ After \in [Task -> SUBSET Task]
  /\ Position \in [Task -> Nat]
  /\ \A t, u \in Task : Position[t] = Position[u] => t = u
  /\ User \notin Task /\ Aux \notin Task
  /\ MaxConcurrency \in Nat \ {0} /\ MaxStarts \in Nat /\ MaxForeign \in Nat

VARIABLES
  task,      \* the state of each task in the journal
  status,    \* the status of the run in the journal
  open,      \* Git effects that were requested and not observed
  unknown,   \* tasks whose promotion was observed UNKNOWN
  target,    \* the commits of the target branch since Gate B
  untidy,    \* the working tree of the target has changes beyond the projection
  tree,      \* the worktree of each task's attempt
  base,      \* how many commits of target that worktree was created on
  writes,    \* the paths the result changes
  ref,       \* tasks with a staged ref
  pc,        \* where the coordinator is
  wave,      \* the tasks of the wave
  at,        \* the task whose result it is handling
  on,        \* the commit of target its candidate is built on
  expected,  \* the commit the coordinator takes target to be at
  seen,      \* the outcome of the effect it has applied
  accepted,  \* history: <<t, n>>, the candidate of t on commit n was accepted
  starts, foreign

journal == <<task, status, open, unknown>>
git == <<target, untidy, tree, base, writes, ref>>
process == <<pc, wave, at, on, expected, seen>>
bounds == <<starts, foreign>>
vars == <<journal, git, process, accepted, bounds>>

Path == Task \cup {Aux}
None == "none"

Stages == {"down", "wave", "prepare", "create", "created", "work", "stage", "staging",
           "record", "plan", "candidate", "accept", "inspect", "guard", "merge",
           "conclude", "observe", "verify", "clean", "quarantine", "inspectTree", "remove"}

By(i) == target[i].by
Landed == {By(i) : i \in DOMAIN target} \cap Task
In(s) == {t \in Task : task[t] = s}

\* The first in the order of the graph.
First(S) == CHOOSE t \in S : \A u \in S : Position[t] <= Position[u]

\* _guard_target: the branch is at the expected commit, the tree unchanged but for the
\* projection.  It may fail without a reason, like every call of Git.
TargetGuarded == Len(target) = expected /\ ~untidy

------------------------------------------------------------------------------
Init ==
  /\ task = [t \in Task |-> "ready"] /\ status = "running"
  /\ open = {} /\ unknown = {}
  /\ target = <<>> /\ untidy = FALSE
  /\ tree = [t \in Task |-> "none"] /\ base = [t \in Task |-> 0]
  /\ writes = [t \in Task |-> {}] /\ ref = {}
  /\ pc = "down" /\ wave = {} /\ at = None /\ on = 0 /\ expected = 0 /\ seen = None
  /\ accepted = {} /\ starts = 0 /\ foreign = 0

Goto(l) == pc' = l
Becomes(t, s) == task' = [task EXCEPT ![t] = s]

\* _block_run and the end of the start: TASK_BLOCKED, then RUN_BLOCKED; a crash may
\* come before each of them.
BlockRun(t) ==
  /\ \/ UNCHANGED <<task, status>>
     \/ Becomes(t, "blocked") /\ status' \in {status, "blocked"}
  /\ Goto("down")

Request(op) == open' = open \cup {<<op, at'>>}
Observed(op) == open' = open \ {<<op, at>>}

------------------------------------------------------------------------------
(* Starting, and the waves.                                                 *)

\* validate_execution: the workspace is the one Gate B approved.
Admitted == target = <<>> /\ ~untidy

Start ==
  /\ pc = "down" /\ starts < MaxStarts
  /\ starts' = starts + 1
  /\ IF Admitted THEN Goto("wave") /\ expected' = Len(target)
     ELSE UNCHANGED <<pc, expected>>
  /\ wave' = {} /\ at' = None /\ on' = 0 /\ seen' = None
  /\ UNCHANGED <<journal, git, accepted, foreign>>

Active == UNION {In(s) : s \in {"leased", "dispatched", "staged", "promoted"}}

\* GraphIndex.ready_tasks of a run that is running, up to max_concurrency.
Ready ==
  IF status = "running" /\ Cardinality(Active) < MaxConcurrency
  THEN {t \in In("ready") : After[t] \subseteq In("verified")}
  ELSE {}

\* reserve_ready: what was reclaimed first, else ready tasks in graph order.
Reserve ==
  /\ pc = "wave" /\ wave = {}
  /\ IF In("leased") # {} THEN wave' = In("leased") /\ UNCHANGED task
     ELSE /\ Ready # {}
          /\ \E S \in SUBSET Ready \ {{}} :
               /\ Cardinality(S) <= MaxConcurrency - Cardinality(Active)
               /\ \A t \in S, u \in Ready \ S : Position[t] <= Position[u]
               /\ S # Ready => Cardinality(S) = MaxConcurrency - Cardinality(Active)
               /\ wave' = S
               /\ task' = [t \in Task |-> IF t \in S THEN "leased" ELSE task[t]]
  /\ at' = None
  /\ Goto("prepare")
  /\ UNCHANGED <<status, open, unknown, git, on, expected, seen, accepted, bounds>>

NothingToReserve ==
  /\ pc = "wave" /\ wave = {}
  /\ In("leased") = {} /\ Ready = {}
  /\ Goto("down")
  /\ UNCHANGED <<journal, git, wave, at, on, expected, seen, accepted, bounds>>

\* The tasks of the wave are prepared one after the other, in graph order.
ToPrepare == IF at = None THEN wave ELSE {t \in wave : Position[t] > Position[at]}

\* prepare_attempt: plan_attempt, and the durable request.
Prepare ==
  /\ pc = "prepare" /\ ToPrepare # {}
  /\ at' = First(ToPrepare)
  /\ TargetGuarded
  /\ Request("prepare")
  /\ Goto("create")
  /\ UNCHANGED <<task, status, unknown, git, wave, on, expected, seen, accepted, bounds>>

\* create_attempt: a worktree on the expected commit; one of an earlier start is
\* found and kept.
CreateAttempt ==
  /\ pc = "create"
  /\ TargetGuarded
  /\ tree' = [tree EXCEPT ![at] = "made"]
  /\ base' = [base EXCEPT ![at] = expected]
  /\ Goto("created")
  /\ UNCHANGED <<journal, target, untidy, writes, ref, wave, at, on, expected, seen,
                 accepted, bounds>>

AttemptObserved ==
  /\ pc = "created"
  /\ Observed("prepare")
  /\ Goto("prepare")
  /\ UNCHANGED <<task, status, unknown, git, wave, at, on, expected, seen, accepted, bounds>>

\* The target has drifted: the guard raises, and the start ends without an event.
PrepareRaises ==
  /\ pc \in {"prepare", "create"} /\ ~TargetGuarded
  /\ Goto("down")
  /\ UNCHANGED <<journal, git, wave, at, on, expected, seen, accepted, bounds>>

\* It could not be created, or is not what it should be: no other task of the wave
\* is prepared, and none is dispatched.
PrepareBlocked ==
  /\ pc \in {"create", "created"}
  /\ Observed("prepare")
  /\ BlockRun(at)
  /\ UNCHANGED <<unknown, git, wave, at, on, expected, seen, accepted, bounds>>

Prepared ==
  /\ pc = "prepare" /\ ToPrepare = {}
  /\ Goto("work")
  /\ UNCHANGED <<journal, git, wave, at, on, expected, seen, accepted, bounds>>

\* The workers of the wave end; those in S succeed with a result.
Work(S) ==
  /\ pc = "work"
  /\ S \subseteq wave
  /\ \E w \in [S -> {{}, {Aux}}] :
       writes' = [t \in Task |-> IF t \in S THEN {t} \cup w[t] ELSE writes[t]]
  /\ tree' = [t \in Task |-> IF t \in S THEN "result" ELSE tree[t]]
  /\ task' = [t \in Task |-> IF t \in S THEN "dispatched"
                             ELSE IF t \in wave THEN "blocked" ELSE task[t]]
  /\ status' = IF S = wave THEN status ELSE "blocked"
  /\ Goto(IF S = {} THEN "down" ELSE "stage")
  /\ UNCHANGED <<open, unknown, target, untidy, base, ref, wave, at, on, expected, seen,
                 accepted, bounds>>

------------------------------------------------------------------------------
(* stage_attempt_result.                                                    *)

ToStage == wave \cap In("dispatched")

\* validate_result, and the durable request.
Stage ==
  /\ pc = "stage" /\ ToStage # {}
  /\ at' = First(ToStage)
  /\ TargetGuarded /\ tree[at'] = "result"
  /\ Request("stage")
  /\ Goto("staging")
  /\ UNCHANGED <<task, status, unknown, git, wave, on, expected, seen, accepted, bounds>>

\* The result is rejected: RESULT_REJECTED.
StageRejected ==
  /\ pc = "stage" /\ ToStage # {}
  /\ at' = First(ToStage)
  /\ BlockRun(at')
  /\ UNCHANGED <<open, unknown, git, wave, on, expected, seen, accepted, bounds>>

\* stage_result: the ref is created, or is there with the same commit.
StageResult ==
  /\ pc = "staging" /\ at \notin ref
  /\ TargetGuarded
  /\ ref' = ref \cup {at}
  /\ UNCHANGED <<journal, target, untidy, tree, base, writes, process, accepted, bounds>>

\* EFFECT_OBSERVED.
StageObserved ==
  /\ pc = "staging" /\ at \in ref
  /\ Observed("stage")
  /\ Goto("record")
  /\ UNCHANGED <<task, status, unknown, git, wave, at, on, expected, seen, accepted, bounds>>

\* RESULT_STAGED.
ResultStaged ==
  /\ pc = "record"
  /\ Becomes(at, "staged")
  /\ Goto("stage")
  /\ UNCHANGED <<status, open, unknown, git, wave, at, on, expected, seen, accepted, bounds>>

\* The ref could not be written: ABSENT.
StageAbsent ==
  /\ pc = "staging" /\ at \notin ref
  /\ Observed("stage")
  /\ BlockRun(at)
  /\ UNCHANGED <<unknown, git, wave, at, on, expected, seen, accepted, bounds>>

Staged ==
  /\ pc = "stage" /\ ToStage = {}
  /\ Goto("plan")
  /\ UNCHANGED <<journal, git, wave, at, on, expected, seen, accepted, bounds>>

------------------------------------------------------------------------------
(* promote_staged.                                                          *)

ToPromote == wave \cap In("staged")

AnyStaged(S) == CHOOSE t \in S : \A u \in S : Position[t] >= Position[u]

\* canonical_order.
NextStaged(S) == First(S)

NeverStale(t) == TRUE

\* _build_candidate_tree: nobody changed a path of the result since its base.
UpToDate(t) ==
  \A i \in (base[t] + 1)..Len(target) : target[i].writes \cap writes[t] = {}

\* plan_next, prepare_promotion.
PlanNext ==
  /\ pc = "plan" /\ ToPromote # {}
  /\ at' = NextStaged(ToPromote)
  /\ TargetGuarded /\ at' \in ref /\ UpToDate(at')
  /\ on' = expected
  /\ Goto("candidate")
  /\ UNCHANGED <<journal, git, wave, expected, seen, accepted, bounds>>

\* GIT_STATE_CONFLICT: the target has drifted, a path is stale, or Git fails.
PlanBlocked ==
  /\ pc = "plan" /\ ToPromote # {}
  /\ at' = NextStaged(ToPromote)
  /\ BlockRun(at')
  /\ UNCHANGED <<open, unknown, git, wave, on, expected, seen, accepted, bounds>>

\* materialize_promotion_candidate: a worktree of the candidate.
Materialize ==
  /\ pc = "candidate"
  /\ TargetGuarded /\ UpToDate(at)
  /\ Goto("accept")
  /\ UNCHANGED <<journal, git, wave, at, on, expected, seen, accepted, bounds>>

\* The acceptance commands pass in it, whatever became of the target meanwhile; the
\* request binds their evidence.
Accept ==
  /\ pc = "accept"
  /\ accepted' = accepted \cup {<<at, on>>}
  /\ at' = at /\ Request("promote")
  /\ Goto("inspect")
  /\ UNCHANGED <<task, status, unknown, git, wave, on, expected, seen, bounds>>

\* ACCEPTANCE_FAILED, or the candidate could not be materialized or removed.
AcceptanceFailed ==
  /\ pc \in {"candidate", "accept"}
  /\ BlockRun(at)
  /\ UNCHANGED <<open, unknown, git, wave, at, on, expected, seen, accepted, bounds>>

\* The candidate is on the branch.
Contains == Len(target) > on /\ By(on + 1) = at

\* projection_workspace_validator proves that the working tree differs from the commit
\* in the projection at most, or it does not: there is more, the tree changes while
\* it looks, or it fails.
Proofs == {FALSE, ~untidy}

TrustsMerge(proved) == IF pc = "inspect" THEN "ABSENT" ELSE "APPLIED"

\* _inspect_promotion_locked.
Inspected(proved) ==
  IF Len(target) = on THEN "ABSENT"
  ELSE IF Contains /\ proved THEN "APPLIED" ELSE "UNKNOWN"

\* An inspection; a call of Git that fails leaves it UNKNOWN.  The commit it finds, with
\* whatever was committed on top of the candidate, becomes the expected one.
Inspect ==
  /\ \E proved \in Proofs : seen' \in {Inspected(proved), "UNKNOWN"}
  /\ expected' = IF seen' = "APPLIED" THEN Len(target) ELSE expected

\* The inspection before anything is done.
InspectFirst ==
  /\ pc = "inspect"
  /\ Inspect
  /\ Goto(IF seen' = "ABSENT" THEN "guard" ELSE "observe")
  /\ UNCHANGED <<journal, git, wave, at, on, accepted, bounds>>

\* The target is where the plan expects it, without changes.
GuardMerge ==
  /\ pc = "guard"
  /\ TargetGuarded /\ UpToDate(at)
  /\ Goto("merge")
  /\ UNCHANGED <<journal, git, wave, at, on, expected, seen, accepted, bounds>>

TakesAnyMerge == Len(target) >= on

\* git merge --ff-only.
FastForwards == Len(target) = on

Merge ==
  /\ pc = "merge"
  /\ FastForwards
  /\ target' = Append(target, [by |-> at, writes |-> writes[at]])
  /\ Goto("conclude")
  /\ UNCHANGED <<journal, untidy, tree, base, writes, ref, wave, at, on, expected, seen,
                 accepted, bounds>>

\* The guard or the merge fails.
MergeFails ==
  /\ pc \in {"guard", "merge"}
  /\ Goto("conclude")
  /\ UNCHANGED <<journal, git, wave, at, on, expected, seen, accepted, bounds>>

\* The inspection after the merge.
Conclude ==
  /\ pc = "conclude"
  /\ Inspect
  /\ Goto("observe")
  /\ UNCHANGED <<journal, git, wave, at, on, accepted, bounds>>

\* PROMOTION_OBSERVED; the kernel moves the task if it was APPLIED ...
PromotionObserved ==
  /\ pc = "observe" /\ seen = "APPLIED"
  /\ Observed("promote")
  /\ Becomes(at, "promoted")
  /\ Goto("verify")
  /\ UNCHANGED <<status, unknown, git, wave, at, on, expected, seen, accepted, bounds>>

\* ... and the run is blocked if not, unless it dies between the events.
PromotionNotApplied ==
  /\ pc = "observe" /\ seen # "APPLIED"
  /\ Observed("promote")
  /\ unknown' = IF seen = "UNKNOWN" THEN unknown \cup {at} ELSE unknown
  /\ BlockRun(at)
  /\ UNCHANGED <<git, wave, at, on, expected, seen, accepted, bounds>>

\* TASK_VERIFIED.
Verify ==
  /\ pc = "verify"
  /\ Becomes(at, "verified")
  /\ Goto("plan")
  /\ UNCHANGED <<status, open, unknown, git, wave, at, on, expected, seen, accepted, bounds>>

PartlyPromoted ==
  /\ pc = "plan"
  /\ Goto("clean")
  /\ UNCHANGED <<journal, git, wave, at, on, expected, seen, accepted, bounds>>

Promoted ==
  /\ pc = "plan" /\ ToPromote = {}
  /\ Goto("clean")
  /\ UNCHANGED <<journal, git, wave, at, on, expected, seen, accepted, bounds>>

------------------------------------------------------------------------------
(* cleanup_attempt, for every result of the wave that was promoted.         *)

\* The results of the wave.
ToClean == {t \in wave : tree[t] \in {"result", "touched"}}

\* The worktree is there, clean and at the commit of the result.
Removable(t) == tree[t] = "result"

\* CleanupService.plan, and the request: the worktree may be removed, or is to be
\* kept for good.
PlanCleanup ==
  /\ pc = "clean" /\ ToClean # {}
  /\ at' = First(ToClean)
  /\ Request("cleanup")
  /\ Goto(IF Removable(at') THEN "inspectTree" ELSE "quarantine")
  /\ UNCHANGED <<task, status, unknown, git, wave, on, expected, seen, accepted, bounds>>

\* apply_cleanup looks once more.
InspectTree ==
  /\ pc = "inspectTree"
  /\ Removable(at) /\ TargetGuarded
  /\ Goto("remove")
  /\ UNCHANGED <<journal, git, wave, at, on, expected, seen, accepted, bounds>>

\* git worktree remove refuses a tree with changes.
Remove ==
  /\ pc = "remove"
  /\ tree[at] = "result"
  /\ tree' = [tree EXCEPT ![at] = "gone"]
  /\ UNCHANGED <<journal, target, untidy, base, writes, ref, process, accepted, bounds>>

CleanupForgotten ==
  /\ pc \in {"quarantine", "inspectTree", "remove"}
  /\ Observed("cleanup")
  /\ Goto("clean")
  /\ UNCHANGED <<task, status, unknown, git, wave, at, on, expected, seen, accepted, bounds>>

\* CLEANUP_OBSERVED: REMOVED, or QUARANTINED if it is still there; the next one is
\* looked at.
CleanupObserved ==
  /\ pc \in {"quarantine", "inspectTree", "remove"}
  /\ Observed("cleanup")
  /\ wave' = wave \ {at}
  /\ Goto("clean")
  /\ UNCHANGED <<task, status, unknown, git, at, on, expected, seen, accepted, bounds>>

\* What is left of the worktree is not known: CLEANUP_FAILED.
CleanupUnknown ==
  /\ pc \in {"inspectTree", "remove"}
  /\ Observed("cleanup")
  /\ status' \in {status, "blocked"}
  /\ Goto("down")
  /\ UNCHANGED <<task, unknown, git, wave, at, on, expected, seen, accepted, bounds>>

\* The wave is done; a failed worker ends the run.
WaveDone ==
  /\ pc = "clean" /\ ToClean = {}
  /\ Goto(IF wave \cap In("blocked") = {} THEN "wave" ELSE "down")
  /\ wave' = {}
  /\ UNCHANGED <<journal, git, at, on, expected, seen, accepted, bounds>>

------------------------------------------------------------------------------
(* The environment.                                                         *)

Crash ==
  /\ pc # "down"
  /\ Goto("down")
  /\ UNCHANGED <<journal, git, wave, at, on, expected, seen, accepted, bounds>>

UserCommits ==
  /\ foreign < MaxForeign
  /\ foreign' = foreign + 1
  /\ \E p \in Path : target' = Append(target, [by |-> User, writes |-> {p}])
  /\ UNCHANGED <<journal, untidy, tree, base, writes, ref, process, accepted, starts>>

UserEdits ==
  /\ foreign < MaxForeign /\ ~untidy
  /\ foreign' = foreign + 1
  /\ untidy' = TRUE
  /\ UNCHANGED <<journal, target, tree, base, writes, ref, process, accepted, starts>>

\* Somebody, or a process the worker left behind, changes a finished worktree.
Touch(t) ==
  /\ tree[t] = "result"
  /\ tree' = [tree EXCEPT ![t] = "touched"]
  /\ UNCHANGED <<journal, target, untidy, base, writes, ref, process, accepted, bounds>>

------------------------------------------------------------------------------
Waves ==
  \/ Reserve \/ NothingToReserve \/ Prepare \/ CreateAttempt \/ AttemptObserved
  \/ PrepareRaises \/ PrepareBlocked \/ Prepared
  \/ (\E S \in SUBSET wave : Work(S)) \/ WaveDone

Staging ==
  \/ Stage \/ StageRejected \/ StageResult \/ StageObserved \/ ResultStaged
  \/ StageAbsent \/ Staged

Promotion ==
  \/ PlanNext \/ PlanBlocked \/ Materialize \/ Accept \/ AcceptanceFailed
  \/ InspectFirst \/ GuardMerge \/ Merge \/ MergeFails \/ Conclude
  \/ PromotionObserved \/ PromotionNotApplied \/ Verify \/ Promoted

Cleanup ==
  PlanCleanup \/ InspectTree \/ Remove \/ CleanupObserved \/ CleanupUnknown

Coordinator == Waves \/ Staging \/ Promotion \/ Cleanup

Environment == Crash \/ UserCommits \/ UserEdits \/ \E t \in Task : Touch(t)

Next == Start \/ Coordinator \/ Environment

Spec == Init /\ [][Next]_vars

\* The coordinator is one thread, and Git and the acceptance commands end (they
\* run under a time-out).
FairSpec == Spec /\ WF_vars(Coordinator)

------------------------------------------------------------------------------
TaskState == {"ready", "leased", "dispatched", "staged", "promoted", "verified", "blocked"}

Commits == [by : Task \cup {User}, writes : SUBSET Path]

TypeOK ==
  /\ task \in [Task -> TaskState] /\ status \in {"running", "blocked"}
  /\ open \subseteq {"prepare", "stage", "promote", "cleanup"} \X Task /\ unknown \subseteq Task
  /\ target \in Seq(Commits) /\ untidy \in BOOLEAN
  /\ tree \in [Task -> {"none", "made", "result", "touched", "gone"}]
  /\ base \in [Task -> Nat] /\ writes \in [Task -> SUBSET Path] /\ ref \subseteq Task
  /\ pc \in Stages /\ wave \subseteq Task /\ at \in Task \cup {None}
  /\ on \in Nat /\ expected \in Nat
  /\ seen \in {None, "ABSENT", "APPLIED", "UNKNOWN"}
  /\ accepted \subseteq Task \X Nat
  /\ starts \in 0..MaxStarts /\ foreign \in 0..MaxForeign

\* What the journal says of a landing is what happened: a task that was promoted
\* is on the branch, and one that is on the branch was promoted, or a request
\* without an observation or the outcome UNKNOWN tells an operator where to look;
\* wherever the coordinator died, and whatever the user did meanwhile.
RecordedAsLanded ==
  /\ In("promoted") \cup In("verified") \subseteq Landed
  /\ \A t \in Landed :
       t \in In("promoted") \cup In("verified") \cup unknown \/ <<"promote", t>> \in open

\* A result that lands overwrites nothing that landed, or that the user committed,
\* after its worktree was created: its workers never saw that content.
NoLostUpdate ==
  \A i \in DOMAIN target : \A j \in 1..(i - 1) :
    By(i) \in Task /\ j > base[By(i)] => target[j].writes \cap target[i].writes = {}

\* Results computed on the same commit land in the order of the frozen graph,
\* whatever order their workers ended in and wherever a start was cut off.
InGraphOrder ==
  \A i, j \in DOMAIN target :
    i < j /\ {By(i), By(j)} \subseteq Task /\ base[By(i)] = base[By(j)]
    => Position[By(i)] < Position[By(j)]

\* A worktree is removed only when its result is on the branch and the journal
\* says so: the only copy of a result is never deleted.
RemovedOnlyLanded ==
  \A t \in Task : tree[t] = "gone" => t \in Landed \cap In("verified")

\* Every start of a coordinator ends: no outcome of Git, of the acceptance
\* commands or of the user's edits leaves it waiting or working in circles.
StartEnds == pc # "down" ~> pc = "down"

\* The program keeps what the run promises about the target branch.
Contract == INSTANCE LandingContract
              WITH target <- [i \in DOMAIN target |-> By(i)], accepted <- accepted
ImplementsContract == Contract!Spec
=============================================================================
