---------------------------- MODULE LandingProofs ----------------------------
(***************************************************************************)
(* Theorems about Landing, for every graph of tasks, every number of       *)
(* starts and every number of commits and edits by the user.  Each safety  *)
(* property rests on one inductive invariant, IInv, that says what the     *)
(* place of the coordinator is worth: in which states the tasks of its     *)
(* wave are, which of them are on the branch, and what it knows of the     *)
(* commit its candidate is built on.                                       *)
(***************************************************************************)
EXTENDS Landing, TLAPS, WellFoundedInduction

------------------------------------------------------------------------------
(* The inductive invariant.                                                 *)

Preparing == {"prepare", "create", "created"}
Unmerged == {"candidate", "accept", "inspect", "guard", "merge"}
Promoting == {"plan"} \cup Unmerged \cup {"conclude", "observe"}
Handling == Promoting \ {"plan"}
Cleaning == {"clean", "quarantine", "inspectTree", "remove"}
Merged == {"conclude", "observe"}
Placed == {"work", "stage", "staging", "record", "verify"} \cup Promoting
Results == {"result", "touched"}

\* The task whose worktree or result the coordinator handles.
AtHand ==
  /\ pc \in {"create", "created"} => at \in wave
  /\ pc \in {"staging", "record"} => at \in wave /\ task[at] = "dispatched"
  /\ pc \in Handling => at \in wave /\ task[at] = "staged"
  /\ pc = "verify" => at \in wave /\ task[at] = "promoted"
  /\ pc \in Cleaning \ {"clean"} => at \in wave

\* The tasks of the wave, stage by stage.
WaveStates ==
  \A t \in wave :
    /\ pc \in Preparing \cup {"work"} => task[t] = "leased"
    /\ pc = "work" => tree[t] = "made"
    /\ pc \in {"stage", "staging", "record"} => task[t] \in {"dispatched", "staged", "blocked"}
    /\ pc \in Promoting => task[t] \in {"staged", "verified", "blocked"}
    /\ pc = "verify" => t = at \/ task[t] \in {"staged", "verified", "blocked"}
    /\ pc \in Cleaning => task[t] \in {"verified", "blocked"}
    /\ pc \in {"stage", "staging", "record", "verify"} \cup Promoting \cup Cleaning =>
         (tree[t] \in Results => task[t] # "blocked")

\* The tasks of the wave that have their worktree.
IsMade(t) ==
  /\ t \in wave
  /\ \/ pc \in {"prepare", "created"} /\ at # None /\ Position[t] <= Position[at]
     \/ pc = "create" /\ Position[t] < Position[at]

\* They are on the commit the coordinator expects, later than what the landed results
\* were computed on.
MadeOnExpected ==
  \A t \in Task : IsMade(t) =>
    /\ tree[t] = "made" /\ base[t] = expected
    /\ \A u \in Landed : base[u] < expected

\* A task that left "ready" has its dependencies behind it.
DependenciesDone == \A t \in Task : task[t] # "ready" => After[t] \subseteq In("verified")

\* A coordinator that is up knows of everything that has landed.
Known ==
  pc # "down" =>
    \A t \in Landed : task[t] \in {"promoted", "verified"} \/ (t = at /\ pc \in Merged)

\* What the coordinator knows of the promotion it is carrying out.
PromotionKnown ==
  /\ pc \in Handling \ {"candidate", "accept"} => <<"promote", at>> \in open
  /\ pc = "observe" => seen # None
  /\ pc = "observe" /\ seen = "APPLIED" => at \in Landed
  /\ pc = "observe" /\ seen = "ABSENT" => at \notin Landed
  /\ pc = "conclude" /\ at \in Landed => Len(target) > on

\* The candidate, and the commit it is built on.
Candidate ==
  /\ pc \in {"inspect", "guard", "merge"} => <<at, on>> \in accepted
  /\ pc \in Unmerged =>
       /\ base[at] <= on /\ on <= Len(target)
       /\ \A j \in (base[at] + 1)..on : target[j].writes \cap writes[at] = {}
       /\ \A t \in wave \cap In("staged") : Position[at] <= Position[t]

\* What landed was computed on an earlier commit.
Based ==
  /\ \A t \in Task : base[t] <= Len(target)
  /\ \A i \in DOMAIN target : By(i) \in Task => base[By(i)] < i

\* What landed precedes what the wave may still land.
Precedes(u, t) ==
  base[u] < base[t] \/ (base[u] = base[t] /\ Position[u] < Position[t])
InOrder ==
  pc \in Placed =>
    /\ \A t, u \in wave : base[t] = base[u]
    /\ \A t \in wave, u \in Landed :
         t \notin Landed /\ task[t] # "blocked" => Precedes(u, t)

IInv ==
  /\ TypeOK /\ AtHand /\ WaveStates /\ MadeOnExpected /\ DependenciesDone /\ Known /\ PromotionKnown
  /\ Candidate /\ Based /\ InOrder
  /\ RecordedAsLanded /\ NoLostUpdate /\ InGraphOrder /\ RemovedOnlyLanded

------------------------------------------------------------------------------
(* The order of the graph, and the branch.                                  *)

\* A set of naturals that is not empty has a smallest element.
LEMMA Smallest ==
  ASSUME NEW N, N \subseteq Nat, N # {}
  PROVE  \E m \in N : \A n \in N : m <= n
  <1> DEFINE R == OpToRel(<, Nat)
  <1>1. IsWellFoundedOn(R, Nat)
    BY NatLessThanWellFounded
  <1> HIDE DEF R
  <1>2. PICK m \in N : \A n \in N : ~ (<<n, m>> \in R)
    BY <1>1, WFMin
  <1>3. \A n \in N : ~ (n < m)
    BY <1>2 DEF R, OpToRel
  <1> QED BY <1>3

\* First is the task of the set with the smallest position.
LEMMA FirstIsFirst ==
  ASSUME NEW S, S \subseteq Task, S # {}
  PROVE  First(S) \in S /\ \A u \in S : Position[First(S)] <= Position[u]
  <1> DEFINE N == {Position[t] : t \in S}
  <1>1. N \subseteq Nat /\ N # {}
    BY LandingAssumption
  <1>2. PICK m \in N : \A n \in N : m <= n
    BY <1>1, Smallest
  <1>3. \E t \in S : \A u \in S : Position[t] <= Position[u]
    BY <1>2
  <1> QED BY <1>3 DEF First

\* What a commit adds to the branch.
LEMMA Lands ==
  ASSUME TypeOK, NEW c \in Commits, target' = Append(target, c)
  PROVE  /\ Landed' = Landed \cup ({c.by} \cap Task)
         /\ Len(target') = Len(target) + 1
         /\ DOMAIN target' = DOMAIN target \cup {Len(target) + 1}
         /\ \A i \in DOMAIN target : target'[i] = target[i]
         /\ target'[Len(target) + 1] = c
         /\ DOMAIN target = 1..Len(target)
         /\ Len(target) \in Nat
  <1>1. target \in Seq(Commits)
    BY DEF TypeOK
  <1>2. /\ Len(target') = Len(target) + 1
        /\ DOMAIN target' = DOMAIN target \cup {Len(target) + 1}
        /\ \A i \in DOMAIN target : target'[i] = target[i]
        /\ target'[Len(target) + 1] = c
        /\ DOMAIN target = 1..Len(target)
        /\ Len(target) \in Nat
    BY <1>1
  <1>3. {target'[i].by : i \in DOMAIN target'} = {target[i].by : i \in DOMAIN target} \cup {c.by}
    BY <1>2
  <1> QED BY <1>2, <1>3 DEF Landed, By

------------------------------------------------------------------------------
(* Type correctness.                                                        *)

LEMMA TypeInit == Init => TypeOK
  <1> SUFFICES ASSUME Init PROVE TypeOK
    OBVIOUS
  <1>1. task \in [Task -> TaskState] /\ pc \in Stages
    BY DEF Init, TaskState, Stages
  <1>2. writes \in [Task -> SUBSET Path] /\ base \in [Task -> Nat]
    BY DEF Init
  <1>3. tree \in [Task -> {"none", "made", "result", "touched", "gone"}]
    BY DEF Init
  <1>4. target \in Seq(Commits)
    BY DEF Init
  <1>5. starts \in 0..MaxStarts /\ foreign \in 0..MaxForeign
    BY LandingAssumption DEF Init
  <1> QED BY <1>1, <1>2, <1>3, <1>4, <1>5 DEF Init, TypeOK

\* What the coordinator picks is a task of its wave.
LEMMA Picked ==
  ASSUME TypeOK
  PROVE  /\ ToStage # {} => First(ToStage) \in ToStage
         /\ ToPromote # {} => First(ToPromote) \in ToPromote
         /\ ToClean # {} => First(ToClean) \in ToClean
         /\ ToPrepare # {} => First(ToPrepare) \in ToPrepare
         /\ ToStage \subseteq Task /\ ToPromote \subseteq Task /\ ToClean \subseteq Task
         /\ ToPrepare \subseteq wave /\ wave \subseteq Task
  <1>1. ToStage \subseteq Task /\ ToPromote \subseteq Task /\ ToClean \subseteq Task
    BY DEF ToStage, ToPromote, ToClean, TypeOK
  <1>2. ToPrepare \subseteq wave /\ wave \subseteq Task
    BY DEF ToPrepare, TypeOK
  <1> QED BY <1>1, <1>2, FirstIsFirst

LEMMA WavesType ==
  ASSUME TypeOK, Waves, AtHand
  PROVE  TypeOK'
  <1> USE DEF TypeOK, TaskState, Stages, Goto, journal, git, process, bounds
  <1>1. CASE Reserve
    <2>1. Ready \subseteq Task /\ In("leased") \subseteq Task
      BY DEF Ready, In
    <2>2. wave' \subseteq Task /\ task' \in [Task -> TaskState]
      <3>1. CASE In("leased") # {}
        BY <1>1, <2>1, <3>1 DEF Reserve
      <3>2. CASE In("leased") = {}
        <4>1. PICK S \in SUBSET Ready :
                wave' = S /\ task' = [t \in Task |-> IF t \in S THEN "leased" ELSE task[t]]
          BY <1>1, <3>2 DEF Reserve
        <4> QED BY <2>1, <4>1
      <3> QED BY <3>1, <3>2
    <2> QED BY <1>1, <2>2 DEF Reserve
  <1>2. CASE NothingToReserve
    BY <1>2 DEF NothingToReserve
  <1>3. CASE Prepare
    <2>1. at' \in Task
      BY <1>3, Picked DEF Prepare
    <2>2. open' \subseteq {"prepare", "stage", "promote", "cleanup"} \X Task
      BY <1>3, <2>1 DEF Prepare, Request
    <2> QED BY <1>3, <2>1, <2>2 DEF Prepare
  <1>4. CASE CreateAttempt
    BY <1>4 DEF CreateAttempt
  <1>7. CASE AttemptObserved \/ PrepareRaises \/ Prepared
    BY <1>7 DEF AttemptObserved, PrepareRaises, Prepared, Observed
  <1>8. CASE PrepareBlocked
    BY <1>8 DEF PrepareBlocked, BlockRun, Becomes, Observed
  <1>5. CASE \E S \in SUBSET wave : Work(S)
    <2>1. PICK S \in SUBSET wave : Work(S)
      BY <1>5
    <2>2. writes' \in [Task -> SUBSET Path]
      <3>1. PICK w \in [S -> {{}, {Aux}}] :
              writes' = [t \in Task |-> IF t \in S THEN {t} \cup w[t] ELSE writes[t]]
        BY <2>1 DEF Work
      <3>2. \A t \in S : t \in Task /\ w[t] \in {{}, {Aux}}
        OBVIOUS
      <3>3. \A t \in S : {t} \cup w[t] \subseteq Path
        BY <3>2 DEF Path
      <3> QED BY <3>1, <3>3
    <2>3. /\ tree' \in [Task -> {"none", "made", "result", "touched", "gone"}]
          /\ task' \in [Task -> TaskState]
          /\ status' \in {"running", "blocked"} /\ pc' \in Stages
      BY <2>1 DEF Work
    <2> QED BY <2>1, <2>2, <2>3 DEF Work
  <1>6. CASE WaveDone
    BY <1>6 DEF WaveDone
  <1> QED BY <1>1, <1>2, <1>3, <1>4, <1>5, <1>6, <1>7, <1>8 DEF Waves

LEMMA StagingType ==
  ASSUME TypeOK, Staging, AtHand
  PROVE  TypeOK'
  <1> USE DEF TypeOK, TaskState, Stages, Goto, journal, git, process, bounds
  <1>1. CASE Stage
    BY <1>1, Picked DEF Stage, Request
  <1>2. CASE StageRejected
    BY <1>2, Picked DEF StageRejected, BlockRun, Becomes
  <1>3. CASE StageResult
    BY <1>3 DEF StageResult, AtHand
  <1>4. CASE StageObserved
    BY <1>4 DEF StageObserved, Observed
  <1>7. CASE ResultStaged
    BY <1>7 DEF ResultStaged, Becomes
  <1>5. CASE StageAbsent
    BY <1>5 DEF StageAbsent, AtHand, Observed, BlockRun, Becomes
  <1>6. CASE Staged
    BY <1>6 DEF Staged
  <1> QED BY <1>1, <1>2, <1>3, <1>4, <1>5, <1>6, <1>7 DEF Staging

LEMMA PromotionType ==
  ASSUME TypeOK, Promotion, AtHand
  PROVE  TypeOK'
  <1> USE DEF TypeOK, TaskState, Stages, Goto, journal, git, process, bounds
  <1>0. pc \in Handling \cup {"verify"} => at \in Task
    BY DEF AtHand
  <1>1. CASE PlanNext
    BY <1>1, Picked DEF PlanNext, NextStaged
  <1>2. CASE PlanBlocked
    BY <1>2, Picked DEF PlanBlocked, NextStaged, BlockRun, Becomes
  <1>3. CASE Accept
    BY <1>0, <1>3 DEF Accept, Request, Handling, Promoting, Unmerged
  <1>4. CASE AcceptanceFailed
    BY <1>0, <1>4 DEF AcceptanceFailed, BlockRun, Becomes, Handling, Promoting, Unmerged
  <1>5. CASE InspectFirst
    BY <1>5 DEF InspectFirst, Inspect, Inspected
  <1>6. CASE Merge
    <2>1. [by |-> at, writes |-> writes[at]] \in Commits
      BY <1>0, <1>6 DEF Merge, Handling, Promoting, Unmerged, Commits
    <2>2. target' \in Seq(Commits)
      BY <1>6, <2>1 DEF Merge
    <2> QED BY <1>6, <2>2 DEF Merge
  <1>7. CASE MergeFails
    BY <1>7 DEF MergeFails
  <1>8. CASE Conclude
    BY <1>8 DEF Conclude, Inspect, Inspected
  <1>9. CASE PromotionObserved
    BY <1>0, <1>9 DEF PromotionObserved, Observed, Becomes, Handling, Promoting
  <1>10. CASE PromotionNotApplied
    BY <1>0, <1>10 DEF PromotionNotApplied, Observed, BlockRun, Becomes, Handling, Promoting
  <1>11. CASE Verify
    BY <1>0, <1>11 DEF Verify, Becomes
  <1>12. CASE Promoted
    BY <1>12 DEF Promoted
  <1>13. CASE Materialize \/ GuardMerge
    BY <1>13 DEF Materialize, GuardMerge
  <1> QED BY <1>1, <1>2, <1>3, <1>4, <1>5, <1>6, <1>7, <1>8, <1>9, <1>10, <1>11, <1>12, <1>13
          DEF Promotion

LEMMA CleanupType ==
  ASSUME TypeOK, Cleanup, AtHand
  PROVE  TypeOK'
  <1> USE DEF TypeOK, TaskState, Stages, Goto, journal, git, process, bounds
  <1>1. CASE PlanCleanup
    BY <1>1, Picked DEF PlanCleanup, Request
  <1>2. CASE InspectTree
    BY <1>2 DEF InspectTree
  <1>3. CASE Remove
    BY <1>3 DEF Remove
  <1>4. CASE CleanupObserved
    BY <1>4 DEF CleanupObserved, Observed
  <1>5. CASE CleanupUnknown
    BY <1>5 DEF CleanupUnknown, Observed
  <1> QED BY <1>1, <1>2, <1>3, <1>4, <1>5 DEF Cleanup

LEMMA StartAndEnvironmentType ==
  ASSUME TypeOK, Start \/ Environment
  PROVE  TypeOK'
  <1> USE DEF TypeOK, TaskState, Stages, Goto, journal, git, process, bounds
  <1>1. CASE Start
    BY <1>1, LandingAssumption DEF Start, Admitted
  <1>2. CASE Crash
    BY <1>2 DEF Crash
  <1>3. CASE UserCommits
    <2>1. PICK p \in Path : target' = Append(target, [by |-> User, writes |-> {p}])
      BY <1>3 DEF UserCommits
    <2>2. [by |-> User, writes |-> {p}] \in Commits
      BY DEF Commits
    <2>3. target' \in Seq(Commits)
      BY <2>1, <2>2
    <2> QED BY <1>3, <2>3, LandingAssumption DEF UserCommits
  <1>4. CASE UserEdits
    BY <1>4, LandingAssumption DEF UserEdits
  <1>5. CASE \E t \in Task : Touch(t)
    BY <1>5 DEF Touch
  <1> QED BY <1>1, <1>2, <1>3, <1>4, <1>5 DEF Environment

LEMMA TypeStep ==
  ASSUME TypeOK, AtHand, [Next]_vars
  PROVE  TypeOK'
  <1>1. CASE UNCHANGED vars
    BY <1>1 DEF vars, journal, git, process, bounds, TypeOK
  <1> QED BY <1>1, WavesType, StagingType, PromotionType, CleanupType,
             StartAndEnvironmentType DEF Next, Coordinator
------------------------------------------------------------------------------
(* What a step does to the branch and to the tasks.                         *)


\* Only a merge lands a task; the user may commit, nothing else moves the branch.
LEMMA BranchStep ==
  ASSUME TypeOK, AtHand, [Next]_vars
  PROVE  \/ target' = target /\ Landed' = Landed
         \/ Merge /\ Landed' = Landed \cup {at}
         \/ UserCommits /\ Landed' = Landed
  <1> SUFFICES ASSUME target' # target
               PROVE  \/ Merge /\ Landed' = Landed \cup {at}
                      \/ UserCommits /\ Landed' = Landed
    BY DEF Landed, By
  <1>1. Merge \/ UserCommits
    BY DEF Next, vars, git, Start, Environment, Crash, UserEdits, Touch, Coordinator, Waves,
       Reserve, NothingToReserve, Prepare, CreateAttempt, AttemptObserved, PrepareRaises,
       PrepareBlocked, Prepared, Work, WaveDone, Staging, Stage, StageRejected, StageResult,
       StageObserved, ResultStaged, StageAbsent, Staged, Promotion, PlanNext, PlanBlocked,
       Materialize, Accept, AcceptanceFailed, InspectFirst, GuardMerge, MergeFails, Conclude,
       PromotionObserved, PromotionNotApplied, Verify, Promoted, Cleanup, PlanCleanup,
       InspectTree, Remove, CleanupObserved, CleanupUnknown
  <1>2. CASE Merge
    <2>1. at \in Task
      BY <1>2 DEF Merge, AtHand, Handling, Promoting, Unmerged, TypeOK
    <2>2. [by |-> at, writes |-> writes[at]] \in Commits
      BY <2>1 DEF TypeOK, Commits
    <2>3. Landed' = Landed \cup ({at} \cap Task)
      BY <1>2, <2>2, Lands DEF Merge
    <2> QED BY <1>2, <2>1, <2>3
  <1>3. CASE UserCommits
    <2>1. PICK p \in Path : target' = Append(target, [by |-> User, writes |-> {p}])
      BY <1>3 DEF UserCommits
    <2>2. [by |-> User, writes |-> {p}] \in Commits
      BY DEF Commits
    <2>3. Landed' = Landed \cup ({User} \cap Task)
      BY <2>1, <2>2, Lands
    <2> QED BY <1>3, <2>3, LandingAssumption
  <1> QED BY <1>1, <1>2, <1>3

\* The moves of a task: it leaves "ready" when it is ready, becomes promoted and then
\* verified only under the coordinator's hand, and never goes back from there.
LEMMA TaskMoves ==
  ASSUME TypeOK, AtHand, WaveStates, [Next]_vars, NEW t \in Task
  PROVE  /\ task[t] = "ready" /\ task'[t] # "ready" => t \in Ready
         /\ task[t] # "ready" => task'[t] # "ready"
         /\ task[t] = "promoted" => task'[t] \in {"promoted", "verified"}
         /\ task[t] = "verified" => task'[t] = "verified"
         /\ task[t] = "blocked" => task'[t] = "blocked"
         /\ task'[t] = "promoted" => task[t] = "promoted" \/ (PromotionObserved /\ t = at)
         /\ task'[t] = "verified" => task[t] = "verified" \/ (Verify /\ t = at)
  <1> USE DEF TypeOK, Becomes, BlockRun
  <1>1. CASE Reserve
    <2>1. task' = task \/ \E S \in SUBSET Ready :
            task' = [u \in Task |-> IF u \in S THEN "leased" ELSE task[u]]
      BY <1>1 DEF Reserve
    <2> QED BY <2>1 DEF Ready, In
  <1>2. CASE PrepareBlocked
    BY <1>2 DEF PrepareBlocked, AtHand, WaveStates, Preparing
  <1>3. CASE \E S \in SUBSET wave : Work(S)
    BY <1>3 DEF Work, WaveStates
  <1>4. CASE StageRejected
    BY <1>4, Picked DEF StageRejected, ToStage, In
  <1>5. CASE ResultStaged \/ StageAbsent
    BY <1>5 DEF ResultStaged, StageAbsent, AtHand
  <1>6. CASE PlanBlocked
    BY <1>6, Picked DEF PlanBlocked, NextStaged, ToPromote, In
  <1>7. CASE AcceptanceFailed \/ PromotionNotApplied
    BY <1>7 DEF AcceptanceFailed, PromotionNotApplied, AtHand, Handling, Promoting, Unmerged
  <1>8. CASE PromotionObserved
    BY <1>8 DEF PromotionObserved, AtHand, Handling, Promoting, Unmerged
  <1>9. CASE Verify
    BY <1>9 DEF Verify, AtHand
  <1>10. CASE task' = task
    BY <1>10
  <1> QED
    BY <1>1, <1>2, <1>3, <1>4, <1>5, <1>6, <1>7, <1>8, <1>9, <1>10
    DEF Next, vars, journal, Start, Environment, Crash, UserCommits, UserEdits, Touch,
       Coordinator, Waves, NothingToReserve, Prepare, CreateAttempt, AttemptObserved,
       PrepareRaises, Prepared, WaveDone, Staging, Stage, StageResult, StageObserved, Staged,
       Promotion, PlanNext, Materialize, Accept, InspectFirst, GuardMerge, Merge, MergeFails,
       Conclude, Promoted, Cleanup, PlanCleanup, InspectTree, Remove, CleanupObserved,
       CleanupUnknown
------------------------------------------------------------------------------
(* The place of the coordinator.                                            *)

\* Steps of the environment that leave the coordinator where it is.
LEMMA Elsewhere ==
  ASSUME UserCommits \/ UserEdits \/ (\E t \in Task : Touch(t)) \/ UNCHANGED vars
  PROVE  UNCHANGED <<task, open, unknown, pc, wave, at, on, expected, seen, accepted, base, writes>>
  BY DEF UserCommits, UserEdits, Touch, vars, journal, git, process

LEMMA AtHandStep ==
  ASSUME TypeOK, AtHand, [Next]_vars
  PROVE  AtHand'
  <1> USE DEF AtHand, Goto, Becomes, BlockRun, Handling, Promoting, Unmerged, Cleaning
  <1>1. CASE Start
    BY <1>1 DEF Start
  <1>2. CASE Waves
    <2>1. CASE Prepare
      <3>1. at' \in wave
        BY <2>1, Picked DEF Prepare
      <3> QED BY <2>1, <3>1 DEF Prepare
    <2>2. CASE CreateAttempt
      BY <2>2 DEF CreateAttempt
    <2> QED BY <1>2, <2>1, <2>2 DEF Waves, Reserve, NothingToReserve, AttemptObserved,
              PrepareRaises, PrepareBlocked, Prepared, Work, WaveDone
  <1>3. CASE Stage
    <2>1. at' \in wave /\ task[at'] = "dispatched"
      BY <1>3, Picked DEF Stage, ToStage, In
    <2> QED BY <1>3, <2>1 DEF Stage
  <1>4. CASE StageRejected \/ StageObserved \/ ResultStaged \/ StageAbsent \/ Staged
    BY <1>4 DEF StageRejected, StageObserved, ResultStaged, StageAbsent, Staged
  <1>5. CASE StageResult
    BY <1>5 DEF StageResult, journal, process
  <1>6. CASE PlanNext
    <2>1. at' \in wave /\ task[at'] = "staged"
      BY <1>6, Picked DEF PlanNext, NextStaged, ToPromote, In
    <2> QED BY <1>6, <2>1 DEF PlanNext, journal
  <1>7. CASE PlanBlocked \/ AcceptanceFailed
    BY <1>7 DEF PlanBlocked, AcceptanceFailed
  <1>8. CASE Materialize \/ Accept \/ InspectFirst \/ GuardMerge \/ Merge \/ MergeFails
             \/ Conclude
    BY <1>8 DEF Materialize, Accept, InspectFirst, GuardMerge, Merge, MergeFails, Conclude,
       journal
  <1>9. CASE PromotionObserved \/ PromotionNotApplied \/ Verify \/ Promoted
    BY <1>9 DEF PromotionObserved, PromotionNotApplied, Verify, Promoted, TypeOK, journal
  <1>10. CASE PlanCleanup
    <2>1. at' \in wave
      BY <1>10, Picked DEF PlanCleanup, ToClean
    <2> QED BY <1>10, <2>1 DEF PlanCleanup
  <1>11. CASE InspectTree \/ Remove \/ CleanupObserved \/ CleanupUnknown
    BY <1>11 DEF InspectTree, Remove, CleanupObserved, CleanupUnknown, journal, process
  <1>12. CASE Crash
    BY <1>12 DEF Crash
  <1>13. CASE UserCommits \/ UserEdits \/ (\E t \in Task : Touch(t)) \/ UNCHANGED vars
    BY <1>13, Elsewhere
  <1> QED
    BY <1>1, <1>2, <1>3, <1>4, <1>5, <1>6, <1>7, <1>8, <1>9, <1>10, <1>11, <1>12, <1>13
    DEF Next, Coordinator, Staging, Promotion, Cleanup, Environment

LEMMA WaveStatesStep ==
  ASSUME TypeOK, AtHand, WaveStates, MadeOnExpected, [Next]_vars
  PROVE  WaveStates'
  <1> USE DEF WaveStates, Goto, Becomes, BlockRun, Preparing, Promoting, Unmerged, Cleaning,
              Results, TypeOK
  <1>1. CASE Start
    BY <1>1 DEF Start
  <1>2. CASE Reserve
    <2>1. \A t \in wave' : task'[t] = "leased"
      BY <1>2 DEF Reserve, In, Ready
    <2> QED BY <1>2, <2>1 DEF Reserve
  <1>3. CASE NothingToReserve \/ WaveDone
    BY <1>3 DEF NothingToReserve, WaveDone
  <1>4. CASE Prepare \/ CreateAttempt \/ AttemptObserved
    BY <1>4 DEF Prepare, CreateAttempt, AttemptObserved, journal
  <1>5. CASE PrepareRaises \/ PrepareBlocked
    BY <1>5 DEF PrepareRaises, PrepareBlocked
  <1>21. CASE Prepared
    <2>1. \A t \in wave : IsMade(t)
      BY <1>21, LandingAssumption DEF Prepared, ToPrepare, IsMade, TypeOK
    <2>2. \A t \in wave : tree[t] = "made"
      BY <2>1 DEF MadeOnExpected
    <2> QED BY <1>21, <2>2 DEF Prepared, journal, git
  <1>6. CASE \E S \in SUBSET wave : Work(S)
    BY <1>6 DEF Work
  <1>7. CASE Stage \/ StageRejected
    BY <1>7 DEF Stage, StageRejected, Request, git
  <1>8. CASE StageResult
    BY <1>8 DEF StageResult, journal, process
  <1>9. CASE StageObserved \/ ResultStaged \/ StageAbsent
    BY <1>9 DEF StageObserved, ResultStaged, StageAbsent, git, AtHand
  <1>10. CASE Staged
    <2>1. \A t \in wave : task[t] # "dispatched"
      BY <1>10 DEF Staged, ToStage, In
    <2> QED BY <1>10, <2>1 DEF Staged, journal, git
  <1>11. CASE PlanNext \/ PlanBlocked \/ Materialize \/ Accept \/ AcceptanceFailed
    BY <1>11 DEF PlanNext, PlanBlocked, Materialize, Accept, AcceptanceFailed, journal, git
  <1>12. CASE InspectFirst \/ GuardMerge \/ Merge \/ MergeFails \/ Conclude
    BY <1>12 DEF InspectFirst, GuardMerge, Merge, MergeFails, Conclude, journal, git
  <1>13. CASE PromotionObserved \/ PromotionNotApplied
    BY <1>13 DEF PromotionObserved, PromotionNotApplied, git
  <1>14. CASE Verify
    BY <1>14 DEF Verify, git
  <1>15. CASE Promoted
    <2>1. \A t \in wave : task[t] # "staged"
      BY <1>15 DEF Promoted, ToPromote, In
    <2> QED BY <1>15, <2>1 DEF Promoted, journal, git
  <1>16. CASE PlanCleanup \/ InspectTree \/ CleanupObserved \/ CleanupUnknown
    BY <1>16 DEF PlanCleanup, InspectTree, CleanupObserved, CleanupUnknown, journal, git
  <1>17. CASE Remove
    BY <1>17 DEF Remove, journal, process
  <1>18. CASE Crash
    BY <1>18 DEF Crash
  <1>19. CASE UserCommits \/ UserEdits \/ UNCHANGED vars
    BY <1>19 DEF UserCommits, UserEdits, vars, journal, git, process
  <1>20. CASE \E t \in Task : Touch(t)
    BY <1>20 DEF Touch, journal, process
  <1> QED
    BY <1>1, <1>2, <1>3, <1>4, <1>5, <1>6, <1>7, <1>8, <1>9, <1>10, <1>11, <1>12, <1>13,
       <1>14, <1>15, <1>16, <1>17, <1>18, <1>19, <1>20, <1>21
    DEF Next, Coordinator, Waves, Staging, Promotion, Cleanup, Environment

LEMMA MadeOnExpectedStep ==
  ASSUME TypeOK, AtHand, WaveStates, MadeOnExpected, Known, Based,
         [Next]_vars
  PROVE  MadeOnExpected'
  <1> SUFFICES ASSUME NEW t \in Task, IsMade(t)'
               PROVE  /\ tree'[t] = "made" /\ base'[t] = expected'
                      /\ \A u \in Landed' : base'[u] < expected'
    BY DEF MadeOnExpected
  <1>0. t \in wave' /\ pc' \in Preparing
    BY DEF IsMade, Preparing
  <1>1. CASE Reserve
    BY <1>1 DEF Reserve, Goto, IsMade
  <1>2. CASE Prepare
    <2>1. at' \in ToPrepare /\ \A u \in ToPrepare : Position[at'] <= Position[u]
      BY <1>2, Picked, FirstIsFirst DEF Prepare
    <2>2. t \in wave /\ Position[t] < Position[at']
      BY <1>2 DEF Prepare, Goto, IsMade
    <2>3. Position[t] \in Nat /\ Position[at'] \in Nat
      BY <2>1, Picked, LandingAssumption
    <2>4. t \notin ToPrepare
      BY <2>1, <2>2, <2>3
    <2>5. at # None /\ ~ (Position[t] > Position[at])
      BY <2>2, <2>4 DEF ToPrepare
    <2>6. at \in Task
      BY <2>5 DEF TypeOK
    <2>7. IsMade(t)
      BY <1>2, <2>2, <2>5, <2>6, LandingAssumption DEF Prepare, IsMade
    <2> QED BY <1>2, <2>7 DEF MadeOnExpected, Prepare, git, Landed, By
  <1>3. CASE CreateAttempt
    <2>1. at \in Task /\ at \in wave /\ t \in wave /\ Position[t] <= Position[at]
      BY <1>3 DEF CreateAttempt, Goto, AtHand, TypeOK, IsMade
    <2>2. expected = Len(target) /\ Landed' = Landed
      BY <1>3 DEF CreateAttempt, TargetGuarded, Landed, By
    <2>3. at \notin Landed
      BY <1>3, <2>1 DEF CreateAttempt, WaveStates, Known, Preparing, Merged
    <2>4. \A u \in Landed : base[u] < expected
      <3> TAKE u \in Landed
      <3>1. PICK i \in DOMAIN target : u = By(i) /\ u \in Task
        BY DEF Landed
      <3>2. base[u] < i /\ base[u] \in Nat
        BY <3>1 DEF Based, TypeOK
      <3>3. i <= Len(target) /\ i \in Nat /\ Len(target) \in Nat
        BY <3>1 DEF TypeOK
      <3> QED BY <2>2, <3>2, <3>3
    <2>5. \A u \in Landed' : base'[u] < expected'
      <3> TAKE u \in Landed'
      <3>1. u \in Task /\ u # at /\ u \in Landed
        BY <2>2, <2>3 DEF Landed
      <3> QED BY <1>3, <2>4, <3>1 DEF CreateAttempt, TypeOK
    <2>6. CASE t = at
      BY <1>3, <2>5, <2>6 DEF CreateAttempt, TypeOK
    <2>7. CASE t # at
      <3>1. Position[t] # Position[at] /\ Position[t] \in Nat /\ Position[at] \in Nat
        BY <2>1, <2>7, LandingAssumption
      <3>2. IsMade(t)
        BY <1>3, <2>1, <3>1 DEF CreateAttempt, IsMade
      <3> QED BY <1>3, <2>5, <2>7, <3>2 DEF CreateAttempt, TypeOK, MadeOnExpected
    <2> QED BY <2>6, <2>7
  <1>4. CASE AttemptObserved
    BY <1>4 DEF AttemptObserved, Goto, git, IsMade, MadeOnExpected, Landed, By
  <1>5. CASE UserCommits \/ UserEdits \/ (\E u \in Task : Touch(u)) \/ UNCHANGED vars
    <2>1. UNCHANGED <<pc, wave, at, expected, base>>
      BY <1>5, Elsewhere
    <2>2. IsMade(t)
      BY <2>1 DEF IsMade
    <2>3. tree[t] = "made" /\ base[t] = expected /\ \A u \in Landed : base[u] < expected
      BY <2>2 DEF MadeOnExpected
    <2>4. Landed' = Landed
      BY <1>0, <2>1, BranchStep DEF Merge, Preparing
    <2>5. tree'[t] = "made"
      BY <1>5, <2>3 DEF UserCommits, UserEdits, Touch, vars, git, TypeOK
    <2> QED BY <2>1, <2>3, <2>4, <2>5
  <1> QED
    BY <1>0, <1>1, <1>2, <1>3, <1>4, <1>5 DEF Preparing, Goto, BlockRun, Next, process,
       Start, Environment, Crash, Coordinator, Waves, NothingToReserve, PrepareRaises,
       PrepareBlocked, Prepared, Work, WaveDone, Staging, Stage, StageRejected, StageResult,
       StageObserved, ResultStaged, StageAbsent, Staged, Promotion, PlanNext, PlanBlocked,
       Materialize, Accept, AcceptanceFailed, InspectFirst, GuardMerge, Merge, MergeFails,
       Conclude, PromotionObserved, PromotionNotApplied, Verify, Promoted, Cleanup,
       PlanCleanup, InspectTree, Remove, CleanupObserved, CleanupUnknown

LEMMA DependenciesDoneStep ==
  ASSUME TypeOK, AtHand, WaveStates, DependenciesDone, [Next]_vars
  PROVE  DependenciesDone'
  <1> SUFFICES ASSUME NEW t \in Task, task'[t] # "ready"
               PROVE  After[t] \subseteq In("verified")'
    BY DEF DependenciesDone
  <1>1. After[t] \subseteq In("verified")
    BY TaskMoves DEF DependenciesDone, Ready
  <1>2. In("verified") \subseteq In("verified")'
    BY TaskMoves DEF In
  <1> QED BY <1>1, <1>2

LEMMA KnownStep ==
  ASSUME TypeOK, AtHand, WaveStates, Known, PromotionKnown, [Next]_vars
  PROVE  Known'
  <1> SUFFICES ASSUME pc' # "down", NEW t \in Task, t \in Landed'
               PROVE  task'[t] \in {"promoted", "verified"} \/ (t = at' /\ pc' \in Merged)
    BY DEF Known, Landed
  <1>1. CASE Start
    BY <1>1 DEF Start, Admitted, Goto, git, Landed
  <1>2. CASE Merge
    <2>1. t \in Landed \/ t = at
      BY <1>2, BranchStep, Lands DEF UserCommits, Merge
    <2> QED BY <1>2, <2>1, TaskMoves DEF Merge, Known, Goto, Merged
  <1>3. CASE ~ Start /\ ~ Merge
    <2>1. t \in Landed
      BY <1>3, BranchStep
    <2>2. pc # "down"
      BY <1>3 DEF Next, Coordinator, Waves, Reserve, NothingToReserve, Prepare,
         CreateAttempt, AttemptObserved, PrepareRaises, PrepareBlocked, Prepared, Work,
         WaveDone, Staging, Stage, StageRejected, StageResult, StageObserved, ResultStaged,
         StageAbsent, Staged, Promotion, PlanNext, PlanBlocked, Materialize, Accept,
         AcceptanceFailed, InspectFirst, GuardMerge, MergeFails, Conclude, PromotionObserved,
         PromotionNotApplied, Verify, Promoted, Cleanup, PlanCleanup, InspectTree, Remove,
         CleanupObserved, CleanupUnknown, Environment, Crash, UserCommits, UserEdits, Touch,
         vars, process, Goto
    <2>3. CASE task[t] \in {"promoted", "verified"}
      BY <2>3, TaskMoves
    <2>4. CASE t = at /\ pc = "conclude"
      BY <1>3, <2>4 DEF Next, Coordinator, Waves, Reserve, NothingToReserve, Prepare,
         CreateAttempt, AttemptObserved, PrepareRaises, PrepareBlocked, Prepared, Work,
         WaveDone, Staging, Stage, StageRejected, StageResult, StageObserved, ResultStaged,
         StageAbsent, Staged, Promotion, PlanNext, PlanBlocked, Materialize, Accept,
         AcceptanceFailed, InspectFirst, GuardMerge, MergeFails, Conclude, PromotionObserved,
         PromotionNotApplied, Verify, Promoted, Cleanup, PlanCleanup, InspectTree, Remove,
         CleanupObserved, CleanupUnknown, Environment, Crash, UserCommits, UserEdits, Touch,
         vars, process, Goto, Merged
    <2>5. CASE t = at /\ pc = "observe"
      <3>1. \/ PromotionObserved \/ pc' = "down" \/ UNCHANGED <<pc, at>>
        BY <1>3, <2>5 DEF Next, Coordinator, Waves, Reserve, NothingToReserve, Prepare,
         CreateAttempt, AttemptObserved, PrepareRaises, PrepareBlocked, Prepared, Work,
         WaveDone, Staging, Stage, StageRejected, StageResult, StageObserved, ResultStaged,
         StageAbsent, Staged, Promotion, PlanNext, PlanBlocked, Materialize, Accept,
         AcceptanceFailed, InspectFirst, GuardMerge, MergeFails, Conclude, PromotionObserved,
         BlockRun, PromotionNotApplied, Verify, Promoted, Cleanup, PlanCleanup, InspectTree,
         Remove, CleanupObserved, CleanupUnknown, Environment, Crash, UserCommits, UserEdits,
         Touch, vars, process, Goto
      <3> QED BY <2>5, <3>1 DEF PromotionObserved, Becomes, TypeOK, Merged
    <2> QED BY <2>1, <2>2, <2>3, <2>4, <2>5 DEF Known, Merged
  <1> QED BY <1>1, <1>2, <1>3
------------------------------------------------------------------------------
(* What the journal says of a promotion.                                    *)

\* A promotion stays open, and an unknown one unknown, until it is observed.
LEMMA PromotionsOpen ==
  ASSUME [Next]_vars
  PROVE  /\ \A t \in Task : <<"promote", t>> \in open =>
              \/ <<"promote", t>> \in open'
              \/ t = at /\ (PromotionObserved \/ PromotionNotApplied)
         /\ unknown \subseteq unknown'
  BY DEF Next, vars, journal, Start, Environment, Crash, UserCommits, UserEdits, Touch,
     Coordinator, Waves, Reserve, NothingToReserve, Prepare, CreateAttempt, AttemptObserved,
     PrepareRaises, PrepareBlocked, Prepared, Work, WaveDone, Staging, Stage, StageRejected,
     StageResult, StageObserved, ResultStaged, StageAbsent, Staged, Promotion, PlanNext,
     PlanBlocked, Materialize, Accept, AcceptanceFailed, InspectFirst, GuardMerge, Merge,
     MergeFails, Conclude, PromotionObserved, PromotionNotApplied, Verify, Promoted, Cleanup,
     PlanCleanup, InspectTree, Remove, CleanupObserved, CleanupUnknown, Request, Observed

\* The candidate is not on the branch before it is merged.
LEMMA NotYetLanded ==
  ASSUME TypeOK, AtHand, Known, pc \in Unmerged
  PROVE  at \in wave /\ at \in Task /\ task[at] = "staged" /\ at \notin Landed
  BY DEF TypeOK, AtHand, Known, Handling, Promoting, Unmerged, Merged

\* An inspection that says APPLIED saw the candidate on the branch.
LEMMA InspectionSound ==
  ASSUME TypeOK, AtHand, pc \in {"inspect", "conclude"}, Inspect
  PROVE  /\ seen' = "APPLIED" => at \in Landed
         /\ seen' = "ABSENT" => Len(target) = on
         /\ seen' # None
  <1>1. at \in Task
    BY DEF TypeOK, AtHand, Handling, Promoting, Unmerged
  <1>2. Contains => at \in Landed
    <2> SUFFICES ASSUME Contains PROVE at \in Landed
      OBVIOUS
    <2>1. on + 1 \in DOMAIN target
      BY DEF Contains, TypeOK
    <2> QED BY <1>1, <2>1 DEF Contains, Landed
  <1> QED BY <1>2 DEF Inspect, Inspected, None

LEMMA PromotionKnownStep ==
  ASSUME TypeOK, AtHand, Known, PromotionKnown, Candidate, [Next]_vars
  PROVE  PromotionKnown'
  <1> USE DEF PromotionKnown, Goto, Handling, Promoting, Unmerged
  <1>1. CASE Start \/ Crash
    BY <1>1 DEF Start, Crash
  <1>2. CASE Waves
    BY <1>2 DEF Waves, Reserve, NothingToReserve, Prepare, CreateAttempt, AttemptObserved,
       PrepareRaises, PrepareBlocked, Prepared, BlockRun, Work, WaveDone
  <1>3. CASE Staging
    BY <1>3 DEF Staging, Stage, StageRejected, StageResult, StageObserved, ResultStaged,
       StageAbsent, Staged, BlockRun, process
  <1>4. CASE PlanNext \/ PlanBlocked \/ Materialize \/ AcceptanceFailed \/ Promoted
             \/ Verify \/ PromotionObserved
    BY <1>4 DEF PlanNext, PlanBlocked, Materialize, AcceptanceFailed, Promoted, Verify,
       PromotionObserved, BlockRun
  <1>5. CASE PromotionNotApplied
    BY <1>5 DEF PromotionNotApplied, BlockRun
  <1>6. CASE Accept
    BY <1>6 DEF Accept, Request
  <1>7. CASE InspectFirst
    <2>1. at \notin Landed /\ Landed' = Landed
      BY <1>7, NotYetLanded DEF InspectFirst, git, Landed, By
    <2>2. seen' # None
      BY <1>7, InspectionSound DEF InspectFirst
    <2>3. seen' = "APPLIED" => at \in Landed
      BY <1>7, InspectionSound DEF InspectFirst
    <2> QED BY <1>7, <2>1, <2>2, <2>3 DEF InspectFirst, journal
  <1>14. CASE GuardMerge
    BY <1>14 DEF GuardMerge, journal
  <1>8. CASE Merge
    <2>1. Len(target') = Len(target) + 1 /\ Len(target) = on /\ on \in Nat
      BY <1>8 DEF Merge, FastForwards, TypeOK
    <2>2. at' = at /\ open' = open /\ on' = on /\ pc' = "conclude"
      BY <1>8 DEF Merge, journal
    <2>3. <<"promote", at>> \in open
      BY <1>8 DEF Merge
    <2> QED BY <2>1, <2>2, <2>3
  <1>9. CASE MergeFails
    <2>1. at \notin Landed /\ Landed' = Landed
      BY <1>9, NotYetLanded DEF MergeFails, git, Landed, By
    <2>2. at' = at /\ open' = open /\ pc' = "conclude"
      BY <1>9 DEF MergeFails, journal
    <2>3. <<"promote", at>> \in open
      BY <1>9 DEF MergeFails
    <2> QED BY <2>1, <2>2, <2>3
  <1>10. CASE Conclude
    <2>1. Landed' = Landed
      BY <1>10 DEF Conclude, git, Landed, By
    <2>2. seen' # None
      BY <1>10, InspectionSound DEF Conclude
    <2>3. seen' = "APPLIED" => at \in Landed
      BY <1>10, InspectionSound DEF Conclude
    <2>4. seen' = "ABSENT" => at \notin Landed
      BY <1>10, InspectionSound DEF Conclude, TypeOK
    <2> QED BY <1>10, <2>1, <2>2, <2>3, <2>4 DEF Conclude, journal
  <1>11. CASE Cleanup
    BY <1>11 DEF Cleanup, PlanCleanup, InspectTree, Remove, CleanupObserved, CleanupUnknown,
       process
  <1>12. CASE UserEdits \/ (\E t \in Task : Touch(t)) \/ UNCHANGED vars
    <2>1. target' = target /\ Landed' = Landed
      BY <1>12 DEF UserEdits, Touch, vars, git, Landed, By
    <2> QED BY <1>12, <2>1, Elsewhere
  <1>13. CASE UserCommits
    <2>1. Landed' = Landed
      BY <1>13, BranchStep DEF Merge, UserCommits, process
    <2>2. PICK p \in Path : target' = Append(target, [by |-> User, writes |-> {p}])
      BY <1>13 DEF UserCommits
    <2>3. [by |-> User, writes |-> {p}] \in Commits
      BY DEF Commits
    <2>4. Len(target') = Len(target) + 1 /\ Len(target) \in Nat /\ on \in Nat
      BY <2>2, <2>3, Lands DEF TypeOK
    <2> QED BY <1>13, <2>1, <2>4, Elsewhere
  <1> QED
    BY <1>1, <1>2, <1>3, <1>4, <1>5, <1>6, <1>7, <1>8, <1>9, <1>10, <1>11, <1>12, <1>13,
       <1>14
    DEF Next, Coordinator, Promotion, Environment

LEMMA RecordedAsLandedStep ==
  ASSUME TypeOK, AtHand, WaveStates, PromotionKnown, RecordedAsLanded, [Next]_vars
  PROVE  RecordedAsLanded'
  <1>1. Landed \subseteq Landed'
    BY BranchStep
  <1>2. ASSUME NEW t \in Task, task'[t] \in {"promoted", "verified"}
        PROVE  t \in Landed'
    <2>1. CASE task[t] \in {"promoted", "verified"}
      BY <1>1, <2>1 DEF RecordedAsLanded, In
    <2>2. CASE PromotionObserved /\ t = at
      BY <1>1, <2>2 DEF PromotionObserved, PromotionKnown
    <2>3. CASE Verify /\ t = at
      BY <1>1, <2>3 DEF Verify, AtHand, RecordedAsLanded, In
    <2> QED BY <1>2, <2>1, <2>2, <2>3, TaskMoves
  <1>3. ASSUME NEW t \in Task, t \in Landed'
        PROVE  \/ t \in (In("promoted") \cup In("verified") \cup unknown)'
               \/ <<"promote", t>> \in open'
    <2>1. CASE Merge /\ t = at
      BY <2>1 DEF Merge, PromotionKnown, Handling, Promoting, Unmerged, journal
    <2>2. CASE t \in Landed /\ task[t] \in {"promoted", "verified"}
      BY <2>2, TaskMoves DEF In
    <2>3. CASE t \in unknown
      BY <2>3, PromotionsOpen
    <2>4. CASE t \in Landed /\ <<"promote", t>> \in open
      <3>1. CASE <<"promote", t>> \in open'
        BY <3>1
      <3>2. CASE t = at /\ PromotionObserved
        BY <3>2 DEF PromotionObserved, Becomes, TypeOK, In
      <3>3. CASE t = at /\ PromotionNotApplied
        BY <2>4, <3>3 DEF PromotionNotApplied, PromotionKnown, TypeOK
      <3> QED BY <2>4, <3>1, <3>2, <3>3, PromotionsOpen
    <2> QED BY <1>3, <2>1, <2>2, <2>3, <2>4, BranchStep DEF RecordedAsLanded, In
  <1>4. (In("promoted") \cup In("verified"))' \subseteq Landed'
    BY <1>2 DEF In
  <1>5. Landed' \subseteq Task
    BY DEF Landed
  <1> QED BY <1>3, <1>4, <1>5 DEF RecordedAsLanded

LEMMA RemovedOnlyLandedStep ==
  ASSUME TypeOK, AtHand, WaveStates, RecordedAsLanded, RemovedOnlyLanded, [Next]_vars
  PROVE  RemovedOnlyLanded'
  <1> SUFFICES ASSUME NEW t \in Task, tree'[t] = "gone"
               PROVE  t \in (Landed \cap In("verified"))'
    BY DEF RemovedOnlyLanded
  <1>1. tree[t] = "gone" \/ (Remove /\ t = at)
    BY DEF TypeOK, Next, vars, git, Start, Environment, Crash, UserCommits, UserEdits, Touch,
       Coordinator, Waves, Reserve, NothingToReserve, Prepare, CreateAttempt,
       AttemptObserved, PrepareRaises, PrepareBlocked, Prepared, Work, WaveDone, Staging,
       Stage, StageRejected, StageResult, StageObserved, ResultStaged, StageAbsent, Staged,
       Promotion, PlanNext, PlanBlocked, Materialize, Accept, AcceptanceFailed, InspectFirst,
       GuardMerge, Merge, MergeFails, Conclude, PromotionObserved, PromotionNotApplied,
       Verify, Promoted, Cleanup, PlanCleanup, InspectTree, Remove, CleanupObserved,
       CleanupUnknown
  <1>2. t \in Landed \cap In("verified")
    <2>1. CASE tree[t] = "gone"
      BY <2>1 DEF RemovedOnlyLanded
    <2>2. CASE Remove /\ t = at
      <3>1. task[t] = "verified"
        BY <2>2 DEF Remove, AtHand, WaveStates, Cleaning, Results
      <3> QED BY <3>1 DEF In, RecordedAsLanded
    <2> QED BY <1>1, <2>1, <2>2
  <1> QED BY <1>2, TaskMoves, BranchStep DEF In
------------------------------------------------------------------------------
(* What a result is computed on, and what it lands on.                      *)

\* The commit that a step adds to the branch.
LEMMA BranchGrows ==
  ASSUME TypeOK, AtHand, [Next]_vars
  PROVE  \/ target' = target
         \/ \E c \in Commits :
              /\ target' = Append(target, c)
              /\ \/ Merge /\ c = [by |-> at, writes |-> writes[at]] /\ at \in Task
                 \/ UserCommits /\ c.by \notin Task
  <1>1. CASE Merge
    <2>1. at \in Task
      BY <1>1 DEF Merge, AtHand, Handling, Promoting, Unmerged, TypeOK
    <2>2. [by |-> at, writes |-> writes[at]] \in Commits
      BY <2>1 DEF TypeOK, Commits
    <2> QED BY <1>1, <2>1, <2>2 DEF Merge
  <1>2. CASE UserCommits
    <2>1. PICK p \in Path : target' = Append(target, [by |-> User, writes |-> {p}])
      BY <1>2 DEF UserCommits
    <2>2. [by |-> User, writes |-> {p}] \in Commits
      BY DEF Commits
    <2> QED BY <1>2, <2>1, <2>2, LandingAssumption
  <1> QED BY <1>1, <1>2, BranchStep

\* The branch only grows: what is on it stays where it is.
LEMMA BranchKept ==
  ASSUME TypeOK, AtHand, [Next]_vars
  PROVE  /\ Len(target) \in Nat /\ Len(target') \in Nat /\ Len(target) <= Len(target')
         /\ DOMAIN target = 1..Len(target) /\ DOMAIN target' = 1..Len(target')
         /\ \A i \in 1..Len(target) : target'[i] = target[i]
  <1>1. target \in Seq(Commits)
    BY DEF TypeOK
  <1>2. CASE target' = target
    BY <1>1, <1>2
  <1>3. CASE \E c \in Commits : target' = Append(target, c)
    BY <1>1, <1>3
  <1> QED BY <1>2, <1>3, BranchGrows

\* A worktree is created on the head of the branch, for a task that has not landed.
LEMMA BaseMoves ==
  ASSUME TypeOK, AtHand, WaveStates, Known, [Next]_vars
  PROVE  \/ base' = base
         \/ /\ CreateAttempt
            /\ at \notin Landed
            /\ \A t \in Task : base'[t] = IF t = at THEN Len(target) ELSE base[t]
  <1>1. CASE CreateAttempt
    <2>1. at \notin Landed
      BY <1>1 DEF CreateAttempt, AtHand, WaveStates, Known, Preparing, Merged
    <2> QED BY <1>1, <2>1 DEF CreateAttempt, TargetGuarded, TypeOK
  <1>2. CASE ~ CreateAttempt
    BY <1>2 DEF Next, vars, git, Start, Environment, Crash, UserCommits, UserEdits, Touch,
       Coordinator, Waves, Reserve, NothingToReserve, Prepare, AttemptObserved, PrepareRaises,
       PrepareBlocked, Prepared, Work, WaveDone,
       Staging, Stage, StageRejected, StageResult, StageObserved, ResultStaged, StageAbsent,
       Staged, Promotion, PlanNext, PlanBlocked, Materialize, Accept, AcceptanceFailed,
       InspectFirst, GuardMerge, Merge, MergeFails, Conclude, PromotionObserved,
       PromotionNotApplied, Verify, Promoted, Cleanup, PlanCleanup, InspectTree, Remove,
       CleanupObserved, CleanupUnknown
  <1> QED BY <1>1, <1>2

LEMMA BasedStep ==
  ASSUME TypeOK, TypeOK', AtHand, WaveStates, Known, Candidate, Based, [Next]_vars
  PROVE  Based'
  <1>1. \A t \in Task : base'[t] <= Len(target')
    <2> TAKE t \in Task
    <2>1. base[t] \in Nat /\ base[t] <= Len(target)
      BY DEF Based, TypeOK
    <2>2. base'[t] = base[t] \/ base'[t] = Len(target)
      BY BaseMoves
    <2>3. Len(target) \in Nat /\ Len(target') \in Nat /\ Len(target) <= Len(target')
      BY BranchKept
    <2> QED BY <2>1, <2>2, <2>3
  <1>2. ASSUME NEW i \in DOMAIN target, By(i) \in Task
        PROVE  base'[By(i)] < i
    BY <1>2, BaseMoves DEF Based, Landed
  <1>3. ASSUME NEW i \in DOMAIN target', By(i)' \in Task
        PROVE  base'[By(i)'] < i
    <2>1. CASE i \in DOMAIN target
      BY <1>2, <1>3, <2>1, BranchKept DEF By
    <2>2. CASE i \notin DOMAIN target
      <3>1. PICK c \in Commits :
              /\ target' = Append(target, c)
              /\ \/ Merge /\ c = [by |-> at, writes |-> writes[at]] /\ at \in Task
                 \/ UserCommits /\ c.by \notin Task
        BY <2>2, BranchGrows
      <3>2. i = Len(target) + 1 /\ target'[i] = c
        BY <2>2, <3>1, Lands
      <3>3. Merge /\ By(i)' = at
        BY <1>3, <3>1, <3>2 DEF By
      <3>4. base' = base /\ base[at] <= on /\ on <= Len(target)
        BY <3>3 DEF Merge, Candidate, Unmerged
      <3>5. base[at] \in Nat /\ on \in Nat /\ Len(target) \in Nat
        BY <3>1, <3>3, BranchKept DEF TypeOK, Merge, AtHand, Handling, Promoting, Unmerged
      <3> QED BY <3>2, <3>3, <3>4, <3>5
    <2> QED BY <2>1, <2>2
  <1> QED BY <1>1, <1>3 DEF Based

LEMMA CandidateStep ==
  ASSUME TypeOK, AtHand, Based, Candidate, [Next]_vars
  PROVE  Candidate'
  <1> USE DEF Candidate, Goto, Unmerged
  <1>1. CASE PlanNext
    <2>1. at' \in ToPromote /\ \A u \in ToPromote : Position[at'] <= Position[u]
      BY <1>1, Picked, FirstIsFirst DEF PlanNext, NextStaged
    <2>2. on' = Len(target) /\ expected' = expected /\ on' = expected
      BY <1>1 DEF PlanNext, TargetGuarded
    <2>3. at' \in Task /\ base[at'] <= Len(target)
      BY <2>1 DEF Based, ToPromote, TypeOK
    <2>4. \A j \in (base[at'] + 1)..on' : target[j].writes \cap writes[at'] = {}
      BY <1>1, <2>2 DEF PlanNext, UpToDate
    <2>5. UNCHANGED <<task, target, base, writes, wave>> /\ pc' = "candidate"
      BY <1>1 DEF PlanNext, journal, git
    <2>6. on' <= Len(target) /\ Len(target) \in Nat
      BY <2>2 DEF TypeOK
    <2> QED BY <2>1, <2>2, <2>3, <2>4, <2>5, <2>6 DEF ToPromote, In
  <1>2. CASE Accept
    BY <1>2 DEF Accept, Request, git, In
  <1>3. CASE InspectFirst \/ Materialize \/ GuardMerge
    BY <1>3 DEF InspectFirst, Materialize, GuardMerge, journal, git, In
  <1>4. CASE UserCommits \/ UserEdits \/ (\E t \in Task : Touch(t)) \/ UNCHANGED vars
    <2>1. UNCHANGED <<task, pc, wave, at, on, expected, accepted, base, writes>>
      BY <1>4, Elsewhere
    <2>2. pc \in Unmerged =>
            /\ on <= Len(target')
            /\ \A j \in (base[at] + 1)..on : target'[j] = target[j]
      <3> SUFFICES ASSUME pc \in Unmerged
                   PROVE  /\ on <= Len(target')
                          /\ \A j \in (base[at] + 1)..on : target'[j] = target[j]
        OBVIOUS
      <3>1. at \in Task /\ base[at] \in Nat /\ on \in Nat /\ on <= Len(target)
        BY DEF AtHand, Handling, Promoting, TypeOK
      <3> QED BY <3>1, BranchKept
    <2> QED BY <2>1, <2>2 DEF In
  <1>5. CASE pc' \notin Unmerged
    BY <1>5
  <1> QED
    BY <1>1, <1>2, <1>3, <1>4, <1>5
    DEF Next, Start, Environment, Crash, Coordinator, Waves, Reserve, NothingToReserve,
       Prepare, CreateAttempt, AttemptObserved, PrepareRaises, PrepareBlocked, Prepared,
       Work, WaveDone, Staging, Stage, StageRejected, StageResult, StageObserved,
       ResultStaged, StageAbsent, Staged, Promotion, PlanBlocked, AcceptanceFailed, Merge,
       MergeFails, Conclude, PromotionObserved, PromotionNotApplied, Verify, Promoted,
       Cleanup, PlanCleanup, InspectTree, Remove, CleanupObserved, CleanupUnknown, BlockRun,
       process

LEMMA NoLostUpdateStep ==
  ASSUME TypeOK, TypeOK', AtHand, WaveStates, Known, Candidate, NoLostUpdate, [Next]_vars
  PROVE  NoLostUpdate'
  <1> SUFFICES ASSUME NEW i \in DOMAIN target', NEW j \in 1..(i - 1),
                      By(i)' \in Task, j > base'[By(i)']
               PROVE  target'[j].writes \cap target'[i].writes = {}
    BY DEF NoLostUpdate
  <1>1. CASE i \in DOMAIN target
    <2>1. By(i)' = By(i) /\ target'[i] = target[i] /\ target'[j] = target[j]
      BY <1>1, BranchKept DEF By
    <2>2. base'[By(i)] = base[By(i)]
      BY <1>1, <2>1, BaseMoves DEF Landed
    <2> QED BY <1>1, <2>1, <2>2 DEF NoLostUpdate
  <1>2. CASE i \notin DOMAIN target
    <2>1. PICK c \in Commits :
            /\ target' = Append(target, c)
            /\ \/ Merge /\ c = [by |-> at, writes |-> writes[at]] /\ at \in Task
               \/ UserCommits /\ c.by \notin Task
      BY <1>2, BranchGrows
    <2>2. i = Len(target) + 1 /\ target'[i] = c
      BY <1>2, <2>1, Lands
    <2>3. Merge /\ By(i)' = at /\ target'[i].writes = writes[at]
      BY <2>1, <2>2 DEF By
    <2>4. base' = base /\ on = Len(target)
      BY <2>3 DEF Merge, FastForwards
    <2>5. j \in (base[at] + 1)..on /\ target'[j] = target[j]
      BY <2>1, <2>2, <2>3, <2>4, BranchKept DEF TypeOK
    <2> QED BY <2>3, <2>5 DEF Merge, Candidate, Unmerged
  <1> QED BY <1>1, <1>2
------------------------------------------------------------------------------
(* The order in which results land.                                         *)

\* From its worktrees to its last landing the wave stays what it is.
LEMMA WaveStays ==
  ASSUME [Next]_vars, pc' \in Placed
  PROVE  Prepared \/ (pc \in Placed /\ wave' = wave /\ base' = base)
  BY DEF Placed, Promoting, Unmerged, Goto, BlockRun, Next, vars, git, process, Start,
     Environment, Crash, UserCommits, UserEdits, Touch, Coordinator, Waves, Reserve,
     NothingToReserve, Prepare, CreateAttempt, AttemptObserved, PrepareRaises, PrepareBlocked,
     Work, WaveDone, Staging, Stage, StageRejected,
     StageResult, StageObserved, ResultStaged, StageAbsent, Staged, Promotion, PlanNext,
     PlanBlocked, Materialize, Accept, AcceptanceFailed, InspectFirst, GuardMerge, Merge,
     MergeFails, Conclude, PromotionObserved, PromotionNotApplied, Verify, Promoted, Cleanup,
     PlanCleanup, InspectTree, Remove, CleanupObserved, CleanupUnknown

\* What lands precedes what its wave has left to land.
LEMMA MergedPrecedes ==
  ASSUME TypeOK, AtHand, WaveStates, Candidate, InOrder, RecordedAsLanded, Merge,
         NEW t \in wave, t \notin Landed, t # at, task[t] # "blocked"
  PROVE  Precedes(at, t)
  <1>1. at \in wave /\ at \in Task /\ t \in Task
    BY DEF Merge, AtHand, Handling, Promoting, Unmerged, TypeOK
  <1>2. task[t] = "staged"
    <2>1. task[t] \in {"staged", "verified"}
      BY DEF Merge, WaveStates, Promoting, Unmerged
    <2> QED BY <1>1, <2>1 DEF RecordedAsLanded, In
  <1>3. Position[at] <= Position[t]
    BY <1>1, <1>2 DEF Merge, Candidate, Unmerged, In
  <1>4. Position[at] # Position[t] /\ Position[at] \in Nat /\ Position[t] \in Nat
    BY <1>1, LandingAssumption
  <1>5. base[t] = base[at]
    BY <1>1 DEF InOrder, Placed, Merge, Promoting, Unmerged
  <1> QED BY <1>3, <1>4, <1>5 DEF Precedes

LEMMA InOrderStep ==
  ASSUME TypeOK, AtHand, WaveStates, MadeOnExpected, Known, Candidate, Based, InOrder,
         RecordedAsLanded, [Next]_vars
  PROVE  InOrder'
  <1> SUFFICES ASSUME pc' \in Placed
               PROVE  /\ \A t, u \in wave' : base'[t] = base'[u]
                      /\ \A t \in wave', u \in Landed' :
                           t \notin Landed' /\ task'[t] # "blocked" => Precedes(u, t)'
    BY DEF InOrder
  <1>1. CASE Prepared
    <2>1. /\ wave' = wave /\ wave \subseteq Task /\ base' = base
          /\ Landed' = Landed
      BY <1>1 DEF Prepared, git, TypeOK, Landed, By
    <2>2. \A t \in wave : IsMade(t)
      BY <1>1, LandingAssumption DEF Prepared, ToPrepare, IsMade, TypeOK
    <2>3. \A t \in wave : base[t] = expected /\ \A u \in Landed : base[u] < expected
      BY <2>1, <2>2 DEF MadeOnExpected
    <2> QED BY <2>1, <2>3 DEF Precedes
  <1>2. CASE pc \in Placed /\ wave' = wave /\ base' = base
    <2>1. \A t, u \in wave' : base'[t] = base'[u]
      BY <1>2 DEF InOrder
    <2>2. ASSUME NEW t \in wave, NEW u \in Landed', t \notin Landed', task'[t] # "blocked"
          PROVE  Precedes(u, t)'
      <3>1. t \in Task /\ task[t] # "blocked" /\ t \notin Landed
        BY <2>2, TaskMoves, BranchStep DEF TypeOK
      <3>2. CASE u \in Landed
        BY <1>2, <3>1, <3>2 DEF InOrder, Precedes
      <3>3. CASE Merge /\ u = at /\ Landed' = Landed \cup {at}
        <4>1. t # at
          BY <2>2, <3>3
        <4> QED BY <1>2, <3>1, <3>3, <4>1, MergedPrecedes DEF Precedes
      <3> QED BY <2>2, <3>2, <3>3, BranchStep
    <2> QED BY <1>2, <2>1, <2>2
  <1> QED BY <1>1, <1>2, WaveStays

LEMMA InGraphOrderStep ==
  ASSUME TypeOK, AtHand, WaveStates, Known, InOrder, InGraphOrder, [Next]_vars
  PROVE  InGraphOrder'
  <1> SUFFICES ASSUME NEW i \in DOMAIN target', NEW j \in DOMAIN target', i < j,
                      By(i)' \in Task, By(j)' \in Task, base'[By(i)'] = base'[By(j)']
               PROVE  Position[By(i)'] < Position[By(j)']
    BY DEF InGraphOrder
  <1>1. i \in 1..Len(target') /\ j \in 1..Len(target') /\ DOMAIN target = 1..Len(target)
    BY BranchKept
  <1>2. CASE j \in DOMAIN target
    <2>1. i \in DOMAIN target
      BY <1>1, <1>2, BranchKept
    <2>2. By(i)' = By(i) /\ By(j)' = By(j)
      BY <1>1, <1>2, <2>1, BranchKept DEF By
    <2>3. base'[By(i)] = base[By(i)] /\ base'[By(j)] = base[By(j)]
      BY <1>2, <2>1, <2>2, BaseMoves DEF Landed
    <2> QED BY <1>2, <2>1, <2>2, <2>3 DEF InGraphOrder
  <1>3. CASE j \notin DOMAIN target
    <2>1. PICK c \in Commits :
            /\ target' = Append(target, c)
            /\ \/ Merge /\ c = [by |-> at, writes |-> writes[at]] /\ at \in Task
               \/ UserCommits /\ c.by \notin Task
      BY <1>3, BranchGrows
    <2>2. j = Len(target) + 1 /\ target'[j] = c
      BY <1>3, <2>1, Lands
    <2>3. Merge /\ By(j)' = at
      BY <2>1, <2>2 DEF By
    <2>4. i \in DOMAIN target /\ By(i)' = By(i)
      BY <1>1, <2>2, BranchKept DEF By
    <2>5. By(i) \in Landed /\ at \notin Landed /\ at \in wave /\ task[at] = "staged"
      BY <2>3, <2>4, NotYetLanded DEF Merge, Unmerged, Landed
    <2>6. Precedes(By(i), at)
      BY <2>3, <2>5 DEF InOrder, Placed, Merge, Promoting, Unmerged
    <2>7. base' = base /\ base[By(i)] = base[at] /\ base[at] \in Nat
      BY <2>1, <2>3, <2>4 DEF Merge, TypeOK
    <2> QED BY <2>3, <2>4, <2>6, <2>7 DEF Precedes
  <1> QED BY <1>2, <1>3

------------------------------------------------------------------------------
(* The theorems.                                                            *)

LEMMA InvariantInit == Init => IInv
  <1> SUFFICES ASSUME Init PROVE IInv
    OBVIOUS
  <1>1. TypeOK
    BY TypeInit
  <1>2. target = <<>> /\ DOMAIN target = {} /\ Landed = {} /\ Len(target) = 0
    BY DEF Init, Landed
  <1>3. \A t \in Task : task[t] = "ready" /\ tree[t] = "none" /\ base[t] = 0
    BY DEF Init
  <1>4. In("promoted") = {} /\ In("verified") = {} /\ wave = {} /\ pc = "down"
    BY <1>3 DEF Init, In
  <1>5. AtHand /\ WaveStates /\ DependenciesDone /\ Known /\ PromotionKnown
    BY <1>3, <1>4 DEF AtHand, WaveStates, DependenciesDone, Known, PromotionKnown, Handling,
       Promoting, Unmerged, Preparing, Cleaning
  <1>9. MadeOnExpected
    BY <1>4 DEF MadeOnExpected, IsMade
  <1>6. Candidate /\ InOrder
    BY <1>4 DEF Candidate, InOrder, Placed, Promoting, Unmerged
  <1>7. Based /\ NoLostUpdate /\ InGraphOrder
    BY <1>2, <1>3 DEF Based, NoLostUpdate, InGraphOrder
  <1>8. RecordedAsLanded /\ RemovedOnlyLanded
    BY <1>2, <1>3, <1>4 DEF RecordedAsLanded, RemovedOnlyLanded
  <1> QED BY <1>1, <1>5, <1>6, <1>7, <1>8, <1>9 DEF IInv

LEMMA InvariantStep == IInv /\ [Next]_vars => IInv'
  <1> SUFFICES ASSUME IInv, [Next]_vars PROVE IInv'
    OBVIOUS
  <1> USE DEF IInv
  <1>1. TypeOK'
    BY TypeStep
  <1>2. AtHand' /\ WaveStates' /\ DependenciesDone'
    BY AtHandStep, WaveStatesStep, DependenciesDoneStep
  <1>7. MadeOnExpected'
    BY MadeOnExpectedStep
  <1>3. Known' /\ PromotionKnown'
    BY KnownStep, PromotionKnownStep
  <1>4. Candidate' /\ Based' /\ InOrder'
    BY <1>1, CandidateStep, BasedStep, InOrderStep
  <1>5. RecordedAsLanded' /\ RemovedOnlyLanded'
    BY RecordedAsLandedStep, RemovedOnlyLandedStep
  <1>6. NoLostUpdate' /\ InGraphOrder'
    BY <1>1, NoLostUpdateStep, InGraphOrderStep
  <1> QED BY <1>1, <1>2, <1>3, <1>4, <1>5, <1>6, <1>7

\* The inductive invariant: what the place of the coordinator is worth.
THEOREM InvariantAlways == Spec => []IInv
  BY InvariantInit, InvariantStep, PTL DEF Spec

\* Every variable stays in its type.
THEOREM TypeCorrect == Spec => []TypeOK
  <1>1. IInv => TypeOK
    BY DEF IInv
  <1> QED BY <1>1, InvariantAlways, PTL

\* The journal never says of a landing what is not so, and of what landed it says
\* so, or names a promotion for an operator to look at: wherever the coordinator
\* dies and whatever the user commits.
THEOREM RecordedAsLandedAlways == Spec => []RecordedAsLanded
  <1>1. IInv => RecordedAsLanded
    BY DEF IInv
  <1> QED BY <1>1, InvariantAlways, PTL

\* No landing overwrites what landed, or was committed, after its worktree was
\* created.
THEOREM NoLostUpdateAlways == Spec => []NoLostUpdate
  <1>1. IInv => NoLostUpdate
    BY DEF IInv
  <1> QED BY <1>1, InvariantAlways, PTL

\* Results computed on one commit land in the order of the graph.
THEOREM InGraphOrderAlways == Spec => []InGraphOrder
  <1>1. IInv => InGraphOrder
    BY DEF IInv
  <1> QED BY <1>1, InvariantAlways, PTL

\* No worktree is removed before its result is on the branch and verified in the
\* journal.
THEOREM RemovedOnlyLandedAlways == Spec => []RemovedOnlyLanded
  <1>1. IInv => RemovedOnlyLanded
    BY DEF IInv
  <1> QED BY <1>1, InvariantAlways, PTL
------------------------------------------------------------------------------
(* The program keeps the contract of the target branch.                     *)

\* Who made each commit of the branch, which is all the contract speaks of.
Makers == [i \in DOMAIN target |-> By(i)]

LEMMA MakersLanded == Contract!Landed = Landed
  BY DEF Contract!Landed, Landed, By

LEMMA MakersOf ==
  ASSUME NEW s \in Seq(Commits)
  PROVE  /\ [i \in DOMAIN s |-> s[i].by] \in Seq(Task \cup {User})
         /\ Len([i \in DOMAIN s |-> s[i].by]) = Len(s)
  <1> DEFINE m == [i \in 1..Len(s) |-> s[i].by]
  <1>1. DOMAIN s = 1..Len(s) /\ Len(s) \in Nat /\ \A i \in 1..Len(s) : s[i] \in Commits
    OBVIOUS
  <1>2. \A i \in 1..Len(s) : s[i].by \in Task \cup {User}
    BY <1>1 DEF Commits
  <1>3. m \in [1..Len(s) -> Task \cup {User}]
    BY <1>2
  <1>4. m \in Seq(Task \cup {User})
    BY <1>1, <1>3
  <1>5. Len(m) = Len(s)
    BY <1>1, <1>4
  <1> QED BY <1>1, <1>4, <1>5

LEMMA MakersGrow ==
  ASSUME TypeOK, NEW c \in Commits, target' = Append(target, c)
  PROVE  Makers' = Append(Makers, c.by)
  <1>1. target \in Seq(Commits)
    BY DEF TypeOK
  <1>2. Makers \in Seq(Task \cup {User}) /\ Len(Makers) = Len(target)
    BY <1>1, MakersOf DEF Makers, By
  <1>3. c.by \in Task \cup {User}
    BY DEF Commits
  <1>4. Append(Makers, c.by) \in Seq(Task \cup {User})
    BY <1>2, <1>3
  <1>5. Makers' \in Seq(Task \cup {User}) /\ Len(Makers') = Len(target) + 1
    <2>1. target' \in Seq(Commits) /\ Len(target') = Len(target) + 1
      BY <1>1
    <2>2. Makers' = [i \in DOMAIN target' |-> target'[i].by]
      BY DEF Makers, By
    <2> QED BY <2>1, <2>2, MakersOf
  <1>6. \A i \in 1..(Len(target) + 1) : Makers'[i] = Append(Makers, c.by)[i]
    BY <1>2, <1>3, Lands DEF Makers, By
  <1> QED BY <1>2, <1>3, <1>4, <1>5, <1>6

LEMMA ContractStep ==
  ASSUME IInv, [Next]_vars
  PROVE  [Contract!Next]_<<Makers, accepted>>
  <1> USE DEF IInv
  <1>1. CASE Merge
    <2>1. at \in Task /\ task[at] = "staged" /\ at \notin Landed
      BY <1>1, NotYetLanded DEF Merge, Unmerged
    <2>2. After[at] \subseteq Landed
      BY <2>1 DEF DependenciesDone, RecordedAsLanded
    <2>3. <<at, Len(target)>> \in accepted
      BY <1>1 DEF Merge, FastForwards, Candidate, Unmerged
    <2>4. [by |-> at, writes |-> writes[at]] \in Commits
      BY <2>1 DEF TypeOK, Commits
    <2>5. Makers' = Append(Makers, at) /\ accepted' = accepted
      BY <1>1, <2>4, MakersGrow DEF Merge
    <2>6. Len(Makers) = Len(target)
      BY DEF Makers, By, TypeOK
    <2>7. Contract!Land(at)
      BY <2>1, <2>2, <2>3, <2>5, <2>6, MakersLanded DEF Contract!Land, Makers
    <2> QED BY <2>1, <2>7 DEF Contract!Next
  <1>2. CASE UserCommits
    <2>1. PICK c \in Commits : target' = Append(target, c) /\ c.by = User
      <3>1. PICK p \in Path : target' = Append(target, [by |-> User, writes |-> {p}])
        BY <1>2 DEF UserCommits
      <3> QED BY <3>1 DEF Commits
    <2>2. Makers' = Append(Makers, User) /\ accepted' = accepted
      BY <1>2, <2>1, MakersGrow DEF UserCommits
    <2> QED BY <2>2 DEF Contract!Next, Contract!Commit, Makers
  <1>3. CASE Accept
    <2>1. at \in Task /\ on \in 0..Len(target) /\ accepted' = accepted \cup {<<at, on>>}
      BY <1>3, NotYetLanded DEF Accept, Candidate, Unmerged, TypeOK
    <2>2. Makers' = Makers /\ Len(Makers) = Len(target)
      BY <1>3 DEF Accept, git, Makers, By, TypeOK
    <2>3. Contract!Accept(at)
      BY <2>1, <2>2 DEF Contract!Accept, Makers
    <2> QED BY <2>1, <2>3 DEF Contract!Next
  <1>4. CASE ~ Merge /\ ~ UserCommits /\ ~ Accept
    <2>1. target' = target
      BY <1>4, BranchStep
    <2>2. accepted' = accepted
      BY <1>4 DEF Next, vars, Start, Environment, Crash, UserEdits, Touch, Coordinator,
         Waves, Reserve, NothingToReserve, Prepare, CreateAttempt, AttemptObserved,
         PrepareRaises, PrepareBlocked, Prepared, Work, WaveDone, Staging, Stage,
         StageRejected, StageResult, StageObserved, ResultStaged, StageAbsent, Staged,
         Promotion, PlanNext, PlanBlocked, Materialize, AcceptanceFailed, InspectFirst,
         GuardMerge, MergeFails, Conclude, PromotionObserved, PromotionNotApplied, Verify,
         Promoted, Cleanup, PlanCleanup, InspectTree, Remove, CleanupObserved, CleanupUnknown
    <2> QED BY <2>1, <2>2 DEF Makers, By
  <1> QED BY <1>1, <1>2, <1>3, <1>4

\* The program implements LandingContract: accepted results land one at a time, each
\* at most once, after their dependencies, on the very commit they were accepted on.
THEOREM ContractImplemented == Spec => ImplementsContract
  <1>1. Init => Contract!Init
    BY DEF Init, Contract!Init, By
  <1>2. IInv /\ [Next]_vars => [Contract!Next]_<<[i \in DOMAIN target |-> By(i)], accepted>>
    BY ContractStep DEF Makers
  <1> QED BY <1>1, <1>2, InvariantAlways, PTL DEF Spec, ImplementsContract, Contract!Spec
=============================================================================
