---------------------------- MODULE ReadySetProofs ----------------------------
(***************************************************************************)
(* Theorems about ReadySet, for every graph, every overlap of its writable *)
(* sets and every limit: the counters that are adjusted event by event are *)
(* those of a rebuild, so that the ready set is what one scan of the       *)
(* snapshot selects; such a scan always exists; and what it selects keeps  *)
(* overlapping tasks apart.                                                *)
(***************************************************************************)
EXTENDS ReadySet, TLAPS, FiniteSetTheorems, WellFoundedInduction

------------------------------------------------------------------------------
(* The inductive invariant.                                                 *)

KernelOK ==
  kernel \in [epoch : {1}, phase : RunPhase, status : RunStatus, why : {"none"},
              task : [Task -> [state : TaskState, why : {"none"}]]]

\* What reserve_task has made ready stays in the ready set until it is leased.
PickedIsReady == picked \subseteq index.ready

\* A task that was started had its dependencies complete, and they still are.
Unstarted == {"PROPOSED", "APPROVED", "READY"}

StartedInOrder ==
  undone = 0 =>
    \A t \in Task :
      States(kernel)[t] \notin Unstarted \/ t \in taking
        => After[t] \subseteq Completed(States(kernel))

\* A task on its way back waits for its lease, and the loop waits for it.
LoopWaits ==
  undone = 0 =>
    /\ \A t \in taking : States(kernel)[t] \in {"BLOCKED", "READY"}
    /\ ~settling => taking = {}

\* It keeps its place meanwhile: no task that overlaps with it is started, and it
\* counts towards the limit.
Held == Active \cup taking

HeldApart == undone = 0 => \A t, u \in Held : t # u => <<t, u>> \notin Overlap
HeldWithin == undone = 0 => Cardinality(Held) <= MaxConcurrency

Types ==
  KernelOK /\ undone \in Nat /\ settling \in BOOLEAN /\ taking \subseteq Task

IInv ==
  /\ Types
  /\ IndexIsRebuild /\ PickedIsReady /\ StartedInOrder
  /\ LoopWaits /\ HeldApart /\ HeldWithin

------------------------------------------------------------------------------
(* The counters.                                                            *)

\* What is left of a set, when another grows and shrinks.
LEMMA LeftOver ==
  ASSUME NEW A, IsFiniteSet(A), NEW C, NEW D
  PROVE  /\ Cardinality(A \ D) = Cardinality(A \ C) + Cardinality(A \cap (C \ D))
                                                    - Cardinality(A \cap (D \ C))
         /\ Cardinality(A \ D) \in 0..Cardinality(A)
  <1>1. /\ IsFiniteSet(A \ C) /\ IsFiniteSet(A \ D)
        /\ IsFiniteSet(A \cap (C \ D)) /\ IsFiniteSet(A \cap (D \ C))
        /\ IsFiniteSet((A \ C) \ D)
    BY FS_Subset
  <1>2. Cardinality((A \ C) \ D) = Cardinality(A \ C) - Cardinality(A \cap (D \ C))
    <2>1. (A \ C) \cap D = A \cap (D \ C)
      OBVIOUS
    <2>2. Cardinality((A \ C) \ D) = Cardinality(A \ C) - Cardinality((A \ C) \cap D)
      BY <1>1, FS_Difference
    <2> QED BY <2>1, <2>2
  <1>3. Cardinality((A \ D) \ C) = Cardinality(A \ D) - Cardinality(A \cap (C \ D))
    <2>1. (A \ D) \cap C = A \cap (C \ D)
      OBVIOUS
    <2>2. Cardinality((A \ D) \ C) = Cardinality(A \ D) - Cardinality((A \ D) \cap C)
      BY <1>1, FS_Difference
    <2> QED BY <2>1, <2>2
  <1>4. Cardinality((A \ C) \ D) = Cardinality((A \ D) \ C)
    <2>1. (A \ C) \ D = (A \ D) \ C
      OBVIOUS
    <2> QED BY <2>1
  <1>5. /\ Cardinality(A \ C) \in Nat /\ Cardinality(A \ D) \in Nat
        /\ Cardinality(A \cap (C \ D)) \in Nat /\ Cardinality(A \cap (D \ C)) \in Nat
        /\ Cardinality(A) \in Nat
    BY <1>1, FS_CardinalityType
  <1>6. Cardinality(A \ D) <= Cardinality(A)
    BY FS_Subset
  <1> DEFINE left == Cardinality(A \ C)       kept == Cardinality(A \ D)
             back == Cardinality(A \cap (C \ D))  done == Cardinality(A \cap (D \ C))
  <1>7. left - done = kept - back
    BY <1>2, <1>3, <1>4
  <1>8. left \in Nat /\ kept \in Nat /\ back \in Nat /\ done \in Nat
    BY <1>5
  <1> HIDE DEF left, kept, back, done
  <1>9. kept = left + back - done
    BY <1>7, <1>8
  <1> QED BY <1>5, <1>6, <1>9 DEF left, kept, back, done

\* Dependencies are finitely many.
LEMMA AfterFinite == \A t \in Task : After[t] \subseteq Task /\ IsFiniteSet(After[t])
  BY ReadySetAssumption, FS_Subset

\* advance ends in the index of a rebuild, if it begins in one.
LEMMA AdvanceRebuilds ==
  ASSUME IndexIsRebuild, Advance(kernel, kernel')
  PROVE  IndexIsRebuild'
  <1> DEFINE before == Completed(States(kernel))
             after == Completed(States(kernel'))
             remaining == Adjusted(index, before, after)
  <1>1. /\ ~mismatch /\ index = Rebuild(kernel)
        /\ index.state = States(kernel)
        /\ index.remaining = Remaining(States(kernel))
    BY DEF IndexIsRebuild, Rebuild, Index
  <1>2. ASSUME NEW t \in Task
        PROVE  /\ remaining[t] = Cardinality(After[t] \ after)
               /\ remaining[t] \in 0..Cardinality(After[t])
    <2>1. index.remaining[t] = Cardinality(After[t] \ before)
      BY <1>1 DEF Remaining
    <2>2. remaining[t] = index.remaining[t] + Cardinality(After[t] \cap (before \ after))
                                            - Cardinality(After[t] \cap (after \ before))
      BY DEF Adjusted
    <2>3. IsFiniteSet(After[t])
      BY AfterFinite
    <2>4. \A C, D : /\ Cardinality(After[t] \ D) =
                         Cardinality(After[t] \ C) + Cardinality(After[t] \cap (C \ D))
                                                   - Cardinality(After[t] \cap (D \ C))
                    /\ Cardinality(After[t] \ D) \in 0..Cardinality(After[t])
      BY <2>3, LeftOver
    <2> HIDE DEF before, after, remaining
    <2>5. /\ Cardinality(After[t] \ after) =
               Cardinality(After[t] \ before) + Cardinality(After[t] \cap (before \ after))
                                              - Cardinality(After[t] \cap (after \ before))
          /\ Cardinality(After[t] \ after) \in 0..Cardinality(After[t])
      BY <2>4
    <2> QED BY <2>1, <2>2, <2>5
  <1>3. remaining = Remaining(States(kernel'))
    <2>1. remaining = [t \in Task |-> remaining[t]]
      BY DEF Adjusted
    <2> HIDE DEF remaining
    <2> QED BY <1>2, <2>1 DEF Remaining
  <1>4. /\ index' = Index(kernel', remaining)
        /\ ~mismatch'
    <2> DEFINE fits(r) == /\ index.state = States(kernel)
                         /\ \A t \in Task : r[t] \in 0..Cardinality(After[t])
    <2>1. \E r \in {remaining} :
             /\ index' = IF fits(r) THEN Index(kernel', r) ELSE index
             /\ mismatch' = (mismatch \/ ~fits(r))
      BY DEF Advance
    <2>2. fits(remaining)
      BY <1>1, <1>2
    <2> HIDE DEF fits, remaining
    <2> QED BY <1>1, <2>1, <2>2
  <1> HIDE DEF remaining
  <1> QED BY <1>1, <1>3, <1>4 DEF IndexIsRebuild, Rebuild

------------------------------------------------------------------------------
(* The scan.                                                                *)

\* A set of naturals that is not empty has a smallest element.
LEMMA Smallest ==
  ASSUME NEW N, N \subseteq Nat, N # {}
  PROVE  \E m \in N : \A n \in N : m <= n
  <1> DEFINE R == OpToRel(<, Nat)
  <1>1. IsWellFoundedOn(R, Nat)
    BY NatLessThanWellFounded
  <1> HIDE DEF R
  <1>2. PICK m \in N : \A n \in N : ~ (<<n, m>> \in R)
    BY <1>1, WFMin
  <1>3. \A n \in N : ~ (n < m)
    BY <1>2 DEF R, OpToRel
  <1> QED BY <1>3

\* The loop of _ready_tasks ends with a selection, whatever the states are.
LEMMA ScanExists ==
  ASSUME NEW s, NEW remaining
  PROVE  \E S \in SUBSET Candidates(s, remaining) : Selects(S, s, remaining)
  <1> DEFINE C == Candidates(s, remaining)
             Takes(t, S) ==
               /\ t \in C
               /\ Cardinality(Before(t, S)) + Cardinality(ActiveTasks(s)) < MaxConcurrency
               /\ Conflicts[t] \cap (ActiveTasks(s) \cup Before(t, S)) = {}
             Upto(S, n) ==
               /\ \A t \in S : Position[t] < n
               /\ \A t \in Task : Position[t] < n => (t \in S <=> Takes(t, S))
             Missing == {n \in Nat : \A S \in SUBSET C : ~Upto(S, n)}
  <1>1. C \subseteq Task /\ \A t \in Task : Position[t] \in Nat
    <2>1. Cardinality(Task) \in Nat
      BY ReadySetAssumption, FS_CardinalityType
    <2> QED BY <2>1, ReadySetAssumption DEF Candidates
  <1>2. Missing = {}
    <2>1. SUFFICES ASSUME Missing # {} PROVE FALSE
      OBVIOUS
    <2>2. PICK m \in Missing : \A n \in Missing : m <= n
      BY <2>1, Smallest
    <2>3. m # 0
      <3>1. Upto({}, 0)
        BY <1>1
      <3>2. 0 \notin Missing
        BY <3>1
      <3> QED BY <2>2, <3>2
    <2>4. m \in Nat /\ m - 1 \in Nat /\ m - 1 \notin Missing
      BY <2>2, <2>3
    <2>5. PICK S \in SUBSET C : Upto(S, m - 1)
      BY <2>4
    <2>6. \A S1 \in SUBSET C :
            \A u \in Task :
              /\ S \subseteq S1
              /\ \A t \in S1 \ S : Position[t] >= Position[u]
              => Before(u, S1) = Before(u, S) /\ (Takes(u, S1) <=> Takes(u, S))
      <3> SUFFICES ASSUME NEW S1 \in SUBSET C, NEW u \in Task, S \subseteq S1,
                          \A t \in S1 \ S : Position[t] >= Position[u]
                   PROVE  Before(u, S1) = Before(u, S)
        OBVIOUS
      <3> QED BY <1>1 DEF Before
    <2>7. CASE \E t \in Task : Position[t] = m - 1 /\ Takes(t, S)
      <3>1. PICK t \in Task : Position[t] = m - 1 /\ Takes(t, S)
        BY <2>7
      <3> DEFINE S1 == S \cup {t}
      <3>2. S1 \in SUBSET C /\ \A u \in S1 : Position[u] < m
        BY <1>1, <2>4, <2>5, <3>1
      <3>3. ASSUME NEW u \in Task, Position[u] < m PROVE u \in S1 <=> Takes(u, S1)
        <4>1. Takes(u, S1) <=> Takes(u, S)
          BY <1>1, <2>4, <2>6, <3>1, <3>2, <3>3
        <4>2. CASE u = t
          BY <4>1, <4>2, <3>1
        <4>3. CASE u # t
          <5>1. Position[u] < m - 1
            BY <1>1, <2>4, <3>1, <3>3, <4>3, ReadySetAssumption
          <5> QED BY <2>5, <4>1, <4>3, <5>1
        <4> QED BY <4>2, <4>3
      <3>4. Upto(S1, m)
        BY <3>2, <3>3
      <3> HIDE DEF Upto, S1
      <3> QED BY <2>2, <3>2, <3>4
    <2>8. CASE ~ \E t \in Task : Position[t] = m - 1 /\ Takes(t, S)
      <3>1. \A u \in S : Position[u] < m
        BY <1>1, <2>4, <2>5
      <3>2. ASSUME NEW u \in Task, Position[u] < m PROVE u \in S <=> Takes(u, S)
        <4>1. CASE Position[u] = m - 1
          BY <1>1, <2>4, <2>5, <2>8, <4>1
        <4>2. CASE Position[u] < m - 1
          BY <2>5, <4>2
        <4> QED BY <1>1, <2>4, <3>2, <4>1, <4>2
      <3>3. Upto(S, m)
        BY <3>1, <3>2
      <3> HIDE DEF Upto
      <3> QED BY <2>2, <3>3
    <2> QED BY <2>7, <2>8
  <1>3. Cardinality(Task) \in Nat
    BY ReadySetAssumption, FS_CardinalityType
  <1>4. PICK S \in SUBSET C : Upto(S, Cardinality(Task))
    <2> HIDE DEF Upto, C
    <2> QED BY <1>2, <1>3
  <1>5. \A t \in Task : Position[t] < Cardinality(Task)
    <2> DEFINE n == Cardinality(Task)
    <2>1. n \in Nat /\ \A t \in Task : Position[t] \in 0..(n - 1)
      BY <1>3, ReadySetAssumption
    <2> HIDE DEF n
    <2>2. ASSUME NEW t \in Task PROVE Position[t] < n
      <3>1. n \in Nat /\ Position[t] \in 0..(n - 1)
        BY <2>1
      <3> QED BY <3>1, SMT
    <2> QED BY <2>2 DEF n
  <1>6. \A t \in Task : t \in S <=> Takes(t, S)
    BY <1>4, <1>5
  <1>7. Selects(S, s, remaining)
    BY <1>6 DEF Selects
  <1> QED BY <1>7

\* The ready set is such a selection.
LEMMA ReadyIsSelected ==
  ASSUME IndexIsRebuild
  PROVE  LET s == States(kernel)  r == Remaining(s) IN
         /\ kernel.phase = "EXECUTING" /\ kernel.status = "RUNNING" =>
              index.ready \subseteq Candidates(s, r) /\ Selects(index.ready, s, r)
         /\ ~(kernel.phase = "EXECUTING" /\ kernel.status = "RUNNING") => index.ready = {}
  <1> DEFINE s == States(kernel)  r == Remaining(s)
  <1>1. index.ready = ReadyTasks(s, r, kernel.phase, kernel.status)
    BY DEF IndexIsRebuild, Rebuild, Index
  <1>2. \E S \in SUBSET Candidates(s, r) : Selects(S, s, r)
    BY ScanExists
  <1> QED BY <1>1, <1>2 DEF ReadyTasks
------------------------------------------------------------------------------
(* The events.                                                              *)

\* An event of a task moves that task, along the table, and nothing else.
LEMMA TaskStep ==
  ASSUME KernelOK, NEW t \in Task, NEW m \in TaskMoves, Apply(TaskEvent(t, m))
  PROVE  /\ KernelOK'
         /\ kernel'.phase = kernel.phase /\ kernel'.status = kernel.status
         /\ States(kernel)[t] = m[2]
         /\ States(kernel') = [States(kernel) EXCEPT ![t] = m[3]]
         /\ Advance(kernel, kernel')
  <1> DEFINE e == TaskEvent(t, m)
  <1>1. /\ m = <<m[1], m[2], m[3]>> /\ m[2] \in TaskState /\ m[3] \in TaskState
    BY DEF TaskMoves, Moves, TaskState
  <1>2. /\ kernel.task[t].state = m[2]
        /\ kernel' = TaskFold(kernel, e)
        /\ Advance(kernel, kernel')
    BY DEF Apply, TaskEvent, Accepts, TaskAccepts, Fold
  <1>3. kernel' = [kernel EXCEPT !.task[t] = [state |-> m[3], why |-> "none"]]
    BY <1>2 DEF TaskFold, TaskEvent
  <1>4. /\ kernel'.task = [kernel.task EXCEPT ![t] = [state |-> m[3], why |-> "none"]]
        /\ kernel'.phase = kernel.phase /\ kernel'.status = kernel.status
    BY <1>3 DEF KernelOK
  <1>5. KernelOK'
    BY <1>1, <1>3 DEF KernelOK
  <1>6. States(kernel') = [States(kernel) EXCEPT ![t] = m[3]]
    <2>1. ASSUME NEW u \in Task
          PROVE  kernel'.task[u].state = IF u = t THEN m[3] ELSE kernel.task[u].state
      BY <1>4 DEF KernelOK
    <2>2. DOMAIN States(kernel) = Task
      BY DEF States
    <2> QED BY <2>1, <2>2 DEF States
  <1> QED BY <1>2, <1>4, <1>5, <1>6 DEF States

\* An event of the run moves no task, but for the freeze, which finds them all
\* proposed and approves them.
LEMMA RunStep ==
  ASSUME KernelOK, NEW m \in PhaseMoves \cup StatusMoves, Apply(RunEvent(m))
  PROVE  /\ KernelOK'
         /\ Advance(kernel, kernel')
         /\ \/ States(kernel') = States(kernel)
            \/ \A t \in Task : /\ States(kernel)[t] = "PROPOSED"
                               /\ States(kernel')[t] = "APPROVED"
  <1> DEFINE e == RunEvent(m)
  <1>1. m \in PhaseMoves => m[3] \in RunPhase
    BY DEF PhaseMoves, RunPhase
  <1>2. m \in StatusMoves => m[3] \in RunStatus
    BY DEF StatusMoves, Moves, RunStatus
  <1>3. /\ RunAccepts(kernel, e)
        /\ kernel' = RunFold(kernel, e)
        /\ Advance(kernel, kernel')
    BY DEF Apply, RunEvent, Accepts, Fold
  <1>4. CASE e.type = "TASK_GRAPH_FROZEN"
    <2>1. /\ kernel' = [kernel EXCEPT !.phase = m[3],
                          !.task = [t \in Task |-> [@[t] EXCEPT !.state = "APPROVED"]]]
          /\ \A t \in Task : kernel.task[t].state = "PROPOSED"
      BY <1>3, <1>4 DEF RunFold, RunAccepts, RunEvent
    <2>2. <<m[1], m[2], m[3]>> \in PhaseMoves
      BY <1>3, <1>4 DEF RunAccepts, IsPhase, RunEvent, PhaseMoves
    <2>3. m[3] \in RunPhase
      BY <2>2 DEF PhaseMoves, RunPhase
    <2>4. kernel'.task = [t \in Task |-> [kernel.task[t] EXCEPT !.state = "APPROVED"]]
      BY <2>1 DEF KernelOK
    <2>5. ASSUME NEW t \in Task
          PROVE  /\ kernel'.task[t] \in [state : TaskState, why : {"none"}]
                 /\ kernel'.task[t].state = "APPROVED"
      <3>1. kernel.task[t] \in [state : TaskState, why : {"none"}]
        BY DEF KernelOK
      <3> QED BY <2>4, <3>1 DEF TaskState
    <2>6. kernel'.task \in [Task -> [state : TaskState, why : {"none"}]]
      BY <2>4, <2>5
    <2>7. KernelOK'
      BY <2>1, <2>3, <2>6 DEF KernelOK
    <2> QED BY <1>3, <2>1, <2>5, <2>7 DEF States
  <1>5. CASE e.type # "TASK_GRAPH_FROZEN" /\ IsPhase(e)
    <2>1. kernel' = [kernel EXCEPT !.phase = m[3]]
      BY <1>3, <1>5 DEF RunFold, RunEvent
    <2>2. <<m[1], m[2], m[3]>> \in PhaseMoves
      BY <1>3, <1>5 DEF RunAccepts, RunEvent
    <2>3. m[3] \in RunPhase
      BY <2>2 DEF PhaseMoves, RunPhase
    <2>4. KernelOK' /\ kernel'.task = kernel.task
      BY <2>1, <2>3 DEF KernelOK
    <2> QED BY <1>3, <2>4 DEF States
  <1>6. CASE e.type # "TASK_GRAPH_FROZEN" /\ ~IsPhase(e)
    <2>1. /\ kernel' = [kernel EXCEPT !.status = m[3], !.why = kernel'.why]
          /\ kernel'.why = "none"
      BY <1>3, <1>6 DEF RunFold, RunEvent, KernelOK
    <2>2. <<m[1], m[2], m[3]>> \in StatusMoves
      BY <1>3, <1>6 DEF RunAccepts, RunEvent
    <2>3. m[3] \in RunStatus
      BY <2>2 DEF StatusMoves, Moves, RunStatus
    <2>4. KernelOK' /\ kernel'.task = kernel.task
      BY <2>1, <2>3 DEF KernelOK
    <2> QED BY <1>3, <2>4 DEF States
  <1> QED BY <1>4, <1>5, <1>6

\* What the tables say of tasks that are at work or complete: only a lease starts
\* one, and only a revert or an invalidation takes one back.
LEMMA Tables ==
  ASSUME NEW m \in TaskMoves
  PROVE  /\ m[2] \in Complete /\ m[1] \notin Undoes => m[3] \in Complete
         /\ m[2] \in {"BLOCKED", "READY"} /\ m[1] \notin Undoes \cup {"LEASE_ACQUIRED"}
              => m[3] = "READY"
         /\ m[3] \in ActiveState /\ m[1] # "LEASE_ACQUIRED" => m[2] \in ActiveState
         /\ m[3] \notin Unstarted /\ m[1] # "LEASE_ACQUIRED"
              => m[2] \notin Unstarted \/ m[1] = "TASK_INVALIDATED"
         /\ m[1] = "TASK_READY" => m[2] = "APPROVED" /\ m[3] = "READY"
         /\ m[1] = "LEASE_ACQUIRED" => m[2] = "READY" /\ m[3] = "LEASED"
  BY DEF TaskMoves, Moves, Complete, ActiveState, Unstarted, Undoes

------------------------------------------------------------------------------
(* What a lease rests on.                                                   *)

\* States and the sets drawn from them.
LEMMA Drawn ==
  ASSUME Types
  PROVE  /\ States(kernel) \in [Task -> TaskState]
         /\ Active \subseteq Task /\ IsFiniteSet(Active) /\ Cardinality(Active) \in Nat
         /\ Completed(States(kernel)) \subseteq Task
  <1>1. States(kernel) \in [Task -> TaskState]
    BY DEF States, KernelOK, Types
  <1>2. Active \subseteq Task /\ Completed(States(kernel)) \subseteq Task
    BY DEF Active, ActiveTasks, Completed
  <1> QED BY <1>1, <1>2, ReadySetAssumption, FS_Subset, FS_CardinalityType

\* So are the tasks that are held.
LEMMA HeldFinite ==
  ASSUME Types
  PROVE  Held \subseteq Task /\ IsFiniteSet(Held) /\ Cardinality(Held) \in Nat
  <1>1. Held \subseteq Task
    BY DEF Held, Active, ActiveTasks, Types
  <1> QED BY <1>1, ReadySetAssumption, FS_Subset, FS_CardinalityType

\* A ready task has its dependencies complete, conflicts with nothing active, and
\* there is room for it.
LEMMA ReadyMayStart ==
  ASSUME Types, IndexIsRebuild, NEW t \in index.ready
  PROVE  /\ t \in Task
         /\ After[t] \subseteq Completed(States(kernel))
         /\ Conflicts[t] \cap Active = {}
         /\ Cardinality(Active) < MaxConcurrency
  <1> DEFINE s == States(kernel)  r == Remaining(s)  B == Before(t, index.ready)
  <1>1. index.ready \subseteq Candidates(s, r) /\ Selects(index.ready, s, r)
    BY ReadyIsSelected
  <1>2. t \in Task /\ r[t] = 0
    BY <1>1 DEF Candidates
  <1>3. /\ Cardinality(B) + Cardinality(ActiveTasks(s)) < MaxConcurrency
        /\ Conflicts[t] \cap (ActiveTasks(s) \cup B) = {}
    BY <1>1, <1>2 DEF Selects
  <1>4. Cardinality(B) \in Nat
    <2>1. B \subseteq Task
      BY <1>1 DEF Before, Candidates
    <2> QED BY <2>1, ReadySetAssumption, FS_Subset, FS_CardinalityType
  <1>5. After[t] \subseteq Completed(s)
    <2>1. IsFiniteSet(After[t] \ Completed(s))
      BY <1>2, AfterFinite, FS_Subset
    <2>2. Cardinality(After[t] \ Completed(s)) = 0
      BY <1>2 DEF Remaining
    <2>3. After[t] \ Completed(s) = {}
      BY <2>1, <2>2, FS_EmptySet
    <2> QED BY <2>3
  <1>6. Cardinality(ActiveTasks(s)) < MaxConcurrency
    <2> DEFINE a == Cardinality(ActiveTasks(s))  b == Cardinality(B)
    <2>1. a \in Nat /\ b \in Nat /\ b + a < MaxConcurrency /\ MaxConcurrency \in Nat
      BY <1>3, <1>4, Drawn, ReadySetAssumption DEF Active
    <2> HIDE DEF a, b
    <2>2. a < MaxConcurrency
      BY <2>1
    <2> QED BY <2>2 DEF a
  <1> QED BY <1>2, <1>3, <1>5, <1>6 DEF Active

\* Below a task that is not complete, nothing has its dependencies complete.
LEMMA NotBelow ==
  ASSUME NEW C \in SUBSET Task, \A v \in C : After[v] \subseteq C,
         NEW root \in Task, root \notin C, NEW w \in Descendants[root]
  PROVE  ~(After[w] \subseteq C)
  <1> DEFINE S == {v \in Task : ~(After[v] \subseteq C)}
  <1>1. Dependents(root) \subseteq S
    BY DEF Dependents
  <1>2. \A v \in S : Dependents(v) \subseteq S
    BY DEF Dependents
  <1>3. S \in SUBSET Task
    OBVIOUS
  <1> HIDE DEF S
  <1>4. w \in S
    BY <1>1, <1>2, <1>3 DEF Descendants
  <1> QED BY <1>4 DEF S

\* Two states of the tasks that the scan reads alike give the same ready set.
LEMMA SameScan ==
  ASSUME NEW s, NEW n, NEW phase, NEW status,
         Completed(n) = Completed(s), ActiveTasks(n) = ActiveTasks(s),
         Candidates(n, Remaining(s)) = Candidates(s, Remaining(s))
  PROVE  ReadyTasks(n, Remaining(n), phase, status)
           = ReadyTasks(s, Remaining(s), phase, status)
  <1> DEFINE Scan(C, A) ==
               CHOOSE S \in SUBSET C :
                 \A u \in Task :
                   u \in S <=>
                     /\ u \in C
                     /\ Cardinality(Before(u, S)) + Cardinality(A) < MaxConcurrency
                     /\ Conflicts[u] \cap (A \cup Before(u, S)) = {}
  <1>1. Remaining(n) = Remaining(s)
    BY DEF Remaining
  <1>2. \A x, r : ReadyTasks(x, r, phase, status) =
          IF phase = "EXECUTING" /\ status = "RUNNING"
          THEN Scan(Candidates(x, r), ActiveTasks(x)) ELSE {}
    BY Zenon DEF ReadyTasks, Selects
  <1> HIDE DEF Scan
  <1> QED BY <1>1, <1>2

------------------------------------------------------------------------------
(* The steps.                                                               *)

\* Nothing has started.
LEMMA InitInv == Init => IInv
  <1> SUFFICES ASSUME Init PROVE IInv
    OBVIOUS
  <1>1. KernelOK /\ \A t \in Task : States(kernel)[t] = "PROPOSED"
    BY DEF Init, KernelOK, RunPhase, RunStatus, TaskState, States
  <1>2. Held = {}
    BY <1>1 DEF Init, Held, Active, ActiveTasks, ActiveState
  <1>3. Types /\ IndexIsRebuild /\ PickedIsReady /\ LoopWaits
    BY <1>1 DEF Init, Types, IndexIsRebuild, PickedIsReady, LoopWaits
  <1>4. StartedInOrder
    BY <1>1 DEF Init, StartedInOrder, Unstarted
  <1>5. HeldApart
    BY <1>2 DEF HeldApart
  <1>6. HeldWithin
    BY <1>2, FS_EmptySet, ReadySetAssumption DEF HeldWithin
  <1> QED BY <1>3, <1>4, <1>5, <1>6 DEF IInv

\* A task that is made ready is in the ready set that follows.
LEMMA MakeReadyStep ==
  ASSUME IInv, NEW t \in Task, MakeReady(t)
  PROVE  IInv'
  <1>1. PICK m \in Moves("TASK_READY", {"APPROVED"}, "READY") : Apply(TaskEvent(t, m))
    BY DEF MakeReady
  <1>2. m \in TaskMoves /\ m[2] = "APPROVED" /\ m[3] = "READY"
    BY <1>1 DEF TaskMoves, Moves
  <1> DEFINE s == States(kernel)  n == [s EXCEPT ![t] = "READY"]
  <1>3. /\ KernelOK' /\ kernel'.phase = kernel.phase /\ kernel'.status = kernel.status
        /\ s[t] = "APPROVED" /\ States(kernel') = n
        /\ Advance(kernel, kernel')
    BY <1>1, <1>2, TaskStep DEF IInv, Types
  <1>4. IndexIsRebuild'
    BY <1>3, AdvanceRebuilds DEF IInv
  <1>5. s \in [Task -> TaskState]
    BY Drawn DEF IInv
  <1>6. PickedIsReady'
    <2>1. /\ index.ready = ReadyTasks(s, Remaining(s), kernel.phase, kernel.status)
          /\ index'.ready = ReadyTasks(n, Remaining(n), kernel.phase, kernel.status)
      BY <1>3, <1>4 DEF IInv, IndexIsRebuild, Rebuild, Index
    <2>2. /\ Completed(n) = Completed(s) /\ ActiveTasks(n) = ActiveTasks(s)
          /\ Candidates(n, Remaining(s)) = Candidates(s, Remaining(s))
      BY <1>3, <1>5 DEF Completed, Complete, ActiveTasks, ActiveState, Candidates
    <2> HIDE DEF s, n
    <2>3. ReadyTasks(n, Remaining(n), kernel.phase, kernel.status)
            = ReadyTasks(s, Remaining(s), kernel.phase, kernel.status)
      BY <2>2, SameScan
    <2>4. picked' = {t} /\ t \in index.ready
      BY DEF MakeReady
    <2> QED BY <2>1, <2>3, <2>4 DEF PickedIsReady
  <1>7. ~settling /\ UNCHANGED <<settling, taking, undone>>
    BY DEF MakeReady, IInv, Types
  <1>8. /\ Completed(n) = Completed(s)
        /\ ActiveTasks(n) = ActiveTasks(s)
        /\ \A u \in Task : n[u] \notin Unstarted <=> s[u] \notin Unstarted
        /\ \A u \in Task \ {t} : n[u] = s[u]
    BY <1>3, <1>5 DEF Completed, Complete, ActiveTasks, ActiveState, Unstarted
  <1> HIDE DEF n
  <1>9. StartedInOrder'
    BY <1>3, <1>7, <1>8 DEF IInv, StartedInOrder
  <1>10. LoopWaits'
    BY <1>7 DEF IInv, LoopWaits
  <1>11. Held' = Held
    BY <1>3, <1>7, <1>8 DEF Held, Active
  <1>12. HeldApart' /\ HeldWithin'
    BY <1>7, <1>11 DEF IInv, HeldApart, HeldWithin
  <1>13. Types'
    BY <1>3, <1>7 DEF IInv, Types
  <1> QED BY <1>4, <1>6, <1>9, <1>10, <1>12, <1>13 DEF IInv

\* A task that starts beside those that are held, in the order of the graph, is apart
\* from them all if it conflicts with none.
LEMMA ApartFrom ==
  ASSUME IInv, undone = 0, NEW t \in Task, States(kernel)[t] = "READY",
         After[t] \subseteq Completed(States(kernel)),
         NEW u \in Active, u # t, u \notin Conflicts[t]
  PROVE  <<t, u>> \notin Overlap
  <1> DEFINE s == States(kernel)  C == Completed(s)
  <1>1. /\ s \in [Task -> TaskState] /\ C \subseteq Task /\ Active \subseteq Task
    BY Drawn DEF IInv
  <1>2. t \notin C /\ s[u] \notin Unstarted /\ u \notin C /\ u \in Task
    BY <1>1 DEF Completed, Complete, Active, ActiveTasks, ActiveState, Unstarted
  <1>3. \A v \in C : After[v] \subseteq C
    BY <1>1 DEF IInv, StartedInOrder, Completed, Complete, Unstarted
  <1>4. After[u] \subseteq C
    BY <1>2 DEF IInv, StartedInOrder
  <1> HIDE DEF C
  <1>5. u \notin Descendants[t]
    BY <1>1, <1>2, <1>3, <1>4, NotBelow
  <1>6. t \notin Descendants[u]
    BY <1>1, <1>2, <1>3, NotBelow DEF C
  <1>7. Conflicts[t] = {v \in Task \ {t} : /\ <<t, v>> \in Overlap
                          /\ v \notin Descendants[t] /\ t \notin Descendants[v]}
    BY DEF Conflicts
  <1> QED BY <1>2, <1>5, <1>6, <1>7

\* A leased task is apart from all that are active, and nothing else is held: the loop
\* has waited for what was on its way back.
LEMMA LeaseStep ==
  ASSUME IInv, NEW t \in Task, LeaseTask(t)
  PROVE  IInv'
  <1>1. PICK m \in Moves("LEASE_ACQUIRED", {"READY"}, "LEASED") : Apply(TaskEvent(t, m))
    BY DEF LeaseTask
  <1>2. m \in TaskMoves /\ m[2] = "READY" /\ m[3] = "LEASED"
    BY <1>1 DEF TaskMoves, Moves
  <1> DEFINE s == States(kernel)  n == [s EXCEPT ![t] = "LEASED"]
             C == Completed(s)
  <1>3. /\ KernelOK' /\ s[t] = "READY" /\ States(kernel') = n
        /\ Advance(kernel, kernel')
    BY <1>1, <1>2, TaskStep DEF IInv, Types
  <1>4. /\ IndexIsRebuild' /\ PickedIsReady'
        /\ ~settling /\ settling' = settling /\ undone' = undone /\ taking' = taking \ {t}
    BY <1>3, AdvanceRebuilds DEF IInv, Types, LeaseTask, PickedIsReady
  <1>5. /\ s \in [Task -> TaskState] /\ C \subseteq Task
        /\ Active \subseteq Task /\ IsFiniteSet(Active) /\ Cardinality(Active) \in Nat
    BY Drawn DEF IInv
  <1>6. t \in index.ready
    BY DEF IInv, PickedIsReady, LeaseTask
  <1>7. /\ After[t] \subseteq C /\ Conflicts[t] \cap Active = {}
        /\ Cardinality(Active) < MaxConcurrency
    BY <1>6, ReadyMayStart DEF IInv, Types
  <1>8. /\ Completed(n) = C
        /\ ActiveTasks(n) = Active \cup {t}
        /\ \A u \in Task \ {t} : n[u] = s[u]
    BY <1>3, <1>5 DEF Completed, Complete, Active, ActiveTasks, ActiveState
  <1> HIDE DEF n
  <1>9. Types'
    BY <1>3, <1>4 DEF IInv, Types
  <1>10. StartedInOrder'
    BY <1>3, <1>4, <1>7, <1>8 DEF IInv, StartedInOrder
  <1>11. LoopWaits'
    BY <1>4 DEF IInv, LoopWaits
  <1>12. undone = 0 => taking = {} /\ Held' = Active \cup {t}
    BY <1>3, <1>4, <1>8 DEF IInv, LoopWaits, Held, Active
  <1>13. ASSUME undone = 0, NEW u \in Active, u # t
         PROVE  <<t, u>> \notin Overlap
    BY <1>3, <1>7, <1>13, ApartFrom
  <1>14. HeldApart'
    <2>1. SUFFICES ASSUME undone = 0, NEW u \in Active \cup {t}, NEW v \in Active \cup {t},
                          u # v
                   PROVE  <<u, v>> \notin Overlap
      BY <1>4, <1>12 DEF HeldApart
    <2>2. CASE u \in Active /\ v \in Active
      BY <2>1, <2>2 DEF IInv, HeldApart, Held
    <2>3. CASE u = t
      BY <1>13, <2>1, <2>3
    <2>4. CASE v = t
      <3>1. <<t, u>> \notin Overlap /\ u \in Task
        BY <1>5, <1>13, <2>1, <2>4
      <3> QED BY <2>4, <3>1, ReadySetAssumption
    <2> QED BY <2>2, <2>3, <2>4
  <1>15. HeldWithin'
    <2>1. Cardinality(Active \cup {t}) <= Cardinality(Active) + 1
      BY <1>5, FS_AddElement
    <2>2. IsFiniteSet(Active \cup {t})
      BY <1>5, FS_AddElement
    <2>3. Cardinality(Active \cup {t}) \in Nat
      BY <2>2, FS_CardinalityType
    <2>4. Cardinality(Active \cup {t}) <= MaxConcurrency
      BY <1>5, <1>7, <2>1, <2>3, ReadySetAssumption
    <2> QED BY <1>4, <1>12, <2>4 DEF HeldWithin
  <1> QED BY <1>4, <1>9, <1>10, <1>11, <1>14, <1>15 DEF IInv

\* A task that is taken back is lost to nobody.
LEMMA LoseStep ==
  ASSUME IInv, NEW t \in Task, LoseTask(t)
  PROVE  IInv'
  <1>1. PICK m \in Moves("TASK_BLOCKED", {"DISPATCHED"}, "BLOCKED") : Apply(TaskEvent(t, m))
    BY DEF LoseTask
  <1>2. m \in TaskMoves /\ m[2] = "DISPATCHED" /\ m[3] = "BLOCKED"
    BY <1>1 DEF TaskMoves, Moves
  <1> DEFINE s == States(kernel)  n == [s EXCEPT ![t] = "BLOCKED"]
  <1>3. /\ KernelOK' /\ s[t] = "DISPATCHED" /\ States(kernel') = n
        /\ Advance(kernel, kernel')
    BY <1>1, <1>2, TaskStep DEF IInv, Types
  <1>4. /\ IndexIsRebuild' /\ PickedIsReady'
        /\ settling /\ settling' = settling /\ undone' = undone /\ taking' = taking \cup {t}
    BY <1>3, AdvanceRebuilds DEF IInv, Types, LoseTask, PickedIsReady
  <1>5. s \in [Task -> TaskState]
    BY Drawn DEF IInv
  <1>6. /\ Completed(n) = Completed(s)
        /\ ActiveTasks(n) = ActiveTasks(s) \ {t} /\ t \in ActiveTasks(s)
        /\ n[t] = "BLOCKED" /\ \A u \in Task \ {t} : n[u] = s[u]
        /\ s[t] \notin Unstarted
    BY <1>3, <1>5 DEF Completed, Complete, ActiveTasks, ActiveState, Unstarted
  <1> HIDE DEF n
  <1>7. Types'
    BY <1>3, <1>4 DEF IInv, Types
  <1>8. StartedInOrder'
    BY <1>3, <1>4, <1>6 DEF IInv, StartedInOrder
  <1>9. LoopWaits'
    BY <1>3, <1>4, <1>6 DEF IInv, Types, LoopWaits
  <1>10. Held' = Held
    BY <1>3, <1>4, <1>6 DEF Held, Active
  <1>11. HeldApart' /\ HeldWithin'
    BY <1>4, <1>10 DEF IInv, HeldApart, HeldWithin
  <1> QED BY <1>4, <1>7, <1>8, <1>9, <1>11 DEF IInv

\* What it leases again it has held all the time.
LEMMA LeaseBackStep ==
  ASSUME IInv, NEW t \in Task, LeaseBack(t)
  PROVE  IInv'
  <1>1. PICK m \in Moves("LEASE_ACQUIRED", {"READY"}, "LEASED") : Apply(TaskEvent(t, m))
    BY DEF LeaseBack
  <1>2. m \in TaskMoves /\ m[2] = "READY" /\ m[3] = "LEASED"
    BY <1>1 DEF TaskMoves, Moves
  <1> DEFINE s == States(kernel)  n == [s EXCEPT ![t] = "LEASED"]
  <1>3. /\ KernelOK' /\ s[t] = "READY" /\ States(kernel') = n
        /\ Advance(kernel, kernel')
    BY <1>1, <1>2, TaskStep DEF IInv, Types
  <1>4. /\ IndexIsRebuild' /\ PickedIsReady' /\ t \in taking
        /\ settling /\ settling' = settling /\ undone' = undone /\ taking' = taking \ {t}
    BY <1>3, AdvanceRebuilds DEF IInv, Types, LeaseBack, PickedIsReady
  <1>5. s \in [Task -> TaskState]
    BY Drawn DEF IInv
  <1>6. /\ Completed(n) = Completed(s)
        /\ ActiveTasks(n) = ActiveTasks(s) \cup {t}
        /\ \A u \in Task \ {t} : n[u] = s[u]
    BY <1>3, <1>5 DEF Completed, Complete, ActiveTasks, ActiveState
  <1> HIDE DEF n
  <1>7. Types'
    BY <1>3, <1>4 DEF IInv, Types
  <1>8. StartedInOrder'
    BY <1>3, <1>4, <1>6 DEF IInv, StartedInOrder
  <1>9. LoopWaits'
    BY <1>3, <1>4, <1>6 DEF IInv, Types, LoopWaits
  <1>10. Held' = Held
    BY <1>3, <1>4, <1>6 DEF Held, Active
  <1>11. HeldApart' /\ HeldWithin'
    BY <1>4, <1>10 DEF IInv, HeldApart, HeldWithin
  <1> QED BY <1>4, <1>7, <1>8, <1>9, <1>11 DEF IInv

\* The loop begins when nothing is on its way back.
LEMMA SettledStep ==
  ASSUME IInv, Settled
  PROVE  IInv'
  <1>1. /\ UNCHANGED <<kernel, index, mismatch, picked, taking, undone>>
        /\ settling' = FALSE /\ AllTakenBack
    BY DEF Settled
  <1>2. undone = 0 => taking = {}
    BY <1>1 DEF IInv, Types, LoopWaits, AllTakenBack, States
  <1>3. LoopWaits'
    BY <1>1, <1>2 DEF LoopWaits
  <1>4. Types' /\ IndexIsRebuild' /\ PickedIsReady' /\ StartedInOrder'
    BY <1>1 DEF IInv, Types, KernelOK, IndexIsRebuild, PickedIsReady, StartedInOrder
  <1>5. Held' = Held
    BY <1>1 DEF Held, Active
  <1>6. HeldApart' /\ HeldWithin'
    BY <1>1, <1>5 DEF IInv, HeldApart, HeldWithin
  <1> QED BY <1>3, <1>4, <1>6 DEF IInv

\* Nothing that an event of the run does starts a task.
LEMMA RunMovesStep ==
  ASSUME IInv, RunMoves
  PROVE  IInv'
  <1>1. PICK m \in RunMovesFrom[kernel.phase] \cup RunMovesFrom[kernel.status] :
               Apply(RunEvent(m))
    BY DEF RunMoves
  <1>2. m \in PhaseMoves \cup StatusMoves
    BY <1>1 DEF IInv, Types, KernelOK, RunMovesFrom
  <1>3. /\ KernelOK' /\ Advance(kernel, kernel')
        /\ \/ States(kernel') = States(kernel)
           \/ \A t \in Task : /\ States(kernel)[t] = "PROPOSED"
                              /\ States(kernel')[t] = "APPROVED"
    BY <1>1, <1>2, RunStep DEF IInv, Types
  <1>4. /\ IndexIsRebuild' /\ PickedIsReady'
        /\ settling' = settling /\ taking' = taking /\ undone' = undone
    BY <1>3, AdvanceRebuilds DEF IInv, RunMoves, PickedIsReady
  <1>5. Types'
    BY <1>3, <1>4 DEF IInv, Types
  <1>6. CASE States(kernel') = States(kernel)
    <2>1. Held' = Held
      BY <1>4, <1>6 DEF Held, Active
    <2>2. StartedInOrder' /\ LoopWaits' /\ HeldApart' /\ HeldWithin'
      BY <1>4, <1>6, <2>1 DEF IInv, StartedInOrder, LoopWaits, HeldApart, HeldWithin
    <2> QED BY <1>4, <1>5, <2>2 DEF IInv
  <1>7. CASE \A t \in Task : /\ States(kernel)[t] = "PROPOSED"
                             /\ States(kernel')[t] = "APPROVED"
    <2>1. undone = 0 => taking = {}
      BY <1>7 DEF IInv, Types, LoopWaits
    <2>2. undone = 0 => Held' = {}
      BY <1>4, <1>7, <2>1 DEF Held, Active, ActiveTasks, ActiveState
    <2>3. StartedInOrder' /\ LoopWaits' /\ HeldApart'
      BY <1>4, <1>7, <2>1, <2>2 DEF StartedInOrder, Unstarted, LoopWaits, HeldApart
    <2>4. HeldWithin'
      <3>1. Cardinality({}) = 0 /\ 0 <= MaxConcurrency
        BY FS_EmptySet, ReadySetAssumption
      <3>2. undone = 0 => Cardinality(Held') <= MaxConcurrency
        BY <2>2, <3>1
      <3> QED BY <1>4, <3>2 DEF HeldWithin
    <2> QED BY <1>4, <1>5, <2>3, <2>4 DEF IInv
  <1> QED BY <1>3, <1>6, <1>7

\* Every other event of a task starts none, and leaves what is complete complete
\* unless it takes back a task.
LEMMA TaskMovesStep ==
  ASSUME IInv, TaskMovesOn
  PROVE  IInv'
  <1>0. PICK t \in Task : \E m \in TaskMovesFrom[kernel.task[t].state] :
               /\ m[1] \notin {"TASK_READY", "LEASE_ACQUIRED"}
               /\ Apply(TaskEvent(t, m))
               /\ undone' = undone + IF m[1] \in Undoes THEN 1 ELSE 0
    BY DEF TaskMovesOn
  <1>1. PICK m \in TaskMovesFrom[kernel.task[t].state] :
               /\ m[1] \notin {"TASK_READY", "LEASE_ACQUIRED"}
               /\ Apply(TaskEvent(t, m))
               /\ undone' = undone + IF m[1] \in Undoes THEN 1 ELSE 0
    BY <1>0
  <1>2. m \in TaskMoves
    BY <1>1 DEF IInv, Types, KernelOK, TaskMovesFrom
  <1> DEFINE s == States(kernel)  n == [s EXCEPT ![t] = m[3]]
  <1>3. /\ KernelOK' /\ s[t] = m[2] /\ States(kernel') = n
        /\ Advance(kernel, kernel')
    BY <1>1, <1>2, TaskStep DEF IInv, Types
  <1>4. /\ IndexIsRebuild' /\ PickedIsReady'
        /\ settling' = settling /\ taking' = taking
    BY <1>3, AdvanceRebuilds DEF IInv, TaskMovesOn, PickedIsReady
  <1>5. s \in [Task -> TaskState]
    BY Drawn DEF IInv
  <1>6. \A u \in Task : n[u] = IF u = t THEN m[3] ELSE s[u]
    BY <1>5
  <1>7. Held' \subseteq Held
    <2>1. ActiveTasks(n) \subseteq ActiveTasks(s)
      BY <1>1, <1>2, <1>3, <1>6, Tables DEF ActiveTasks
    <2> HIDE DEF n
    <2> QED BY <1>3, <1>4, <2>1 DEF Held, Active
  <1>8. /\ undone' \in Nat
        /\ undone' = 0 => undone = 0 /\ m[1] \notin Undoes
    BY <1>1 DEF IInv, Types
  <1>9. undone' = 0 => /\ Completed(s) \subseteq Completed(n)
                       /\ \A u \in Task : n[u] \notin Unstarted => s[u] \notin Unstarted
    BY <1>1, <1>2, <1>3, <1>6, <1>8, Tables DEF Completed, Undoes
  <1>10. undone' = 0 => (s[t] \in {"BLOCKED", "READY"} => n[t] = "READY")
    BY <1>1, <1>2, <1>3, <1>6, <1>8, Tables
  <1>11. \A u \in Task \ {t} : n[u] = s[u]
    BY <1>6
  <1> HIDE DEF n
  <1>12. StartedInOrder'
    BY <1>3, <1>4, <1>8, <1>9 DEF IInv, StartedInOrder
  <1>13. LoopWaits'
    BY <1>3, <1>4, <1>8, <1>10, <1>11 DEF IInv, Types, LoopWaits
  <1>14. HeldApart'
    BY <1>7, <1>8 DEF IInv, HeldApart
  <1>15. HeldWithin'
    <2>1. IsFiniteSet(Held) /\ Cardinality(Held) \in Nat
      BY HeldFinite DEF IInv
    <2>2. IsFiniteSet(Held') /\ Cardinality(Held') <= Cardinality(Held)
      BY <1>7, <2>1, FS_Subset
    <2>3. Cardinality(Held') \in Nat
      BY <2>2, FS_CardinalityType
    <2> QED BY <1>8, <2>1, <2>2, <2>3, ReadySetAssumption DEF IInv, HeldWithin
  <1>16. Types'
    BY <1>3, <1>4, <1>8 DEF IInv, Types
  <1> QED BY <1>4, <1>12, <1>13, <1>14, <1>15, <1>16 DEF IInv

\* A new coordinator settles what the last one left.
LEMMA RestartStep ==
  ASSUME IInv, Restart
  PROVE  IInv'
  <1>1. /\ kernel' = kernel /\ taking' = taking /\ undone' = undone /\ settling' = TRUE
        /\ Types' /\ IndexIsRebuild' /\ PickedIsReady'
    BY DEF Restart, IInv, Types, KernelOK, IndexIsRebuild, PickedIsReady
  <1>2. Held' = Held
    BY <1>1 DEF Held, Active
  <1> QED BY <1>1, <1>2 DEF IInv, StartedInOrder, LoopWaits, HeldApart, HeldWithin

\* The invariant is inductive.
LEMMA StepInv == IInv /\ [Next]_vars => IInv'
  <1> SUFFICES ASSUME IInv, [Next]_vars PROVE IInv'
    OBVIOUS
  <1>1. CASE \E t \in Task : MakeReady(t) \/ LeaseTask(t) \/ LoseTask(t) \/ LeaseBack(t)
    BY <1>1, MakeReadyStep, LeaseStep, LoseStep, LeaseBackStep
  <1>2. CASE Settled
    BY <1>2, SettledStep
  <1>3. CASE RunMoves
    BY <1>3, RunMovesStep
  <1>4. CASE TaskMovesOn
    BY <1>4, TaskMovesStep
  <1>5. CASE Restart
    BY <1>5, RestartStep
  <1>6. CASE UNCHANGED vars
    <2>1. Held' = Held
      BY <1>6 DEF vars, Held, Active
    <2> QED BY <1>6, <2>1 DEF vars, IInv, Types, KernelOK, IndexIsRebuild, PickedIsReady,
                              StartedInOrder, LoopWaits, HeldApart, HeldWithin
  <1> QED BY <1>1, <1>2, <1>3, <1>4, <1>5, <1>6 DEF Next

------------------------------------------------------------------------------
(* The theorems.                                                            *)

\* IInv holds in every reachable state.
LEMMA Invariance == Spec => []IInv
  BY InitInv, StepInv, PTL DEF Spec

\* GraphIndex.advance gives what GraphIndex.rebuild would, for every graph and every
\* sequence of events: no coordinator and no replay meets an index that drifted.
THEOREM IndexIsRebuildAlways == Spec => []IndexIsRebuild
  <1>1. IInv => IndexIsRebuild
    BY DEF IInv
  <1> QED BY <1>1, Invariance, PTL

\* _ready_tasks, the order of the graph and the wait for what is taken back keep tasks
\* with overlapping writable sets apart, as long as no task is reverted or invalidated.
THEOREM OverlapExcludedAlways == Spec => []OverlapExcluded
  <1>1. IInv => OverlapExcluded
    BY DEF IInv, HeldApart, Held, OverlapExcluded
  <1> QED BY <1>1, Invariance, PTL

\* The leases keep to max_concurrency, although reserve_task makes a task ready and
\* leases it in two events and reclaim_cancelled_dispatch does not ask for the limit, as
\* long as no task is reverted or invalidated.
THEOREM WithinConcurrencyAlways == Spec => []WithinConcurrency
  <1>1. ASSUME IInv PROVE WithinConcurrency
    <2>1. IsFiniteSet(Held) /\ Cardinality(Held) \in Nat /\ Active \subseteq Held
      BY <1>1, HeldFinite DEF IInv, Held
    <2>2. Cardinality(Active) <= Cardinality(Held) /\ Cardinality(Active) \in Nat
      BY <2>1, FS_Subset, FS_CardinalityType
    <2> QED BY <1>1, <2>1, <2>2, ReadySetAssumption DEF IInv, HeldWithin, WithinConcurrency
  <1> QED BY <1>1, Invariance, PTL

\* Whatever conflicts the graph has, _ready_tasks returns a task when some task may
\* start and none is active.
THEOREM NeverStuckAlways == Spec => []NeverStuck
  <1>1. IInv => NeverStuck
    <2> DEFINE s == States(kernel)  r == Remaining(s)
    <2>1. SUFFICES ASSUME IInv, kernel.phase = "EXECUTING", kernel.status = "RUNNING",
                          Active = {}, index.ready = {}, NEW t \in Candidates(s, r)
                   PROVE  FALSE
      BY DEF NeverStuck
    <2>2. Selects({}, s, r)
      BY <2>1, ReadyIsSelected DEF IInv
    <2>3. Before(t, {}) = {} /\ ActiveTasks(s) = {} /\ t \in Task
      BY <2>1 DEF Before, Active, Candidates
    <2>4. Cardinality({}) + Cardinality({}) < MaxConcurrency
      BY FS_EmptySet, ReadySetAssumption
    <2> QED BY <2>1, <2>2, <2>3, <2>4 DEF Selects
  <1> QED BY <1>1, Invariance, PTL
=============================================================================
