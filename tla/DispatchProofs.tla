---------------------------- MODULE DispatchProofs ----------------------------
(***************************************************************************)
(* Theorems about Dispatch, for every number of tasks, coordinators and    *)
(* stops: a task packet is not sent a second time unless the first turn    *)
(* was cancelled before it ended, no two workers of a task run, a worktree *)
(* that is handed out is clean, one child effect is open at a time, and    *)
(* tasks and attempts stay in step, whatever events are half appended.     *)
(* Where the provider does not tell late about an effect it had answered   *)
(* UNKNOWN to, at most one dispatch has an unknown outcome, nothing is     *)
(* appended inside an incomplete resume, no event is appended that the     *)
(* kernel rejects, and no more tasks are at work than the manifest allows. *)
(***************************************************************************)
EXTENDS DispatchInvariants, FiniteSetTheorems, SequenceTheorems, TLAPS

------------------------------------------------------------------------------
(* What an event does to the snapshot.                                      *)

\* The attempt moves that the events of a coordinator can be.
LEMMA AttemptMoveIs ==
  ASSUME NEW type, NEW from, NEW to, <<type, from, to>> \in AttemptMoves
  PROVE  /\ type = "ATTEMPT_RESERVED" => from \in {"PLANNED", "TERMINATED"}
         /\ type = "ATTEMPT_RESERVED" <=> to = "RESERVED"
         /\ from = "PLANNED" => type = "ATTEMPT_RESERVED"
         /\ type = "DISPATCH_REQUESTED" => from = "RESERVED"
         /\ type = "DISPATCH_REQUESTED" <=> to = "DISPATCH_REQUESTED"
         /\ to = "TERMINATED" => from \in {"RESERVED", "CANCEL_REQUESTED"}
         /\ to \in {"SUCCEEDED", "FAILED", "OUTCOME_UNKNOWN"} =>
              from \in {"DISPATCH_REQUESTED", "RUNNING", "CANCEL_REQUESTED"}
         /\ to = "RUNNING" => type = "DISPATCH_OBSERVED"
         /\ type = "CANCEL_REQUESTED" <=> to = "CANCEL_REQUESTED"
         /\ to = "CANCEL_REQUESTED" => from = "RUNNING"
         /\ from \notin {"SUCCEEDED", "FAILED", "OUTCOME_UNKNOWN"}
  BY DEF AttemptMoves, Moves

\* The task moves that the events of a coordinator can be.
LEMMA TaskMoveIs ==
  ASSUME NEW type, NEW from, NEW to, <<type, from, to>> \in TaskMoves
  PROVE  /\ to # "APPROVED"
         /\ type = "TASK_READY" => from = "APPROVED" /\ to = "READY"
         /\ type = "LEASE_ACQUIRED" => from = "READY" /\ to = "LEASED"
         /\ type = "TASK_RETRY_SCHEDULED" => from = "BLOCKED" /\ to = "READY"
         /\ type = "TASK_BLOCKED" <=> to = "BLOCKED"
         /\ to = "READY" => type \in {"TASK_READY", "TASK_RETRY_SCHEDULED",
                                      "REPAIR_SCHEDULED", "REWORK_SCHEDULED"}
  BY DEF TaskMoves, Moves

\* What an attempt event does to the snapshot.
LEMMA AttemptFolded ==
  ASSUME k \in AnySnapshot, NEW e \in AttemptEvent, Accepts(k, e), k' = Fold(k, e)
  PROVE  /\ k' \in AnySnapshot /\ OtherAttempts(e.task, e.attempt)
         /\ <<e.type, e.from, e.to>> \in AttemptMoves /\ e.epoch = k.epoch
         /\ Moved(e) \/ Added(e)
  <1> DEFINE t == e.task  n == e.attempt  A == k.attempt[t]
  <1>1. /\ t \in Task /\ n \in Nat \ {0} /\ e.subject = "attempt" /\ e.why \in Why
        /\ e.to \in AttemptState /\ A \in Seq(AnAttempt) /\ k.epoch \in Nat
    BY DEF AttemptEvent, AnySnapshot
  <1>2. AttemptAccepts(k, e) /\ k' = AttemptFold(k, e) /\ e.epoch = k.epoch
    BY <1>1 DEF Accepts, Fold
  <1>3. <<e.type, e.from, e.to>> \in AttemptMoves
    BY <1>2 DEF AttemptAccepts
  <1>4. CASE n \in DOMAIN A
    <2> DEFINE b == [state |-> e.to, why |-> e.why,
                     epoch |-> IF Reclaims(e) THEN e.epoch ELSE A[n].epoch]
    <2>1. k' = [k EXCEPT !.attempt = [k.attempt EXCEPT ![t] = [A EXCEPT ![n] = b]]]
      BY <1>2, <1>4 DEF AttemptFold
    <2>2. A[n] \in AnAttempt /\ b \in AnAttempt
      <3>1. A[n] \in AnAttempt
        BY <1>1, <1>4, ElementOfSeq, LenProperties
      <3> QED BY <1>1, <1>2, <3>1 DEF AnAttempt
    <2>3. [A EXCEPT ![n] = b] \in Seq(AnAttempt) /\ Len([A EXCEPT ![n] = b]) = Len(A)
      BY <1>1, <1>4, <2>2, ExceptSeq
    <2>4. k' \in AnySnapshot
      <3>1. [k.attempt EXCEPT ![t] = [A EXCEPT ![n] = b]] \in [Task -> Seq(AnAttempt)]
        BY <1>1, <2>3 DEF AnySnapshot
      <3> QED BY <2>1, <3>1 DEF AnySnapshot
    <2>5. k'.attempt = [k.attempt EXCEPT ![t] = [A EXCEPT ![n] = b]]
      BY <2>1 DEF AnySnapshot
    <2>6. k'.attempt[t] = [A EXCEPT ![n] = b]
      BY <1>1, <2>5 DEF AnySnapshot
    <2>7. OtherAttempts(t, n)
      BY <1>1, <2>1, <2>5, <2>6 DEF OtherAttempts, AnySnapshot
    <2>8. S(t, n) = e.from /\ (IF Reclaims(e) THEN TRUE ELSE e.reserved = A[n].epoch)
      BY <1>2, <1>4 DEF AttemptAccepts, S
    <2>9. e.from # "PLANNED"
      BY <2>2, <2>8 DEF AnAttempt, AttemptState, S
    <2>10. e.type = "ATTEMPT_RESERVED" <=> Reclaims(e)
      BY <1>3, <2>9, AttemptMoveIs DEF Reclaims
    <2>11. k'.attempt[t][n] = b
      BY <1>1, <1>4, <2>6
    <2>12. Moved(e)
      BY <1>2, <1>4, <2>3, <2>6, <2>8, <2>10, <2>11 DEF Moved, S
    <2> QED BY <1>2, <1>3, <2>4, <2>7, <2>12
  <1>5. CASE n \notin DOMAIN A
    <2> DEFINE b == [state |-> e.to, epoch |-> e.epoch, why |-> e.why]
    <2>1. k' = [k EXCEPT !.attempt = [k.attempt EXCEPT ![t] = Append(A, b)]]
      BY <1>2, <1>5 DEF AttemptFold
    <2>2. b \in AnAttempt
      BY <1>1, <1>2 DEF AnAttempt
    <2>3. /\ Append(A, b) \in Seq(AnAttempt) /\ Len(Append(A, b)) = Len(A) + 1
          /\ \A i \in 1..Len(A) : Append(A, b)[i] = A[i]
          /\ Append(A, b)[Len(A) + 1] = b
      BY <1>1, <2>2, AppendProperties
    <2>4. k' \in AnySnapshot
      <3>1. [k.attempt EXCEPT ![t] = Append(A, b)] \in [Task -> Seq(AnAttempt)]
        BY <1>1, <2>3 DEF AnySnapshot
      <3> QED BY <2>1, <3>1 DEF AnySnapshot
    <2>5. k'.attempt = [k.attempt EXCEPT ![t] = Append(A, b)]
      BY <2>1 DEF AnySnapshot
    <2>6. k'.attempt[t] = Append(A, b)
      BY <1>1, <2>5 DEF AnySnapshot
    <2>7. OtherAttempts(t, n)
      BY <1>1, <2>1, <2>3, <2>5, <2>6 DEF OtherAttempts, AnySnapshot
    <2>8. e.from = "PLANNED" /\ ~HasActive(k, t)
      BY <1>2, <1>5 DEF AttemptAccepts
    <2>9. e.type = "ATTEMPT_RESERVED" /\ e.to = "RESERVED"
      BY <1>3, <2>8, AttemptMoveIs
    <2>10. \A m \in DOMAIN A : S(t, m) \in Terminal
      BY <2>8 DEF HasActive, S
    <2>11. Added(e)
      BY <1>2, <1>5, <2>3, <2>6, <2>8, <2>9, <2>10 DEF Added, S
    <2> QED BY <1>2, <1>3, <2>4, <2>7, <2>11
  <1> QED BY <1>4, <1>5

\* What a task event does to the snapshot.
LEMMA TaskFolded ==
  ASSUME k \in AnySnapshot, NEW e \in TaskEvent, Accepts(k, e), k' = Fold(k, e)
  PROVE  /\ k' \in AnySnapshot
         /\ k'.attempt = k.attempt /\ k'.epoch = k.epoch /\ k'.status = k.status
         /\ <<e.type, e.from, e.to>> \in TaskMoves
         /\ State(e.task) = e.from /\ k'.task[e.task].state = e.to
         /\ \A u \in Task : u # e.task => k'.task[u] = k.task[u]
  <1>1. /\ e.task \in Task /\ e.subject = "task" /\ e.why \in Why /\ "none" \in Why
        /\ e.to \in TaskState
    BY DEF TaskEvent, Why
  <1> DEFINE b == [state |-> e.to,
                   why |-> IF e.to \in {"BLOCKED", "INVALIDATED", "REVERTED"} THEN e.why
                           ELSE "none"]
  <1>2. TaskAccepts(k, e) /\ k' = [k EXCEPT !.task = [k.task EXCEPT ![e.task] = b]]
    BY <1>1 DEF Accepts, Fold, TaskFold
  <1>3. b \in [state : TaskState, why : Why]
    BY <1>1
  <1>4. [k.task EXCEPT ![e.task] = b] \in [Task -> [state : TaskState, why : Why]]
    BY <1>1, <1>3 DEF AnySnapshot
  <1>5. k' \in AnySnapshot
    BY <1>2, <1>4 DEF AnySnapshot
  <1>6. /\ k'.task = [k.task EXCEPT ![e.task] = b]
        /\ k'.attempt = k.attempt /\ k'.epoch = k.epoch /\ k'.status = k.status
    BY <1>2 DEF AnySnapshot
  <1>7. k'.task[e.task] = b /\ \A u \in Task : u # e.task => k'.task[u] = k.task[u]
    BY <1>1, <1>6 DEF AnySnapshot
  <1>8. <<e.type, e.from, e.to>> \in TaskMoves /\ State(e.task) = e.from /\ b.state = e.to
    BY <1>2 DEF TaskAccepts, State
  <1> QED BY <1>5, <1>6, <1>7, <1>8

\* What a run event does to the snapshot.
LEMMA RunFolded ==
  ASSUME k \in AnySnapshot, NEW e \in RunEvent, Accepts(k, e), k' = Fold(k, e)
  PROVE  k' \in AnySnapshot /\ k'.attempt = k.attempt /\ k'.task = k.task
         /\ k'.epoch = k.epoch
  <1>1. ~IsPhase(e) /\ e.type # "TASK_GRAPH_FROZEN" /\ e.subject = "run"
    BY DEF IsPhase, PhaseMoves, RunEvent
  <1>2. k' = RunFold(k, e)
    BY <1>1 DEF Fold
  <1>3. e.to \in RunStatus /\ e.why \in Why /\ "none" \in Why
    BY DEF RunEvent, Why
  <1>4. k' = [k EXCEPT !.status = e.to,
                 !.why = IF e.to \in {"RUNNING", "PAUSED", "ARCHIVED"} THEN "none"
                         ELSE IF e.to = "CANCELLED" /\ e.why = "none" THEN k.why
                         ELSE e.why]
    BY <1>1, <1>2 DEF RunFold
  <1> DEFINE w == IF e.to \in {"RUNNING", "PAUSED", "ARCHIVED"} THEN "none"
                  ELSE IF e.to = "CANCELLED" /\ e.why = "none" THEN k.why ELSE e.why
  <1>5. w \in Why
    BY <1>3 DEF AnySnapshot
  <1>6. k' = [k EXCEPT !.status = e.to, !.why = w]
    BY <1>4
  <1> QED BY <1>3, <1>5, <1>6 DEF AnySnapshot

\* What the observation of an applied dispatch does to the snapshot.
LEMMA ObservedFolded ==
  ASSUME k \in AnySnapshot, NEW e \in DispatchEvent, ObservedAccepts(k, e),
         k' = ObservedFold(k, e)
  PROVE  Carried(e.task, e.attempt)
  <1> DEFINE t == e.task  n == e.attempt  A == k.attempt[t]
             b == [A[n] EXCEPT !.state = "RUNNING"]
             c == [k.task[t] EXCEPT !.state = "DISPATCHED"]
  <1>1. t \in Task /\ A \in Seq(AnAttempt) /\ n \in DOMAIN A
    BY DEF DispatchEvent, AnySnapshot, ObservedAccepts
  <1>2. k' = [k EXCEPT !.task = [k.task EXCEPT ![t] = c],
                       !.attempt = [k.attempt EXCEPT ![t] = [A EXCEPT ![n] = b]]]
    BY DEF ObservedFold
  <1>3. A[n] \in AnAttempt /\ b \in AnAttempt /\ c \in [state : TaskState, why : Why]
    <2>1. A[n] \in AnAttempt
      BY <1>1, ElementOfSeq, LenProperties
    <2>2. b \in AnAttempt
      BY <2>1 DEF AnAttempt, AttemptState
    <2>3. c \in [state : TaskState, why : Why]
      BY <1>1 DEF AnySnapshot, TaskState
    <2> QED BY <2>1, <2>2, <2>3
  <1>4. [A EXCEPT ![n] = b] \in Seq(AnAttempt) /\ Len([A EXCEPT ![n] = b]) = Len(A)
    BY <1>1, <1>3, ExceptSeq
  <1>5. /\ k'.task = [k.task EXCEPT ![t] = c] /\ k'.epoch = k.epoch
        /\ k'.attempt = [k.attempt EXCEPT ![t] = [A EXCEPT ![n] = b]]
    BY <1>2 DEF AnySnapshot
  <1>6. k' \in AnySnapshot
    <2>1. /\ [k.task EXCEPT ![t] = c] \in [Task -> [state : TaskState, why : Why]]
          /\ [k.attempt EXCEPT ![t] = [A EXCEPT ![n] = b]] \in [Task -> Seq(AnAttempt)]
      BY <1>1, <1>3, <1>4 DEF AnySnapshot
    <2> QED BY <1>2, <2>1 DEF AnySnapshot
  <1>7. k'.attempt[t] = [A EXCEPT ![n] = b] /\ k'.task[t] = c
    BY <1>1, <1>5 DEF AnySnapshot
  <1>8. k'.attempt[t][n] = b /\ b.state = "RUNNING" /\ b.epoch = A[n].epoch
    BY <1>1, <1>3, <1>7 DEF AnAttempt
  <1>9. c.state = "DISPATCHED"
    BY <1>1 DEF AnySnapshot
  <1>10. \A u \in Task : u # t => k'.task[u] = k.task[u] /\ k'.attempt[u] = k.attempt[u]
    BY <1>1, <1>5 DEF AnySnapshot
  <1>11. \A m \in DOMAIN A : m # n => k'.attempt[t][m] = A[m]
    BY <1>1, <1>7
  <1>12. S(t, n) = "DISPATCH_REQUESTED" /\ State(t) = "LEASED"
    BY DEF ObservedAccepts, S, State
  <1> QED
    BY <1>1, <1>4, <1>5, <1>6, <1>7, <1>8, <1>9, <1>10, <1>11, <1>12 DEF Carried

------------------------------------------------------------------------------
(* An event is appended.                                                    *)

\* The events that are left when the first is appended.
LEMMA Shift ==
  ASSUME DType, Took
  PROVE  /\ todo[1] \in Event /\ todo' \in Seq(Event)
         /\ DOMAIN todo = 1..Len(todo) /\ DOMAIN todo' = 1..Len(todo')
         /\ Len(todo) \in Nat /\ Len(todo') = Len(todo) - 1 /\ Len(todo) >= 1
         /\ todo' = <<>> <=> Len(todo) = 1
         /\ \A i \in DOMAIN todo' : i + 1 \in DOMAIN todo /\ todo'[i] = todo[i + 1]
         /\ \A i \in DOMAIN todo : i > 1 => i - 1 \in DOMAIN todo' /\ todo'[i - 1] = todo[i]
  <1>1. /\ Len(todo) \in Nat \ {0} /\ DOMAIN todo = 1..Len(todo)
        /\ todo' \in Seq(Event) /\ Len(todo') = Len(todo) - 1
        /\ \A i \in 1..Len(todo') : todo'[i] = todo[i + 1]
    BY HeadTailProperties, LenProperties, EmptySeq DEF DType, Took
  <1>2. todo[1] \in Event
    BY <1>1, ElementOfSeq DEF DType
  <1>3. DOMAIN todo' = 1..Len(todo')
    BY <1>1, LenProperties
  <1>4. todo' = <<>> <=> Len(todo') = 0
    BY <1>1, EmptySeq
  <1> QED BY <1>1, <1>2, <1>3, <1>4

\* What came before an event still does, unless it was just appended.
LEMMA BeforeShift ==
  ASSUME DType, Took, NEW i \in DOMAIN todo', NEW t, NEW n, NEW to,
         Before(i + 1, t, n, to)
  PROVE  Before(i, t, n, to)' \/ AttemptEventIs(1, t, n, to)
  <1>1. PICK j \in DOMAIN todo : j < i + 1 /\ AttemptEventIs(j, t, n, to)
    BY DEF Before
  <1>2. CASE j > 1
    <2>1. j - 1 \in DOMAIN todo' /\ todo'[j - 1] = todo[j] /\ j - 1 < i
      BY <1>1, <1>2, Shift
    <2> QED BY <1>1, <2>1 DEF Before, AttemptEventIs
  <1> QED BY <1>1, <1>2, Shift

\* One effect is open after the event, as before it.
LEMMA TookEffectInv ==
  ASSUME DType, EffectInv, Took,
         pending' = IF todo[1].subject # "effect" THEN pending
                    ELSE IF todo[1].status = "ASKED"
                    THEN pending \cup {<<todo[1].id, todo[1].op>>}
                    ELSE IF todo[1].status = "APPLIED"
                    THEN pending \ {<<todo[1].id, todo[1].op>>} ELSE pending
  PROVE  EffectInv'
  <1> DEFINE p == <<todo[1].id, todo[1].op>>
  <1> USE Shift DEF Took
  <1>1. \A i \in DOMAIN todo' : Asks(i)' => pc' \in Asking /\ i = Len(todo')
    BY DEF EffectInv, Asks
  <1>2. CASE Asks(1)
    <2>1. Len(todo) = 1 /\ pc \in Asking /\ todo' = <<>>
      BY <1>2 DEF EffectInv
    <2>2. todo[1] = Ask(OpOf[pc], at) /\ pending = {}
      BY <2>1 DEF EffectInv
    <2>3. p = <<at, OpOf[pc]>> /\ pending' = {p}
      BY <1>2, <2>2 DEF Ask, Asks
    <2> QED BY <1>1, <2>1, <2>3 DEF EffectInv, Asking, Unsettled
  <1>3. CASE ~Asks(1)
    <2>1. pending' \subseteq pending /\ (Closes(1) => pending' = {})
      BY <1>3 DEF Asks, Closes
    <2>2. \A q, r \in pending' : q = r
      BY <2>1 DEF EffectInv
    <2>3. pc' \notin Asking \cup Unsettled => pending' = {}
      BY <2>1 DEF EffectInv
    <2>4. ASSUME pc' \in Asking
          PROVE  /\ todo' # <<>> /\ todo'[Len(todo')] = Ask(OpOf[pc'], at')
                 /\ pending' = {}
      <3>1. todo[Len(todo)] = Ask(OpOf[pc], at)
        BY <2>4 DEF EffectInv
      <3>2. Len(todo) > 1
        BY <1>3, <3>1 DEF Asks, Ask
      <3>3. pending' = {}
        BY <2>1, <2>4 DEF EffectInv
      <3> QED BY <3>1, <3>2, <3>3
    <2> QED BY <1>1, <2>2, <2>3, <2>4 DEF EffectInv
  <1> QED BY <1>2, <1>3

\* Attempts and tasks are as they were.
LEMMA AttemptFrame ==
  ASSUME AttemptInv, SameAttempts, UNCHANGED <<recovery, resolved>>,
         pc' \in Waves => pc \in Waves \/ NothingKept
  PROVE  AttemptInv'
  BY DEF AttemptInv, NothingKept, SameAttempts, Held, Kept, LostAt, S, Engaged, Settled,
         IdOf, Latest, State

\* Neither the attempts nor the world changed.
LEMMA WorldFrame ==
  ASSUME SentInv, LiveInv, ResolvedInv, CleanInv, SameAttempts,
         UNCHANGED <<recovery, resolved, world>>
  PROVE  SentInv' /\ LiveInv' /\ ResolvedInv' /\ CleanInv'
  <1> USE DEF SameAttempts, world
  <1>1. SentInv'
    BY DEF SentInv, Sent, CalledOff, Known, Of
  <1>2. LiveInv'
    BY DEF LiveInv, Sent
  <1>3. ResolvedInv'
    BY DEF ResolvedInv, Sent, Known, Of
  <1>4. CleanInv'
    BY DEF CleanInv, Kept, LostAt, S
  <1> QED BY <1>1, <1>2, <1>3, <1>4

\* The order of the events that are left is kept: what came before event i + 1
\* and was not appended just now comes before event i.
LEMMA TodoFrame ==
  ASSUME IInv, Took, k'.attempt = k.attempt, k'.epoch = k.epoch,
         todo[1].subject # "attempt"
  PROVE  TodoInv'
  <1> USE Shift DEF IInv, Took
  <1> SUFFICES ASSUME NEW i \in DOMAIN todo'
               PROVE  /\ RunEventOK(i)' /\ TaskEventOK(i)' /\ AttemptEventOK(i)'
                      /\ EffectEventOK(i)' /\ DispatchEventOK(i)'
    BY DEF TodoInv
  <1>1. /\ RunEventOK(i + 1) /\ TaskEventOK(i + 1) /\ AttemptEventOK(i + 1)
        /\ EffectEventOK(i + 1) /\ DispatchEventOK(i + 1) /\ i + 1 \in DOMAIN todo
        /\ todo'[i] = todo[i + 1] /\ i + 1 # 1
    BY DEF TodoInv
  <1>2. \A t, n, to : Before(i + 1, t, n, to) => Before(i, t, n, to)'
    BY BeforeShift DEF AttemptEventIs
  <1>3. RunEventOK(i)' /\ EffectEventOK(i)' /\ DispatchEventOK(i)'
    BY <1>1 DEF RunEventOK, EffectEventOK, DispatchEventOK, world
  <1>4. TaskEventOK(i)'
    BY <1>1, <1>2 DEF TaskEventOK, Engaged, Settled, resume, S, IdOf
  <1>5. AttemptEventOK(i)'
    BY <1>1 DEF AttemptEventOK, CalledOff, NoWorker, Latest, world
  <1> QED BY <1>3, <1>4, <1>5

\* An event that moves no task and no attempt.
LEMMA TookQuiet ==
  ASSUME IInv, Took, SameAttempts, todo[1].subject \notin {"task", "attempt"}
  PROVE  AtInv' /\ WaveInv' /\ TodoInv'
  <1> USE Shift DEF IInv, Took, SameAttempts
  <1>1. AtInv'
    BY DEF AtInv, Known, Latest, S, LostAt, State, Of, world
  <1>2. WaveInv'
    <2>1. ASSUME NEW t, \E i \in DOMAIN todo : TaskEventIs(i, t, "LEASE_ACQUIRED")
          PROVE  \E i \in DOMAIN todo' : TaskEventIs(i, t, "LEASE_ACQUIRED")'
      <3>1. PICK i \in DOMAIN todo : TaskEventIs(i, t, "LEASE_ACQUIRED")
        BY <2>1
      <3>2. i > 1
        BY <3>1 DEF TaskEventIs
      <3> QED BY <3>1, <3>2 DEF TaskEventIs
    <2>2. ASSUME NEW t, \E i \in DOMAIN todo : todo[i].subject = "attempt" /\ todo[i].task = t
          PROVE  \E i \in DOMAIN todo' : todo'[i].subject = "attempt" /\ todo'[i].task = t
      <3>1. PICK i \in DOMAIN todo : todo[i].subject = "attempt" /\ todo[i].task = t
        BY <2>2
      <3>2. i > 1
        BY <3>1
      <3> QED BY <3>1, <3>2
    <2>3. \A t \in Task : \A n \in DOMAIN k.attempt[t] : Engaged(t, n)' <=> Engaged(t, n)
      BY DEF Engaged, Settled, resume, S, IdOf
    <2>4. pc = "prepare" => todo' = <<>>
      BY DEF WaveInv
    <2>5. ASSUME pc \in {"reserve", "prepare"}, NEW t \in wave
          PROVE  /\ \A n \in DOMAIN k.attempt[t] : ~Engaged(t, n)'
                 /\ \/ State(t)' = "LEASED"
                    \/ \E i \in DOMAIN todo' : TaskEventIs(i, t, "LEASE_ACQUIRED")'
      BY <2>1, <2>3, <2>5 DEF WaveInv, DType, State
    <2>6. ASSUME pc \in {"reserve", "prepare", "dispatch", "channel", "packet", "accept"},
                 NEW t \in wave
          PROVE  \/ Latest(t)' > 0
                 \/ \E i \in DOMAIN todo' : todo'[i].subject = "attempt" /\ todo'[i].task = t
      BY <2>2, <2>6 DEF WaveInv, Latest
    <2>7. pc \in {"dispatch", "channel", "packet"} => \A t \in left : State(t)' = "LEASED"
      BY DEF WaveInv, State
    <2> QED BY <2>4, <2>5, <2>6, <2>7 DEF WaveInv
  <1>3. TodoInv'
    BY TodoFrame
  <1> QED BY <1>1, <1>2, <1>3

\* A task moves.
LEMMA TookTask ==
  ASSUME IInv, Took, todo[1].subject = "task",
         Accepts(k, todo[1]), k' = Fold(k, todo[1])
  PROVE  /\ k' \in AnySnapshot
         /\ AttemptInv' /\ SentInv' /\ LiveInv' /\ ResolvedInv' /\ CleanInv'
         /\ AtInv' /\ WaveInv' /\ TodoInv'
  <1> DEFINE e == todo[1]
  <1>1. e \in TaskEvent
    BY Shift DEF IInv, Event, RunEvent, AttemptEvent, EffectEvent, DispatchEvent
  <1>2. /\ k' \in AnySnapshot /\ k'.attempt = k.attempt /\ k'.epoch = k.epoch
        /\ <<e.type, e.from, e.to>> \in TaskMoves
        /\ State(e.task) = e.from /\ k'.task[e.task].state = e.to
        /\ \A u \in Task : u # e.task => k'.task[u] = k.task[u]
    BY <1>1, TaskFolded DEF IInv, DType
  <1>3. TaskEventOK(1) /\ 1 \in DOMAIN todo
    BY Shift DEF IInv, TodoInv
  <1>4. \A t, n, to : ~Before(1, t, n, to)
    BY Shift DEF Before, IInv
  <1>5. AttemptInv'
    <2>0. \A t \in Task : \A n \in DOMAIN k.attempt[t] :
            /\ S(t, n)' = S(t, n) /\ Held(t, n)' = Held(t, n) /\ Kept(t, n)' = Kept(t, n)
            /\ LostAt(t, n)' = LostAt(t, n) /\ Engaged(t, n)' = Engaged(t, n)
            /\ Latest(t)' = Latest(t)
      BY <1>2 DEF Took, Held, Kept, LostAt, S, Engaged, Settled, IdOf, Latest, resume
    <2> SUFFICES ASSUME NEW t \in Task, NEW n \in DOMAIN k.attempt[t], Engaged(t, n)
                 PROVE  /\ State(t)' \notin {"APPROVED", "READY"}
                        /\ State(t)' = "BLOCKED" => S(t, n) \in {"OUTCOME_UNKNOWN", "FAILED"}
      BY <1>2, <2>0 DEF IInv, AttemptInv, Took
    <2>1. /\ State(t) \notin {"APPROVED", "READY"}
          /\ State(t) = "BLOCKED" => S(t, n) \in {"OUTCOME_UNKNOWN", "FAILED"}
      BY DEF IInv, AttemptInv
    <2>2. CASE t # e.task
      BY <1>2, <2>1, <2>2 DEF State
    <2>3. CASE t = e.task
      <3>1. /\ State(t)' = e.to /\ e.type # "TASK_READY" /\ e.to # "APPROVED"
            /\ e.type = "TASK_BLOCKED" <=> e.to = "BLOCKED"
            /\ e.to = "READY" => e.type = "TASK_RETRY_SCHEDULED"
        BY <1>1, <1>2, <2>1, <2>3, TaskMoveIs DEF State, TaskEvent
      <3> QED BY <1>1, <1>3, <1>4, <2>3, <3>1 DEF TaskEventOK, TaskEvent
    <2> QED BY <2>2, <2>3
  <1>6. SentInv' /\ LiveInv' /\ ResolvedInv' /\ CleanInv'
    <2>1. /\ UNCHANGED <<done, live, finished, dirty, resolved, recovery>>
          /\ \A id : Known(id)' = Known(id) /\ Of(id)' = Of(id)
          /\ \A id : Sent(id)' = Sent(id) /\ CalledOff(id)' = CalledOff(id)
          /\ \A t, n : Kept(t, n)' = Kept(t, n)
      BY <1>2 DEF Took, resume, world, Sent, CalledOff, Known, Of, Kept, LostAt, S
    <2>2. SentInv' /\ LiveInv'
      BY <2>1 DEF IInv, SentInv, LiveInv
    <2>3. ResolvedInv'
      BY <2>1 DEF IInv, ResolvedInv
    <2>4. CleanInv'
      BY <1>2, <2>1 DEF IInv, CleanInv
    <2> QED BY <2>2, <2>3, <2>4
  <1>7. AtInv'
    BY <1>2, <1>3 DEF IInv, AtInv, Took, TaskEventOK, Known, Latest, S, LostAt, Of, world
  <1>8. WaveInv'
    <2>1. ASSUME pc = "reserve", NEW t \in wave
          PROVE  /\ \A n \in DOMAIN k.attempt[t] : ~Engaged(t, n)'
                 /\ \/ State(t)' = "LEASED"
                    \/ \E i \in DOMAIN todo' : TaskEventIs(i, t, "LEASE_ACQUIRED")'
      <3>1. \A n \in DOMAIN k.attempt[t] : ~Engaged(t, n)'
        BY <1>2, <2>1 DEF IInv, WaveInv, DType, Took, Engaged, Settled, resume, S, IdOf
      <3>2. CASE State(t) = "LEASED"
        BY <1>2, <1>3, <2>1, <3>1, <3>2, TaskMoveIs DEF TaskEventOK, State, IInv, DType
      <3>3. CASE \E i \in DOMAIN todo : TaskEventIs(i, t, "LEASE_ACQUIRED")
        <4>1. PICK i \in DOMAIN todo : TaskEventIs(i, t, "LEASE_ACQUIRED")
          BY <3>3
        <4>2. CASE i = 1
          BY <1>2, <3>1, <4>1, <4>2, TaskMoveIs DEF TaskEventIs, State
        <4>3. CASE i > 1
          <5>1. i - 1 \in DOMAIN todo' /\ todo'[i - 1] = todo[i]
            BY <4>3, Shift DEF IInv
          <5> QED BY <3>1, <4>1, <5>1 DEF TaskEventIs
        <4> QED BY <4>2, <4>3, Shift DEF IInv
      <3> QED BY <2>1, <3>1, <3>2, <3>3 DEF IInv, WaveInv
    <2>2. ASSUME pc \in {"reserve", "accept"}, NEW t \in wave
          PROVE  \/ Latest(t)' > 0
                 \/ \E i \in DOMAIN todo' : todo'[i].subject = "attempt" /\ todo'[i].task = t
      <3>1. CASE Latest(t) > 0
        BY <1>2, <3>1 DEF Latest
      <3>2. CASE \E i \in DOMAIN todo : todo[i].subject = "attempt" /\ todo[i].task = t
        <4>1. PICK i \in DOMAIN todo : todo[i].subject = "attempt" /\ todo[i].task = t
          BY <3>2
        <4>2. i - 1 \in DOMAIN todo' /\ todo'[i - 1] = todo[i]
          BY <4>1, Shift DEF IInv
        <4> QED BY <4>1, <4>2
      <3> QED BY <2>2, <3>1, <3>2 DEF IInv, WaveInv
    <2>3. pc \in {"takeback", "wave", "reserve", "accept", "ending"}
      BY <1>3 DEF TaskEventOK
    <2> QED BY <1>2, <2>1, <2>2, <2>3 DEF WaveInv, Took
  <1>9. TodoInv'
    BY <1>2, TodoFrame
  <1> QED BY <1>2, <1>5, <1>6, <1>7, <1>8, <1>9

\* The attempts after the event: those from before, but one, and the added one.
LEMMA AttemptsAfter ==
  ASSUME DType, NEW e, AttemptTook(e)
  PROVE  /\ k'.task = k.task /\ k'.epoch = k.epoch
         /\ Moved(e) \/ Added(e)
         /\ \A u \in Task : \A m \in DOMAIN k.attempt[u] :
              /\ m \in DOMAIN k'.attempt[u]
              /\ u # e.task \/ m # e.attempt => k'.attempt[u][m] = k.attempt[u][m]
         /\ \A u \in Task : \A m \in DOMAIN k'.attempt[u] :
              \/ m \in DOMAIN k.attempt[u]
              \/ Added(e) /\ u = e.task /\ m = Latest(u)' /\ m = Latest(u) + 1
         /\ \A u \in Task : u # e.task \/ Moved(e) => Latest(u)' = Latest(u)
         /\ Added(e) => Latest(e.task)' = Latest(e.task) + 1
         /\ \A u \in Task : Latest(u) \in Nat
  <1> DEFINE t == e.task  n == e.attempt
  <1>1. k \in AnySnapshot /\ e \in AttemptEvent /\ t \in Task
    BY DEF DType, AttemptTook, AttemptEvent
  <1>2. k' \in AnySnapshot /\ OtherAttempts(t, n) /\ (Moved(e) \/ Added(e))
    BY <1>1, AttemptFolded DEF AttemptTook
  <1>3. \A u \in Task : DOMAIN k.attempt[u] = 1..Len(k.attempt[u]) /\ Len(k.attempt[u]) \in Nat
    BY <1>1, LenProperties DEF AnySnapshot
  <1>4. \A u \in Task : DOMAIN k'.attempt[u] = 1..Len(k'.attempt[u]) /\ Len(k'.attempt[u]) \in Nat
    BY <1>2, LenProperties DEF AnySnapshot
  <1>5. /\ \A u \in Task : u # t => k'.attempt[u] = k.attempt[u]
        /\ \A m \in DOMAIN k.attempt[t] : m # n => k'.attempt[t][m] = k.attempt[t][m]
        /\ k'.task = k.task /\ k'.epoch = k.epoch
    BY <1>2 DEF OtherAttempts
  <1>6. Moved(e) => Len(k'.attempt[t]) = Len(k.attempt[t])
    BY DEF Moved
  <1>7. Added(e) => Len(k'.attempt[t]) = Len(k.attempt[t]) + 1
    BY DEF Added
  <1>8. ASSUME NEW u \in Task, u # t
        PROVE  /\ \A m \in DOMAIN k.attempt[u] :
                    m \in DOMAIN k'.attempt[u] /\ k'.attempt[u][m] = k.attempt[u][m]
               /\ \A m \in DOMAIN k'.attempt[u] : m \in DOMAIN k.attempt[u]
               /\ Latest(u)' = Latest(u)
    BY <1>5, <1>8 DEF Latest
  <1>9. /\ \A m \in DOMAIN k.attempt[t] : m \in DOMAIN k'.attempt[t]
        /\ \A m \in DOMAIN k'.attempt[t] :
             m \in DOMAIN k.attempt[t]
             \/ (Added(e) /\ m = Len(k'.attempt[t]) /\ m = Len(k.attempt[t]) + 1)
    <2>1. /\ DOMAIN k.attempt[t] = 1..Len(k.attempt[t]) /\ Len(k.attempt[t]) \in Nat
          /\ DOMAIN k'.attempt[t] = 1..Len(k'.attempt[t])
      BY <1>1, <1>3, <1>4
    <2>2. CASE Moved(e)
      <3>1. DOMAIN k'.attempt[t] = DOMAIN k.attempt[t]
        BY <1>6, <2>1, <2>2
      <3> QED BY <3>1
    <2>3. CASE Added(e)
      <3> DEFINE l == Len(k.attempt[t])
      <3>1. l \in Nat /\ DOMAIN k.attempt[t] = 1..l /\ DOMAIN k'.attempt[t] = 1..(l + 1)
            /\ Len(k'.attempt[t]) = l + 1
        BY <1>7, <2>1, <2>3
      <3> HIDE DEF l
      <3>2. /\ \A m \in DOMAIN k.attempt[t] : m \in DOMAIN k'.attempt[t]
            /\ \A m \in DOMAIN k'.attempt[t] : m \in DOMAIN k.attempt[t] \/ m = l + 1
        BY <3>1
      <3> QED BY <2>3, <3>1, <3>2 DEF l
    <2> QED BY <1>2, <2>2, <2>3
  <1>10. /\ Moved(e) => Latest(t)' = Latest(t)
         /\ Added(e) => Latest(t)' = Latest(t) + 1
    <2>1. Latest(t)' = Len(k'.attempt[e.task]) /\ Latest(t) = Len(k.attempt[e.task])
      BY DEF Latest
    <2> QED BY <1>6, <1>7, <2>1
  <1>11. \A u \in Task : Latest(u) \in Nat
    BY <1>3 DEF Latest
  <1>12. /\ \A u \in Task : \A m \in DOMAIN k.attempt[u] : m \in DOMAIN k'.attempt[u]
         /\ \A u \in Task : \A m \in DOMAIN k.attempt[u] :
              u # t \/ m # n => k'.attempt[u][m] = k.attempt[u][m]
    BY <1>5, <1>8, <1>9
  <1>13. ASSUME NEW u \in Task, NEW m \in DOMAIN k'.attempt[u], m \notin DOMAIN k.attempt[u]
         PROVE  Added(e) /\ u = t /\ m = Latest(u)' /\ m = Latest(u) + 1
    <2>1. u = t
      BY <1>8, <1>13
    <2>2. Added(e) /\ m = Len(k'.attempt[t]) /\ m = Len(k.attempt[t]) + 1
      BY <1>9, <1>13, <2>1
    <2> QED BY <2>1, <2>2 DEF Latest
  <1> QED BY <1>2, <1>5, <1>8, <1>10, <1>11, <1>12, <1>13

\* An attempt event is about an attempt under the epoch it names.
LEMMA AttemptEventKnown ==
  ASSUME IInv, NEW e, AttemptTook(e)
  PROVE  AttemptFacts(e)
  <1>1. AttemptEventOK(1) /\ e = todo[1] /\ e \in AttemptEvent /\ e.subject = "attempt"
    BY Shift DEF IInv, TodoInv, AttemptTook, AttemptEvent
  <1>2. <<e.type, e.from, e.to>> \in AttemptMoves
    BY AttemptFolded DEF AttemptTook, IInv, DType
  <1>3. /\ e.task \in Task /\ e.attempt \in Nat \ {0} /\ e.to \in AttemptState
        /\ e.type \in {"ATTEMPT_RESERVED", "DISPATCH_REQUESTED", "ATTEMPT_RELEASED",
           "ATTEMPT_SUCCEEDED", "ATTEMPT_FAILED", "CANCEL_REQUESTED",
           "ATTEMPT_TERMINATED", "ATTEMPT_OUTCOME_UNKNOWN"}
    BY <1>1 DEF AttemptEvent
  <1>4. /\ e.to = "SUCCEEDED" => e.type = "ATTEMPT_SUCCEEDED"
        /\ e.to = "FAILED" => e.type = "ATTEMPT_FAILED"
        /\ e.to = "OUTCOME_UNKNOWN" => e.type = "ATTEMPT_OUTCOME_UNKNOWN"
    BY <1>2, <1>3 DEF AttemptMoves, Moves
  <1>5. e.to = "TERMINATED" /\ e.why = "LEASE_LOST" =>
          /\ pc \notin Waves /\ e.reserved < k.epoch /\ <<e.task, e.attempt>> \notin dirty
    BY <1>1 DEF AttemptEventOK, Waves
  <1> QED BY <1>1, <1>2, <1>3, <1>4, <1>5, AttemptMoveIs DEF AttemptEventOK, AttemptFacts

\* An attempt moves: the attempts of the journal ...
LEMMA AttemptTookAttemptInv ==
  ASSUME IInv, NEW e, AttemptTook(e)
  PROVE  AttemptInv'
  <1> DEFINE t == e.task  n == e.attempt
  <1>0. AttemptFacts(e)
    BY AttemptEventKnown
  <1> SUFFICES ASSUME NEW u \in Task, NEW m \in DOMAIN k'.attempt[u]
               PROVE  /\ Held(u, m)' => m = Latest(u)'
                      /\ Engaged(u, m)' =>
                           /\ m = Latest(u)'
                           /\ State(u)' \notin {"APPROVED", "READY"}
                           /\ State(u)' = "BLOCKED" =>
                                S(u, m)' \in {"OUTCOME_UNKNOWN", "FAILED"}
                      /\ LostAt(u, m)' => k'.attempt[u][m].epoch < k'.epoch
                      /\ pc' \in Waves /\ Kept(u, m)' => ~(k'.attempt[u][m].epoch < k'.epoch)
    BY DEF AttemptInv
  <1>1. State(u)' = State(u) /\ k'.epoch = k.epoch /\ pc' = pc /\ k.epoch \in Nat
    BY AttemptsAfter DEF IInv, State, AttemptTook, Took, DType, AnySnapshot
  <1>2. CASE m \notin DOMAIN k.attempt[u]
    <2>1. Added(e) /\ u = t /\ m = Latest(u)' /\ m = Latest(u) + 1
      BY <1>2, AttemptsAfter DEF IInv
    <2>2. S(u, m)' = "RESERVED" /\ k'.attempt[u][m].epoch = k.epoch
      BY <2>1 DEF Added, S, Latest
    <2> QED BY <1>1, <2>1, <2>2 DEF Engaged, LostAt
  <1>3. CASE m \in DOMAIN k.attempt[u] /\ u = t /\ m = n
    <2>1. Moved(e)
      BY <1>3, AttemptsAfter DEF IInv, Added
    <2>2. /\ S(u, m) = e.from /\ S(u, m)' = e.to /\ k'.attempt[u][m].why = e.why
          /\ e.to # "RESERVED" =>
               e.reserved = k.attempt[u][m].epoch /\ k'.attempt[u][m].epoch = e.reserved
          /\ Latest(u)' = Latest(u)
      <3>1. Latest(u)' = Latest(u)
        BY <1>3, <2>1, AttemptsAfter DEF IInv
      <3>2. e.type = "ATTEMPT_RESERVED" <=> e.to = "RESERVED"
        BY <1>0 DEF AttemptFacts
      <3> QED BY <1>3, <2>1, <3>1, <3>2 DEF Moved, S
    <2>3. S(u, m) \in AttemptState
      <3>1. k.attempt[u] \in Seq(AnAttempt)
        BY DEF IInv, DType, AnySnapshot
      <3>2. k.attempt[u][m] \in AnAttempt
        BY <1>3, <3>1, ElementOfSeq, LenProperties
      <3> QED BY <3>2 DEF AnAttempt, S
    <2>4. /\ Held(u, m) => m = Latest(u)
          /\ Engaged(u, m) => State(u) \notin {"APPROVED", "READY"} /\ m = Latest(u)
          /\ Engaged(u, m) /\ State(u) = "BLOCKED" => S(u, m) \in {"OUTCOME_UNKNOWN", "FAILED"}
      BY <1>3 DEF IInv, AttemptInv
    <2>5. e.from = "PLANNED" => FALSE
      BY <2>2, <2>3 DEF AttemptState
    <2>6. S(u, m) \notin Terminal => m = Latest(u)
      BY <2>4 DEF Held
    <2>7. Held(u, m)' => m = Latest(u)
      BY <1>3, <2>2, <2>3, <2>5, <2>6, <1>0 DEF AttemptFacts, Held, LostAt, Terminal, AttemptState
    <2>8. ASSUME Engaged(u, m)'
          PROVE  m = Latest(u) /\ State(u) \notin {"APPROVED", "READY", "BLOCKED"}
      <3>1. e.to \in {"DISPATCH_REQUESTED", "SUCCEEDED", "FAILED", "OUTCOME_UNKNOWN"}
        BY <2>2, <2>8, <1>0 DEF AttemptFacts, Engaged
      <3>2. CASE e.to = "DISPATCH_REQUESTED"
        <4>1. pc = "channel" /\ u = at[1]
          BY <1>3, <3>2, <1>0 DEF AttemptFacts
        <4>2. m = Latest(u)
          BY <2>2, <2>7, <3>2 DEF Held, Terminal
        <4> QED BY <4>1, <4>2 DEF IInv, AtInv, Asking
      <3>3. CASE e.to # "DISPATCH_REQUESTED"
        <4>1. S(u, m) \in {"DISPATCH_REQUESTED", "RUNNING"}
          BY <2>2, <3>1, <3>3, <1>0 DEF AttemptFacts
        <4>2. Engaged(u, m)
          BY <4>1 DEF Engaged
        <4> QED BY <2>4, <4>1, <4>2
      <3> QED BY <3>2, <3>3
    <2>9. LostAt(u, m)' => k'.attempt[u][m].epoch < k.epoch /\ pc \notin Waves
      BY <2>2, <1>0 DEF AttemptFacts, LostAt
    <2>10. S(u, m)' = "RESERVED" => pc \notin Waves
      BY <2>2, <2>5, <1>0 DEF AttemptFacts, Waves
    <2> QED BY <1>1, <2>2, <2>7, <2>8, <2>9, <2>10 DEF Kept
  <1>4. CASE m \in DOMAIN k.attempt[u] /\ (u # t \/ m # n)
    <2>1. k'.attempt[u][m] = k.attempt[u][m]
      BY <1>4, AttemptsAfter DEF IInv
    <2>2. UNCHANGED <<resolved, recovery>>
      BY DEF AttemptTook, Took, resume
    <2>3. /\ S(u, m)' = S(u, m)
          /\ (LostAt(u, m)' <=> LostAt(u, m))
          /\ (Held(u, m)' <=> Held(u, m))
          /\ (Engaged(u, m)' <=> Engaged(u, m))
          /\ (Kept(u, m)' <=> Kept(u, m))
      BY <2>1, <2>2 DEF S, LostAt, Held, Engaged, Kept, Settled, IdOf
    <2>4. Held(u, m) \/ Engaged(u, m) => Latest(u)' = Latest(u)
      <3>1. CASE u # t \/ Moved(e)
        BY <3>1, AttemptsAfter DEF IInv
      <3>2. CASE u = t /\ Added(e)
        <4>1. pc = "reserve" /\ t \in wave
          BY <3>2, <1>0 DEF AttemptFacts, Added
        <4>2. ~Engaged(u, m)
          BY <1>4, <3>2, <4>1 DEF IInv, WaveInv
        <4>3. S(u, m) \in Terminal
          BY <1>4, <3>2 DEF Added
        <4>4. ~LostAt(u, m)
          BY <1>4, <4>1 DEF IInv, AttemptInv, Kept, Waves
        <4> QED BY <4>2, <4>3, <4>4 DEF Held
      <3> QED BY <3>1, <3>2, AttemptsAfter DEF IInv
    <2> QED BY <1>1, <1>4, <2>1, <2>3, <2>4 DEF IInv, AttemptInv
  <1> QED BY <1>2, <1>3, <1>4

\* ... what relates them to the world ...
LEMMA AttemptTookWorld ==
  ASSUME IInv, NEW e, AttemptTook(e)
  PROVE  SentInv' /\ LiveInv' /\ ResolvedInv' /\ CleanInv'
  <1>0. AttemptFacts(e)
    BY AttemptEventKnown
  <1>1. UNCHANGED <<resolved, recovery, done, live, finished, dirty, pc>>
    BY DEF AttemptTook, Took, resume, world
  <1>2. ASSUME NEW id \in AnId, Known(id)
        PROVE  /\ id[1] \in Task /\ id[2] \in DOMAIN k.attempt[id[1]]
               /\ id[2] \in DOMAIN k'.attempt[id[1]]
               /\ \/ Of(id)' = Of(id)
                  \/ /\ Moved(e) /\ id[1] = e.task /\ id[2] = e.attempt
                     /\ Of(id).state = e.from /\ Of(id)'.state = e.to
                     /\ e.to # "RESERVED" =>
                          e.reserved = Of(id).epoch /\ Of(id)'.epoch = Of(id).epoch
    <2>1. id[1] \in Task /\ id[2] \in DOMAIN k.attempt[id[1]]
      BY <1>2 DEF AnId, Known
    <2>2. id[2] \in DOMAIN k'.attempt[id[1]]
      BY <2>1, AttemptsAfter DEF IInv
    <2>3. CASE id[1] # e.task \/ id[2] # e.attempt
      <3>1. Of(id)' = Of(id)
        BY <2>1, <2>3, AttemptsAfter DEF Of, IInv
      <3> QED BY <2>1, <2>2, <3>1
    <2>4. CASE id[1] = e.task /\ id[2] = e.attempt
      <3>1. Moved(e)
        BY <2>1, <2>4, AttemptsAfter DEF Added, IInv
      <3> QED BY <1>0, <2>1, <2>2, <2>4, <3>1 DEF Moved, Of, S, AttemptFacts
    <2> QED BY <2>3, <2>4
  <1>3. SentInv'
    <2> SUFFICES ASSUME NEW id \in AnId, Sent(id)', ~CalledOff(id)'
                 PROVE  Known(id)' /\ Of(id)'.state \in Outcomes
      BY DEF SentInv
    <2>1. Sent(id) /\ ~CalledOff(id)
      BY <1>1 DEF Sent, CalledOff
    <2>2. Known(id) /\ Of(id).state \in Outcomes
      BY <2>1 DEF IInv, SentInv
    <2>3. CASE Of(id)' = Of(id)
      BY <1>2, <2>2, <2>3 DEF Known
    <2>4. CASE Of(id)' # Of(id)
      <3>1. /\ id[1] = e.task /\ id[2] = e.attempt /\ Of(id).state = e.from
            /\ Of(id)'.state = e.to
            /\ e.to # "RESERVED" =>
                 e.reserved = Of(id).epoch /\ Of(id)'.epoch = Of(id).epoch
        BY <1>2, <2>2, <2>4
      <3>2. e.from \in Outcomes \ {"SUCCEEDED", "FAILED", "OUTCOME_UNKNOWN"}
        BY <1>0, <2>2, <3>1 DEF AttemptFacts
      <3>3. e.to \notin {"DISPATCH_REQUESTED", "TERMINATED", "RUNNING"}
        BY <1>0, <3>2 DEF AttemptFacts, Outcomes
      <3>4. e.to # "RESERVED"
        <4>1. SUFFICES ASSUME e.to = "RESERVED" PROVE FALSE
          OBVIOUS
        <4>2. <<e.type, e.from, e.to>> \in AttemptMoves
          BY AttemptFolded DEF AttemptTook, IInv, DType
        <4> QED BY <3>2, <4>1, <4>2, AttemptMoveIs DEF Outcomes
      <3>5. e.to # "CANCEL_REQUESTED"
        <4>1. SUFFICES ASSUME e.to = "CANCEL_REQUESTED" PROVE FALSE
          OBVIOUS
        <4>2. CalledOff(<<e.task, e.attempt, e.reserved>>)
          BY <1>0, <4>1 DEF AttemptFacts
        <4>3. id = <<e.task, e.attempt, e.reserved>>
          BY <2>2, <3>1, <3>4 DEF Known, AnId
        <4> QED BY <2>1, <4>2, <4>3
      <3>6. e.to \in Outcomes
        BY <1>0, <3>3, <3>4, <3>5 DEF AttemptFacts, AttemptState, Outcomes
      <3> QED BY <1>2, <2>2, <3>1, <3>4, <3>6 DEF Known
    <2> QED BY <2>3, <2>4
  <1>4. LiveInv'
    BY <1>1 DEF IInv, LiveInv, Sent
  <1>5. ResolvedInv'
    <2> SUFFICES ASSUME NEW id \in AnId, id \in resolved \/ id = recovery.id
                 PROVE  Known(id)' /\ Of(id)'.state = "OUTCOME_UNKNOWN" /\ ~Sent(id)'
      BY <1>1 DEF ResolvedInv, IInv
    <2>1. Known(id) /\ Of(id).state = "OUTCOME_UNKNOWN" /\ ~Sent(id)
      BY DEF ResolvedInv, IInv
    <2>2. Of(id)' = Of(id)
      BY <1>0, <1>2, <2>1 DEF AttemptFacts
    <2> QED BY <1>1, <1>2, <2>1, <2>2 DEF Known, Sent
  <1>6. CleanInv'
    <2>1. \A d \in dirty : d[2] \in DOMAIN k'.attempt[d[1]]
      <3> SUFFICES ASSUME NEW d \in dirty PROVE d[2] \in DOMAIN k'.attempt[d[1]]
        OBVIOUS
      <3>1. d[1] \in Task /\ d[2] \in DOMAIN k.attempt[d[1]]
        BY DEF IInv, DType, CleanInv
      <3> QED BY <3>1, AttemptsAfter DEF IInv
    <2>2. ASSUME NEW u \in Task, NEW m \in DOMAIN k'.attempt[u], Kept(u, m)'
          PROVE  <<u, m>> \notin dirty
      <3>1. CASE m \notin DOMAIN k.attempt[u]
        <4>1. \A d \in dirty : d[2] \in DOMAIN k.attempt[d[1]]
          BY DEF IInv, CleanInv
        <4>2. SUFFICES ASSUME <<u, m>> \in dirty PROVE FALSE
          OBVIOUS
        <4>3. <<u, m>>[2] \in DOMAIN k.attempt[<<u, m>>[1]]
          BY <4>1, <4>2
        <4> QED BY <3>1, <4>3
      <3>2. CASE m \in DOMAIN k.attempt[u] /\ (u # e.task \/ m # e.attempt)
        <4>1. k'.attempt[u][m] = k.attempt[u][m]
          BY <3>2, AttemptsAfter DEF IInv
        <4>2. Kept(u, m)
          BY <2>2, <4>1 DEF Kept, LostAt, S
        <4> QED BY <3>2, <4>2 DEF IInv, CleanInv
      <3>3. CASE m \in DOMAIN k.attempt[u] /\ u = e.task /\ m = e.attempt
        <4>1. Moved(e)
          BY <3>3, AttemptsAfter DEF Added, IInv
        <4>2. S(u, m)' = e.to /\ k'.attempt[u][m].why = e.why /\ S(u, m) = e.from
          BY <3>3, <4>1 DEF Moved, S
        <4>3. e.from # "PLANNED"
          <5>1. k.attempt[u] \in Seq(AnAttempt)
            BY DEF IInv, DType, AnySnapshot
          <5>2. k.attempt[u][m] \in AnAttempt
            BY <3>3, <5>1, ElementOfSeq, LenProperties
          <5> QED BY <4>2, <5>2 DEF AnAttempt, S, AttemptState
        <4> QED BY <1>0, <2>2, <3>3, <4>2, <4>3 DEF Kept, LostAt, AttemptFacts
      <3> QED BY <3>1, <3>2, <3>3
    <2> QED BY <1>1, <2>1, <2>2 DEF CleanInv
  <1> QED BY <1>3, <1>4, <1>5, <1>6

\* ... where the coordinator is ...
LEMMA AttemptTookCoordinator ==
  ASSUME IInv, NEW e, AttemptTook(e)
  PROVE  AtInv' /\ WaveInv'
  <1>0. AttemptFacts(e)
    BY AttemptEventKnown
  <1>1. UNCHANGED <<resolved, recovery, done, live, finished, dirty, pc, at, wave, left, fresh>>
    BY DEF AttemptTook, Took, resume, world
  <1>2. pc \notin {"cancel", "recheck", "packet", "prepare", "dispatch"}
    BY <1>0 DEF AttemptFacts
  <1>3. k'.task = k.task /\ k'.epoch = k.epoch
    BY AttemptsAfter DEF IInv
  <1>4. AtInv'
    <2>1. ASSUME pc = "channel"
          PROVE  /\ Known(at)' /\ at[2] = Latest(at[1])'
                 /\ State(at[1])' = "LEASED" /\ at[1] \notin left
                 /\ Of(at)'.state = "DISPATCH_REQUESTED" /\ ~(at[3] < k'.epoch)
      <3>1. /\ e.to = "DISPATCH_REQUESTED" /\ e.from = "RESERVED"
            /\ at[1] = e.task /\ at[2] = e.attempt /\ at[3] = e.reserved
            /\ e.type # "ATTEMPT_RESERVED" /\ e.task \in Task
        BY <1>0, <2>1 DEF AttemptFacts
      <3>2. Known(at) /\ at[2] = Latest(at[1]) /\ State(at[1]) = "LEASED" /\ at[1] \notin left
        BY <2>1 DEF IInv, AtInv, Asking
      <3>3. Moved(e)
        BY <3>1, AttemptsAfter DEF Added, IInv
      <3>4. /\ S(at[1], at[2]) = "RESERVED" /\ at[2] \in DOMAIN k.attempt[at[1]]
            /\ Of(at)'.state = "DISPATCH_REQUESTED" /\ Of(at)'.epoch = at[3]
            /\ k.attempt[at[1]][at[2]].epoch = at[3]
        BY <1>1, <3>1, <3>3 DEF Moved, Of
      <3>5. ~(at[3] < k.epoch)
        BY <2>1, <3>1, <3>4 DEF IInv, AttemptInv, Kept, Waves
      <3>6. at[2] \in DOMAIN k'.attempt[at[1]] /\ Latest(at[1])' = Latest(at[1])
        BY <1>1, <3>1, <3>3, <3>4, AttemptsAfter DEF IInv
      <3> QED BY <1>1, <1>3, <3>2, <3>4, <3>5, <3>6 DEF Known, State
    <2> QED BY <1>1, <1>2, <2>1 DEF AtInv, Asking
  <1>5. WaveInv'
    <2>1. ASSUME pc = "reserve", NEW u \in wave
          PROVE  /\ \A m \in DOMAIN k'.attempt[u] : ~Engaged(u, m)'
                 /\ \/ State(u)' = "LEASED"
                    \/ \E i \in DOMAIN todo' : TaskEventIs(i, u, "LEASE_ACQUIRED")'
      <3>1. u \in Task /\ e.to = "RESERVED"
        BY <1>0, <2>1 DEF IInv, DType, AttemptFacts
      <3>2. ASSUME NEW m \in DOMAIN k'.attempt[u]
            PROVE  ~Engaged(u, m)'
        <4>1. CASE m \in DOMAIN k.attempt[u] /\ (u # e.task \/ m # e.attempt)
          <5>1. k'.attempt[u][m] = k.attempt[u][m]
            BY <3>1, <4>1, AttemptsAfter DEF IInv
          <5>2. ~Engaged(u, m)
            BY <2>1, <4>1 DEF IInv, WaveInv
          <5> QED BY <1>1, <5>1, <5>2 DEF Engaged, Settled, S, IdOf
        <4>2. CASE m \in DOMAIN k.attempt[u] /\ u = e.task /\ m = e.attempt
          <5>1. Moved(e)
            BY <4>2, AttemptsAfter DEF Added, IInv
          <5> QED BY <3>1, <4>2, <5>1 DEF Moved, Engaged, S
        <4>3. CASE m \notin DOMAIN k.attempt[u]
          <5>1. Added(e) /\ u = e.task /\ m = Latest(u) + 1
            BY <3>1, <3>2, <4>3, AttemptsAfter DEF IInv
          <5> QED BY <5>1 DEF Added, Engaged, S, Latest
        <4> QED BY <4>1, <4>2, <4>3
      <3>3. CASE State(u) = "LEASED"
        BY <1>3, <3>2, <3>3 DEF State
      <3>4. CASE \E i \in DOMAIN todo : TaskEventIs(i, u, "LEASE_ACQUIRED")
        <4>1. PICK i \in DOMAIN todo : TaskEventIs(i, u, "LEASE_ACQUIRED")
          BY <3>4
        <4>2. todo[1].subject = "attempt"
          BY DEF AttemptTook, AttemptEvent
        <4>3. i - 1 \in DOMAIN todo' /\ todo'[i - 1] = todo[i]
          BY <4>1, <4>2, Shift DEF TaskEventIs, IInv, AttemptTook
        <4>4. TaskEventIs(i - 1, u, "LEASE_ACQUIRED")'
          BY <4>1, <4>3 DEF TaskEventIs
        <4> QED BY <3>2, <4>3, <4>4
      <3> QED BY <2>1, <3>3, <3>4 DEF IInv, WaveInv
    <2>2. ASSUME pc \in {"reserve", "prepare", "dispatch", "channel", "packet", "accept"},
                 NEW u \in wave
          PROVE  \/ Latest(u)' > 0
                 \/ \E i \in DOMAIN todo' : todo'[i].subject = "attempt" /\ todo'[i].task = u
      <3>1. u \in Task /\ Latest(u) \in Nat
        BY AttemptsAfter DEF IInv, DType
      <3>2. CASE u = e.task
        <4>1. Moved(e) => Latest(u) > 0
          <5>1. k.attempt[u] \in Seq(AnAttempt)
            BY <3>1 DEF IInv, DType, AnySnapshot
          <5>2. DOMAIN k.attempt[u] = 1..Latest(u)
            BY <5>1, LenProperties DEF Latest
          <5> QED BY <3>1, <3>2, <5>2 DEF Moved
        <4> QED BY <3>1, <3>2, <4>1, AttemptsAfter DEF IInv
      <3>3. CASE u # e.task /\ Latest(u) > 0
        BY <3>1, <3>3, AttemptsAfter DEF IInv
      <3>4. CASE u # e.task /\ ~(Latest(u) > 0)
        <4>1. PICK i \in DOMAIN todo : todo[i].subject = "attempt" /\ todo[i].task = u
          BY <2>2, <3>4 DEF IInv, WaveInv
        <4>2. todo[1].task = e.task
          BY DEF AttemptTook
        <4>3. i - 1 \in DOMAIN todo' /\ todo'[i - 1] = todo[i]
          BY <3>4, <4>1, <4>2, Shift DEF IInv, AttemptTook
        <4> QED BY <4>1, <4>3
      <3> QED BY <3>2, <3>3, <3>4
    <2>3. pc = "channel" => \A u \in left : State(u)' = "LEASED"
      BY <1>3 DEF IInv, WaveInv, State
    <2> QED BY <1>1, <1>2, <2>1, <2>2, <2>3 DEF WaveInv
  <1> QED BY <1>4, <1>5

\* ... and the events that are left.
LEMMA AttemptTookTodoInv ==
  ASSUME IInv, NEW e, AttemptTook(e)
  PROVE  TodoInv'
  <1>0. AttemptFacts(e) /\ Took /\ DType
    BY AttemptEventKnown DEF AttemptTook, IInv
  <1>1. UNCHANGED <<resolved, recovery, done, live, finished, dirty, pc, at, wave, left, fresh>>
    BY DEF AttemptTook, Took, resume, world
  <1>2. k'.epoch = k.epoch /\ todo[1] = e /\ e.subject = "attempt"
    BY AttemptsAfter DEF IInv, AttemptTook, AttemptEvent
  <1> SUFFICES ASSUME NEW i \in DOMAIN todo'
               PROVE  /\ RunEventOK(i)' /\ TaskEventOK(i)' /\ AttemptEventOK(i)'
                      /\ EffectEventOK(i)' /\ DispatchEventOK(i)'
    BY DEF TodoInv
  <1>3. i + 1 \in DOMAIN todo /\ todo'[i] = todo[i + 1] /\ i + 1 # 1 /\ todo'[i] \in Event
    <2>1. todo' \in Seq(Event) /\ i \in 1..Len(todo')
      BY <1>0, Shift
    <2> QED BY <1>0, <2>1, Shift, ElementOfSeq
  <1>4. /\ RunEventOK(i + 1) /\ TaskEventOK(i + 1) /\ AttemptEventOK(i + 1)
        /\ EffectEventOK(i + 1) /\ DispatchEventOK(i + 1)
    BY <1>3 DEF IInv, TodoInv
  <1>5. RunEventOK(i)' /\ EffectEventOK(i)' /\ DispatchEventOK(i)'
    BY <1>1, <1>3, <1>4 DEF RunEventOK, EffectEventOK, DispatchEventOK
  <1>6. TaskEventOK(i)'
    <2> SUFFICES ASSUME todo'[i].subject = "task", NEW u, u = todo'[i].task
                 PROVE  TaskEventOK(i)'
      BY DEF TaskEventOK
    <2>1. u \in Task /\ pc \in {"takeback", "wave", "reserve", "accept", "ending"}
      BY <1>3, <1>4 DEF TaskEventOK, Event, TaskEvent, RunEvent, AttemptEvent, EffectEvent,
                        DispatchEvent
    <2>2. ASSUME NEW m \in DOMAIN k'.attempt[u], Engaged(u, m)', NEW to,
                 m \in DOMAIN k.attempt[u] /\ Engaged(u, m) => Before(i + 1, u, m, to)
          PROVE  Before(i, u, m, to)' \/ S(u, m)' \in to
      <3>1. ASSUME m \notin DOMAIN k.attempt[u]
            PROVE  FALSE
        <4>1. Added(e) /\ u = e.task /\ m = Latest(u) + 1
          BY <2>1, <2>2, <3>1, AttemptsAfter DEF IInv
        <4> QED BY <2>2, <4>1 DEF Added, Engaged, S, Latest
      <3>2. CASE u # e.task \/ m # e.attempt
        <4>1. k'.attempt[u][m] = k.attempt[u][m]
          BY <2>1, <3>1, <3>2, AttemptsAfter DEF IInv
        <4>2. Engaged(u, m)
          BY <1>1, <2>2, <4>1 DEF Engaged, Settled, S, IdOf
        <4>3. Before(i + 1, u, m, to) /\ ~AttemptEventIs(1, u, m, to)
          BY <1>2, <2>2, <3>1, <3>2, <4>2 DEF AttemptEventIs
        <4> QED BY <1>0, <4>3, BeforeShift
      <3>3. CASE u = e.task /\ m = e.attempt
        <4>1. Moved(e)
          BY <3>1, <3>3, AttemptsAfter DEF Added, IInv
        <4>2. S(u, m) = e.from /\ S(u, m)' = e.to
          BY <3>3, <4>1 DEF Moved, S
        <4>3. e.to \in {"SUCCEEDED", "FAILED", "OUTCOME_UNKNOWN"}
          BY <1>0, <2>1, <2>2, <4>2 DEF Engaged, AttemptFacts
        <4>4. Engaged(u, m)
          BY <1>0, <4>2, <4>3 DEF Engaged, AttemptFacts
        <4>5. Before(i, u, m, to)' \/ AttemptEventIs(1, u, m, to)
          BY <1>0, <2>2, <3>1, <4>4, BeforeShift
        <4> QED BY <1>2, <4>2, <4>5 DEF AttemptEventIs
      <3> QED BY <3>2, <3>3
    <2>3. ASSUME todo'[i].type = "TASK_RETRY_SCHEDULED",
                 NEW m \in DOMAIN k'.attempt[u], Engaged(u, m)'
          PROVE  Before(i, u, m, {"CANCEL_REQUESTED"})'
      <3>1. m \in DOMAIN k.attempt[u] /\ Engaged(u, m) =>
              Before(i + 1, u, m, {"CANCEL_REQUESTED"})
        BY <1>3, <1>4, <2>3 DEF TaskEventOK
      <3>2. S(u, m)' # "CANCEL_REQUESTED"
        BY <2>3 DEF Engaged
      <3> QED BY <2>2, <2>3, <3>1, <3>2
    <2>4. ASSUME todo'[i].type = "TASK_BLOCKED",
                 NEW m \in DOMAIN k'.attempt[u], Engaged(u, m)'
          PROVE  \/ S(u, m)' \in {"OUTCOME_UNKNOWN", "FAILED"}
                 \/ Before(i, u, m, {"CANCEL_REQUESTED", "OUTCOME_UNKNOWN", "FAILED"})'
      <3>1. m \in DOMAIN k.attempt[u] /\ Engaged(u, m) =>
              \/ S(u, m) \in {"OUTCOME_UNKNOWN", "FAILED"}
              \/ Before(i + 1, u, m, {"CANCEL_REQUESTED", "OUTCOME_UNKNOWN", "FAILED"})
        BY <1>3, <1>4, <2>4 DEF TaskEventOK
      <3>2. S(u, m)' # "CANCEL_REQUESTED"
        BY <2>4 DEF Engaged
      <3>3. CASE m \in DOMAIN k.attempt[u] /\ S(u, m) \in {"OUTCOME_UNKNOWN", "FAILED"}
        <4>1. u # e.task \/ m # e.attempt
          <5>1. SUFFICES ASSUME u = e.task /\ m = e.attempt PROVE FALSE
            OBVIOUS
          <5>2. Moved(e)
            BY <3>3, <5>1, AttemptsAfter DEF Added, IInv
          <5> QED BY <1>0, <3>3, <5>1, <5>2 DEF Moved, AttemptFacts
        <4>2. k'.attempt[u][m] = k.attempt[u][m]
          BY <2>1, <3>3, <4>1, AttemptsAfter DEF IInv
        <4> QED BY <3>3, <4>2 DEF S
      <3>4. CASE ~(m \in DOMAIN k.attempt[u] /\ S(u, m) \in {"OUTCOME_UNKNOWN", "FAILED"})
        <4>1. m \in DOMAIN k.attempt[u] /\ Engaged(u, m) =>
                Before(i + 1, u, m, {"CANCEL_REQUESTED", "OUTCOME_UNKNOWN", "FAILED"})
          BY <3>1, <3>4
        <4> QED BY <2>2, <2>4, <3>2, <4>1
      <3> QED BY <3>3, <3>4
    <2>5. /\ pc' = "reserve" => todo'[i].type \in {"TASK_READY", "LEASE_ACQUIRED"}
          /\ todo'[i].type = "LEASE_ACQUIRED" => pc' \in {"takeback", "reserve"}
      BY <1>1, <1>3, <1>4 DEF TaskEventOK
    <2> QED BY <1>1, <2>1, <2>3, <2>4, <2>5 DEF TaskEventOK
  <1>7. AttemptEventOK(i)'
    <2> SUFFICES ASSUME todo'[i].subject = "attempt", NEW u, u = todo'[i].task
                 PROVE  AttemptEventOK(i)'
      BY DEF AttemptEventOK
    <2>1. u \in Task
      BY <1>3 DEF Event, TaskEvent, RunEvent, AttemptEvent, EffectEvent, DispatchEvent
    <2>2. pc \in {"takeback", "reclaim"} => Latest(u)' = Latest(u)
      <3>1. pc \in {"takeback", "reclaim"} => Moved(e)
        BY <1>0, AttemptsAfter DEF Added, AttemptFacts, IInv
      <3> QED BY <2>1, <3>1, AttemptsAfter DEF IInv
    <2> QED BY <1>1, <1>2, <1>3, <1>4, <2>2 DEF AttemptEventOK, CalledOff, NoWorker
  <1> QED BY <1>5, <1>6, <1>7

\* The packet was sent: the task and the attempt move together.
LEMMA TookObserved ==
  ASSUME IInv, Took, NEW e \in DispatchEvent, e = todo[1], e.status = "APPLIED",
         ObservedAccepts(k, e), k' = ObservedFold(k, e)
  PROVE  /\ k' \in AnySnapshot
         /\ AttemptInv' /\ SentInv' /\ LiveInv' /\ ResolvedInv' /\ CleanInv'
         /\ AtInv' /\ WaveInv' /\ TodoInv'
  <1> DEFINE t == e.task  n == e.attempt
  <1> USE DEF Carried
  <1>1. Carried(t, n)
    BY ObservedFolded DEF IInv, DType
  <1>2. t \in Task /\ e.subject = "dispatch"
    BY DEF DispatchEvent
  <1>3. pc = "dispatch" /\ t \notin left /\ 1 \in DOMAIN todo
    BY <1>2, Shift DEF IInv, TodoInv, DispatchEventOK
  <1>4. UNCHANGED <<resolved, recovery, done, live, finished, dirty, pc, at, wave, left, fresh>>
    BY DEF Took, resume, world
  <1>5. /\ \A u \in Task : DOMAIN k'.attempt[u] = DOMAIN k.attempt[u]
        /\ \A u \in Task : Latest(u)' = Latest(u)
    <2>1. \A u \in Task : /\ DOMAIN k.attempt[u] = 1..Len(k.attempt[u])
                          /\ DOMAIN k'.attempt[u] = 1..Len(k'.attempt[u])
      <3>1. \A u \in Task : k.attempt[u] \in Seq(AnAttempt) /\ k'.attempt[u] \in Seq(AnAttempt)
        BY <1>1 DEF IInv, DType, AnySnapshot
      <3> QED BY <3>1, LenProperties
    <2>2. \A u \in Task : Len(k'.attempt[u]) = Len(k.attempt[u])
      BY <1>1
    <2> QED BY <2>1, <2>2 DEF Latest
  <1>6. ASSUME NEW u \in Task, NEW m \in DOMAIN k.attempt[u], u # t \/ m # n
        PROVE  k'.attempt[u][m] = k.attempt[u][m]
    <2>1. CASE u # t
      BY <1>1, <2>1
    <2>2. CASE u = t
      BY <1>1, <1>6, <2>2
    <2> QED BY <2>1, <2>2
  <1>7. AttemptInv'
    <2> SUFFICES ASSUME NEW u \in Task, NEW m \in DOMAIN k.attempt[u]
                 PROVE  /\ Held(u, m)' => m = Latest(u)
                        /\ Engaged(u, m)' =>
                             /\ m = Latest(u)
                             /\ State(u)' \notin {"APPROVED", "READY"}
                             /\ State(u)' = "BLOCKED" =>
                                  S(u, m)' \in {"OUTCOME_UNKNOWN", "FAILED"}
                        /\ LostAt(u, m)' => k'.attempt[u][m].epoch < k'.epoch
                        /\ Kept(u, m)' => ~(k'.attempt[u][m].epoch < k'.epoch)
      BY <1>5 DEF AttemptInv
    <2>1. n = Latest(t)
      BY <1>1, <1>2 DEF IInv, AttemptInv, Held, Terminal
    <2>2. CASE u = t /\ m = n
      <3>1. S(u, m)' = "RUNNING" /\ State(u)' = "DISPATCHED"
        BY <1>1, <2>2 DEF S, State
      <3> QED BY <2>1, <2>2, <3>1 DEF Held, Engaged, LostAt, Kept
    <2>3. CASE u # t \/ m # n
      <3>1. k'.attempt[u][m] = k.attempt[u][m]
        BY <1>6, <2>3
      <3>2. /\ S(u, m)' = S(u, m)
            /\ (LostAt(u, m)' <=> LostAt(u, m))
            /\ (Held(u, m)' <=> Held(u, m))
            /\ (Engaged(u, m)' <=> Engaged(u, m))
            /\ (Kept(u, m)' <=> Kept(u, m))
        BY <1>4, <3>1 DEF S, LostAt, Held, Engaged, Kept, Settled, IdOf
      <3>3. Engaged(u, m) => State(u)' = State(u)
        BY <1>1, <2>1, <2>3 DEF IInv, AttemptInv, State
      <3> QED BY <1>1, <1>3, <3>1, <3>2, <3>3 DEF IInv, AttemptInv, Waves
    <2> QED BY <2>2, <2>3
  <1>8. ASSUME NEW id \in AnId, Known(id)
        PROVE  /\ Known(id)'
               /\ \/ Of(id)' = Of(id)
                  \/ Of(id).state = "DISPATCH_REQUESTED" /\ Of(id)'.state = "RUNNING"
    <2>1. id[1] \in Task /\ id[2] \in DOMAIN k.attempt[id[1]] /\ Of(id).epoch = id[3]
      BY <1>8 DEF AnId, Known
    <2>2. CASE id[1] = t /\ id[2] = n
      <3>1. Of(id).state = "DISPATCH_REQUESTED" /\ Of(id)'.state = "RUNNING"
        BY <1>1, <2>2 DEF Of, S
      <3>2. Of(id)'.epoch = Of(id).epoch
        BY <1>1, <2>2 DEF Of
      <3>3. Known(id)'
        BY <1>5, <1>8, <2>1, <3>2 DEF Known
      <3> QED BY <3>1, <3>3
    <2>3. CASE id[1] # t \/ id[2] # n
      BY <1>5, <1>6, <2>1, <2>3 DEF Known, Of
    <2> QED BY <2>2, <2>3
  <1>9. SentInv'
    BY <1>4, <1>8 DEF IInv, SentInv, Sent, CalledOff, Outcomes
  <1>10. LiveInv' /\ ResolvedInv'
    BY <1>4, <1>8 DEF IInv, LiveInv, ResolvedInv, Sent
  <1>11. CleanInv'
    <2>1. \A d \in dirty : d[1] \in Task /\ d[2] \in DOMAIN k'.attempt[d[1]]
      BY <1>5 DEF IInv, CleanInv, DType
    <2>2. ASSUME NEW u \in Task, NEW m \in DOMAIN k.attempt[u], Kept(u, m)'
          PROVE  Kept(u, m)
      <3>1. u # t \/ m # n
        BY <1>1, <2>2 DEF Kept, LostAt, S
      <3> QED BY <1>6, <2>2, <3>1 DEF Kept, LostAt, S
    <2> QED BY <1>4, <1>5, <2>1, <2>2 DEF IInv, CleanInv
  <1>12. AtInv'
    BY <1>3, <1>4 DEF AtInv, Asking
  <1>13. \A i \in DOMAIN todo : todo[i].subject \notin {"run", "task", "attempt"}
    BY <1>3 DEF IInv, TodoInv, RunEventOK, TaskEventOK, AttemptEventOK
  <1>14. WaveInv'
    <2>1. \A u \in left : State(u)' = "LEASED"
      BY <1>1, <1>3 DEF IInv, WaveInv, DType, State
    <2>2. \A u \in wave : u \in Task /\ Latest(u)' > 0
      BY <1>3, <1>5, <1>13 DEF IInv, WaveInv, DType
    <2> QED BY <1>3, <1>4, <2>1, <2>2 DEF WaveInv
  <1>15. TodoInv'
    <2> SUFFICES ASSUME NEW i \in DOMAIN todo'
                 PROVE  /\ RunEventOK(i)' /\ TaskEventOK(i)' /\ AttemptEventOK(i)'
                        /\ EffectEventOK(i)' /\ DispatchEventOK(i)'
      BY DEF TodoInv
    <2>1. i + 1 \in DOMAIN todo /\ todo'[i] = todo[i + 1]
      BY Shift DEF IInv
    <2>2. EffectEventOK(i + 1) /\ DispatchEventOK(i + 1)
      BY <2>1 DEF IInv, TodoInv
    <2>3. EffectEventOK(i)' /\ DispatchEventOK(i)'
      BY <1>4, <2>1, <2>2 DEF EffectEventOK, DispatchEventOK
    <2>4. todo'[i].subject \notin {"run", "task", "attempt"}
      BY <1>13, <2>1
    <2> QED BY <2>3, <2>4 DEF RunEventOK, TaskEventOK, AttemptEventOK
  <1> QED BY <1>1, <1>7, <1>9, <1>10, <1>11, <1>12, <1>14, <1>15

------------------------------------------------------------------------------
(* The steps of the coordinator.                                            *)

\* The coordinator moves on: what is left to show is about its own state.
LEMMA ProcessStep ==
  ASSUME IInv, UNCHANGED <<k, pending, cancelled, recovery, resolved, dirty>>,
         todo' \in Seq(Event), pc' \in Point, fresh' \in BOOLEAN, wave' \subseteq Task,
         left' \subseteq wave', broken' \in {"no", "kernel", "recovery"},
         done' \subseteq AnEffect, live' \subseteq AnId, WorldInv',
         pc' \in Waves => pc \in Waves \/ NothingKept,
         EffectInv', AtInv', WaveInv', TodoInv', StageInv'
  PROVE  IInv'
  <1>1. DType'
    BY DEF IInv, DType
  <1>2. AttemptInv'
    BY AttemptFrame DEF IInv, SameAttempts
  <1> QED BY <1>1, <1>2 DEF IInv, WorldInv

\* Nothing happens in the world and in the journal.
LEMMA SameWorld ==
  ASSUME IInv, UNCHANGED <<k, pending, cancelled, recovery, resolved, world>>
  PROVE  WorldInv' /\ done' \subseteq AnEffect /\ live' \subseteq AnId
  <1>1. SentInv' /\ LiveInv' /\ ResolvedInv' /\ CleanInv'
    BY WorldFrame DEF IInv, SameAttempts
  <1>2. CancelInv'
    BY DEF IInv, CancelInv, world
  <1> QED BY <1>1, <1>2 DEF WorldInv, IInv, DType, world

\* It sets out to append events, none of them about an effect.
LEMMA EventsStep ==
  ASSUME IInv, UNCHANGED <<k, pending, cancelled, resume, world, fresh, broken>>,
         todo' \in Seq(Event), pc' \in Point \ (Asking \cup {"down"}), pc # "down",
         wave' \subseteq Task, left' \subseteq wave',
         pc' \in Waves => pc \in Waves \/ NothingKept,
         pc' \notin Unsettled => pending = {},
         \A i \in DOMAIN todo' : todo'[i].subject # "effect",
         pc' \in {"reconcile", "takeback", "cancel", "recheck", "reclaim", "wave"}
           => wave' = {},
         AtInv', WaveInv', TodoInv'
  PROVE  IInv'
  <1>1. EffectInv'
    BY DEF EffectInv, Asks, IInv
  <1>2. StageInv'
    BY DEF StageInv, IInv
  <1> QED BY <1>1, <1>2, SameWorld, ProcessStep DEF IInv, DType, resume, world

\* It has nothing left to append.
LEMMA QuietStep ==
  ASSUME IInv, UNCHANGED <<k, pending, cancelled, resume, world, fresh>>,
         todo' = <<>>, pc' \in Point \ Asking, wave' \subseteq Task, left' \subseteq wave',
         broken' \in {"no", "kernel", "recovery"}, broken' # "no" => pc' = "down",
         pc' \in Waves => pc \in Waves, pc' \notin Unsettled => pending = {},
         pc' \in {"reconcile", "takeback", "cancel", "recheck", "reclaim", "wave"}
           => wave' = {},
         AtInv', WaveInv'
  PROVE  IInv'
  <1>1. todo' \in Seq(Event) /\ DOMAIN todo' = {}
    OBVIOUS
  <1>2. EffectInv'
    BY <1>1 DEF EffectInv, IInv
  <1>3. TodoInv'
    BY <1>1 DEF TodoInv
  <1>4. StageInv'
    BY DEF StageInv
  <1> QED BY <1>1, <1>2, <1>3, <1>4, SameWorld, ProcessStep DEF IInv, DType, resume, world

\* It gives up.
LEMMA EndStep ==
  ASSUME IInv, UNCHANGED <<k, pending, cancelled, resume, world, fresh, wave, left>>,
         todo' = <<>>, pc' \in {"down", "ending"},
         broken' \in {"no", "kernel", "recovery"}, broken' # "no" => pc' = "down"
  PROVE  IInv'
  <1>1. AtInv' /\ WaveInv'
    BY DEF AtInv, WaveInv, Asking
  <1> QED BY <1>1, QuietStep DEF IInv, DType, Point, Asking, Unsettled, Waves

\* An event is appended and folded.
LEMMA AppendStep ==
  ASSUME IInv, AppendNext
  PROVE  IInv'
  <1> DEFINE e == todo[1]
  <1>1. Head(todo) = e /\ broken = "no" /\ pc # "down" /\ todo # <<>>
    BY DEF AppendNext, IInv, StageInv
  <1>2. CASE broken' # "no"
    <2>1. /\ UNCHANGED <<k, pending, cancelled>>
          /\ broken' \in {"no", "kernel", "recovery"} /\ todo' = <<>> /\ pc' = "down"
      BY <1>1, <1>2 DEF AppendNext, Commit
    <2> QED BY <2>1, EndStep DEF AppendNext
  <1>3. CASE broken' = "no"
    <2>1. Took
      BY <1>1, <1>3 DEF AppendNext, Took
    <2>2. /\ KernelTakes(e) /\ k' = KernelAfter(e)
          /\ IF e.subject = "effect" THEN EffectAfter(e) ELSE UNCHANGED <<pending, cancelled>>
      BY <1>1, <1>3 DEF AppendNext, Commit
    <2>3. e \in Event /\ todo' \in Seq(Event) /\ 1 \in DOMAIN todo
      BY <2>1, Shift DEF IInv
    <2>4. EffectInv'
      <3>1. pending' = IF e.subject # "effect" THEN pending
                       ELSE IF e.status = "ASKED" THEN pending \cup {<<e.id, e.op>>}
                       ELSE IF e.status = "APPLIED" THEN pending \ {<<e.id, e.op>>} ELSE pending
        BY <2>2 DEF EffectAfter
      <3> QED BY <2>1, <3>1, TookEffectInv DEF IInv
    <2>5. StageInv'
      BY <1>1, <1>3, <2>1 DEF StageInv, Took, IInv
    <2>6. ASSUME k' \in AnySnapshot
          PROVE  DType'
      <3>1. e.subject = "effect" => e \in EffectEvent
        BY <2>3 DEF Event, RunEvent, TaskEvent, AttemptEvent, DispatchEvent
      <3>2. pending' \subseteq AnEffect /\ cancelled' \subseteq AnId
        BY <2>2, <3>1 DEF EffectAfter, EffectEvent, AnEffect, IInv, DType
      <3> QED BY <2>1, <2>3, <2>6, <3>2 DEF IInv, DType, Took, resume, world
    <2>7. ASSUME k'.epoch = k.epoch
          PROVE  CancelInv'
      <3>1. UNCHANGED done
        BY <2>1 DEF Took, world
      <3>2. ASSUME NEW id \in AnId, <<id, "cancel">> \in pending', <<id, "cancel">> \notin pending
            PROVE  id[3] < k.epoch
        <4>1. e.subject = "effect" /\ e.status = "ASKED" /\ e.id = id /\ e.op = "cancel"
          BY <2>2, <3>2 DEF EffectAfter
        <4>2. pc \in Asking /\ todo[Len(todo)] = e
          BY <2>3, <4>1 DEF IInv, EffectInv, Asks
        <4>3. e = Ask(OpOf[pc], at)
          BY <1>1, <4>2 DEF IInv, EffectInv
        <4>4. pc = "cancel" /\ at = id
          BY <4>1, <4>2, <4>3 DEF Ask, OpOf, Asking
        <4> QED BY <4>4 DEF IInv, AtInv
      <3>3. ASSUME NEW id \in cancelled', id \notin cancelled
            PROVE  <<id, "cancel">> \in done
        <4>1. e.subject = "effect" /\ e.status = "APPLIED" /\ e.id = id /\ e.op = "cancel"
          BY <2>2, <3>3 DEF EffectAfter
        <4> QED BY <2>3, <4>1 DEF IInv, TodoInv, EffectEventOK
      <3> QED BY <2>7, <3>1, <3>2, <3>3 DEF IInv, CancelInv
    <2>8. ASSUME SameAttempts, k' \in AnySnapshot, e.subject \notin {"task", "attempt"}
          PROVE  IInv'
      <3>1. AttemptInv'
        BY <2>1, <2>8, AttemptFrame DEF IInv, Took, resume
      <3>2. SentInv' /\ LiveInv' /\ ResolvedInv' /\ CleanInv'
        BY <2>1, <2>8, WorldFrame DEF IInv, Took, resume
      <3>3. AtInv' /\ WaveInv' /\ TodoInv'
        BY <2>1, <2>8, TookQuiet
      <3>4. CancelInv'
        BY <2>7, <2>8 DEF SameAttempts
      <3> QED BY <2>4, <2>5, <2>6, <2>8, <3>1, <3>2, <3>3, <3>4 DEF IInv
    <2>9. CASE e \in EffectEvent
      BY <2>2, <2>8, <2>9 DEF KernelAfter, SameAttempts, EffectEvent, IInv, DType
    <2>10. CASE e \in DispatchEvent
      <3>1. e.subject = "dispatch"
        BY <2>10 DEF DispatchEvent
      <3>2. CASE e.status # "APPLIED"
        BY <2>2, <2>8, <3>1, <3>2 DEF KernelAfter, SameAttempts, IInv, DType
      <3>3. CASE e.status = "APPLIED"
        <4>1. ObservedAccepts(k, e) /\ k' = ObservedFold(k, e)
          BY <2>2, <3>1, <3>3 DEF KernelTakes, KernelAfter
        <4>2. /\ k' \in AnySnapshot
              /\ AttemptInv' /\ SentInv' /\ LiveInv' /\ ResolvedInv' /\ CleanInv'
              /\ AtInv' /\ WaveInv' /\ TodoInv'
          BY <2>1, <2>10, <3>3, <4>1, TookObserved
        <4>3. k'.epoch = k.epoch
          BY <2>10, <4>1, ObservedFolded DEF IInv, DType, Carried
        <4> QED BY <2>4, <2>5, <2>6, <2>7, <4>2, <4>3 DEF IInv
      <3> QED BY <3>2, <3>3
    <2>11. CASE e \in RunEvent
      <3>1. e.subject = "run" /\ Accepts(k, e) /\ k' = Fold(k, e)
        BY <2>2, <2>11 DEF RunEvent, KernelTakes, KernelAfter
      <3>2. k' \in AnySnapshot /\ SameAttempts
        BY <2>11, <3>1, RunFolded DEF SameAttempts, IInv, DType
      <3> QED BY <2>8, <3>1, <3>2
    <2>12. CASE e \in TaskEvent
      <3>1. e.subject = "task" /\ Accepts(k, e) /\ k' = Fold(k, e)
        BY <2>2, <2>12 DEF TaskEvent, KernelTakes, KernelAfter
      <3>2. /\ k' \in AnySnapshot
            /\ AttemptInv' /\ SentInv' /\ LiveInv' /\ ResolvedInv' /\ CleanInv'
            /\ AtInv' /\ WaveInv' /\ TodoInv'
        BY <2>1, <3>1, TookTask
      <3>3. k'.epoch = k.epoch
        BY <2>12, <3>1, TaskFolded DEF IInv, DType
      <3> QED BY <2>4, <2>5, <2>6, <2>7, <3>2, <3>3 DEF IInv
    <2>13. CASE e \in AttemptEvent
      <3>1. e.subject = "attempt" /\ Accepts(k, e) /\ k' = Fold(k, e)
        BY <2>2, <2>13 DEF AttemptEvent, KernelTakes, KernelAfter
      <3>2. AttemptTook(e)
        BY <2>1, <2>13, <3>1 DEF AttemptTook
      <3>3. k' \in AnySnapshot
        BY <2>13, <3>1, AttemptFolded DEF IInv, DType
      <3>4. AttemptInv' /\ TodoInv'
        BY <3>2, AttemptTookAttemptInv, AttemptTookTodoInv
      <3>5. SentInv' /\ LiveInv' /\ ResolvedInv' /\ CleanInv' /\ AtInv' /\ WaveInv'
        BY <3>2, AttemptTookWorld, AttemptTookCoordinator
      <3>6. k'.epoch = k.epoch
        BY <3>2, AttemptsAfter DEF IInv
      <3> QED BY <2>4, <2>5, <2>6, <2>7, <3>3, <3>4, <3>5, <3>6 DEF IInv
    <2> QED BY <2>3, <2>9, <2>10, <2>11, <2>12, <2>13 DEF Event
  <1> QED BY <1>2, <1>3

\* Nothing is open where the coordinator neither asks nor reconciles.
LEMMA NothingOpen ==
  ASSUME IInv, todo = <<>>, pc \notin Asking \cup Unsettled
  PROVE  pending = {}
  BY DEF IInv, EffectInv

\* The steps that stop the coordinator, or give up.
LEMMA GivesUpIs ==
  ASSUME GivesUp
  PROVE  /\ UNCHANGED <<journal, resume, world, fresh, wave, left>>
         /\ todo' = <<>> /\ pc' \in {"down", "ending"} /\ pc # "down"
         /\ UNCHANGED <<k, pending, doubted, cancelled, broken, recovery, done>>
  BY DEF GivesUp, Leave, Crash, Conflict, ReclaimBlocked, AcquireBlocked, Reclaimed,
     NothingToReserve, CollectBlocked, ReconcileBlocked, TakeBackBlocked, At, Goto, journal,
     resume, world

LEMMA StopSteps ==
  ASSUME IInv, GivesUp
  PROVE  IInv'
  <1>1. /\ UNCHANGED <<journal, resume, world, fresh, wave, left>>
        /\ todo' = <<>> /\ pc' \in {"down", "ending"} /\ pc # "down"
        /\ UNCHANGED <<k, pending, cancelled, broken>>
    BY GivesUpIs
  <1>2. broken = "no"
    BY <1>1 DEF IInv, StageInv
  <1> QED BY <1>1, <1>2, EndStep

\* An attempt of the snapshot is named by its identity.
LEMMA AttemptsKnown ==
  ASSUME DType
  PROVE  /\ \A t \in Task : \A n \in DOMAIN k.attempt[t] :
              /\ n \in Nat \ {0} /\ IdOf(t, n) \in AnId /\ Known(IdOf(t, n))
              /\ k.attempt[t][n].epoch \in Nat /\ S(t, n) \in AttemptState
         /\ \A id \in Attempts : id \in AnId /\ Known(id)
         /\ \A t \in Task : Latest(t) \in Nat /\ DOMAIN k.attempt[t] = 1..Latest(t)
  <1>1. \A t \in Task : /\ k.attempt[t] \in Seq(AnAttempt) /\ Len(k.attempt[t]) \in Nat
                        /\ DOMAIN k.attempt[t] = 1..Len(k.attempt[t])
    BY LenProperties DEF DType, AnySnapshot
  <1>2. ASSUME NEW t \in Task, NEW n \in DOMAIN k.attempt[t]
        PROVE  /\ n \in Nat \ {0} /\ IdOf(t, n) \in AnId /\ Known(IdOf(t, n))
               /\ k.attempt[t][n].epoch \in Nat /\ S(t, n) \in AttemptState
    <2>1. k.attempt[t][n] \in AnAttempt /\ n \in Nat \ {0}
      BY <1>1, <1>2, ElementOfSeq
    <2>2. k.attempt[t][n].epoch \in Nat /\ S(t, n) \in AttemptState
      BY <2>1 DEF AnAttempt, S
    <2> QED BY <1>2, <2>1, <2>2 DEF IdOf, AnId, Known, Of
  <1>3. \A id \in Attempts : \E t \in Task : \E n \in DOMAIN k.attempt[t] : id = IdOf(t, n)
    BY DEF Attempts
  <1> QED BY <1>1, <1>2, <1>3 DEF Latest

\* An identity the journal knows is the one of its task and number.
LEMMA KnownIs ==
  ASSUME NEW id, Known(id)
  PROVE  id[1] \in Task /\ id[2] \in DOMAIN k.attempt[id[1]] /\ id = IdOf(id[1], id[2])
         /\ Of(id).state = S(id[1], id[2])
  BY DEF Known, AnId, IdOf, Of, S

\* A packet that was sent, for a turn that was not cut short, is the latest of
\* its task and engages it.
LEMMA SentIs ==
  ASSUME IInv, NEW id \in AnId, Sent(id), ~CalledOff(id)
  PROVE  /\ Known(id) /\ Engaged(id[1], id[2]) /\ id[2] = Latest(id[1])
         /\ Of(id).state \in Outcomes
  <1>1. Known(id) /\ Of(id).state \in Outcomes
    BY DEF IInv, SentInv
  <1>2. ~Settled(id)
    BY DEF IInv, ResolvedInv, Settled
  <1>3. Engaged(id[1], id[2])
    BY <1>1, <1>2, KnownIs DEF Engaged, Outcomes
  <1> QED BY <1>1, <1>3, KnownIs DEF IInv, AttemptInv

\* A running worker is the latest of its task and engages it.
LEMMA LiveIs ==
  ASSUME IInv, NEW id \in live
  PROVE  /\ id \in AnId /\ Known(id) /\ Engaged(id[1], id[2]) /\ id[2] = Latest(id[1])
         /\ Of(id).state \in Outcomes /\ <<id, "cancel">> \notin done
  <1>1. id \in AnId /\ Sent(id) /\ <<id, "cancel">> \notin done
    BY DEF IInv, DType, LiveInv
  <1> QED BY <1>1, SentIs DEF CalledOff

\* The steps that go on without an event.
LEMMA MoveSteps ==
  ASSUME IInv,
         \/ Reconciled \/ TookBack \/ ReserveResumed \/ Reserved \/ Prepared
         \/ \E id \in Attempts : TakeBackCancelled(id)
  PROVE  IInv'
  <1>1. /\ UNCHANGED <<journal, resume, world, fresh, todo>>
        /\ todo = <<>> /\ pc # "down"
    BY DEF Reconciled, TookBack, ReserveResumed, Reserved, Prepared, TakeBackCancelled, At,
           Goto
  <1>2. /\ broken = "no" /\ UNCHANGED <<k, pending, cancelled, broken>>
        /\ wave \subseteq Task /\ left \subseteq wave
    BY <1>1 DEF IInv, StageInv, journal, DType
  <1>3. CASE Reconciled \/ TookBack
    <2>1. /\ pc' \in {"takeback", "reclaim"} /\ pending = {} /\ UNCHANGED <<wave, left>>
          /\ pc \in {"reconcile", "takeback"}
      BY <1>1, <1>3, NothingOpen
         DEF Reconciled, TookBack, Goto, At, NothingPending, Asking, Unsettled
    <2>2. AtInv' /\ WaveInv' /\ wave' = {}
      BY <2>1 DEF AtInv, WaveInv, Asking, IInv, StageInv
    <2> QED BY <1>1, <1>2, <2>1, <2>2, QuietStep DEF Point, Asking, Waves
  <1>4. ASSUME NEW id \in Attempts, TakeBackCancelled(id)
        PROVE  IInv'
    <2>1. /\ pc' = "recheck" /\ pc = "takeback" /\ at' = id /\ UNCHANGED <<wave, left>>
          /\ id \in ToTakeBack /\ id[2] = Latest(id[1]) /\ id \in cancelled
      BY <1>4 DEF TakeBackCancelled, Goto, At, Admitted, TurnIsCancelled
    <2>2. id \in AnId /\ Known(id)
      BY <1>4, AttemptsKnown DEF IInv
    <2>3. /\ S(id[1], id[2]) \in {"RUNNING", "CANCEL_REQUESTED"} \/ LostAt(id[1], id[2])
          /\ id[3] < k.epoch
      BY <2>1 DEF ToTakeBack, Stale, Lost, LostAt, S, Of
    <2>4. <<id, "cancel">> \in done
      BY <2>1 DEF IInv, CancelInv
    <2>5. AtInv'
      BY <1>1, <1>2, <2>1, <2>2, <2>3, <2>4
         DEF AtInv, Asking, Known, Of, Latest, S, LostAt, world
    <2>6. WaveInv' /\ wave' = {} /\ pending = {}
      BY <1>1, <2>1, NothingOpen DEF WaveInv, IInv, StageInv, Asking, Unsettled
    <2> QED BY <1>1, <1>2, <2>1, <2>5, <2>6, QuietStep DEF Point, Asking, Waves
  <1>5. CASE ReserveResumed
    <2>1. PICK W \in SUBSET Resumable : wave' = W /\ left' = W
      BY <1>5 DEF ReserveResumed
    <2>2. pc = "wave" /\ pc' = "prepare"
      BY <1>5 DEF ReserveResumed, At, Goto
    <2>3. \A t \in W : /\ t \in Task /\ State(t) = "LEASED" /\ Latest(t) > 0
                       /\ S(t, Latest(t)) = "RESERVED"
      BY <2>1 DEF Resumable, S
    <2>4. \A t \in W : \A n \in DOMAIN k.attempt[t] : ~Engaged(t, n)
      BY <2>3 DEF IInv, AttemptInv, Engaged
    <2>5. \A t \in W : /\ State(t)' = "LEASED" /\ Latest(t)' > 0
                       /\ \A n \in DOMAIN k'.attempt[t] : ~Engaged(t, n)'
      BY <1>1, <1>2, <2>3, <2>4 DEF State, Latest, Engaged, S, Settled, IdOf, resume
    <2>6. WaveInv' /\ AtInv' /\ pending = {}
      BY <1>1, <2>1, <2>2, <2>5, NothingOpen DEF WaveInv, AtInv, Asking, Unsettled
    <2> QED BY <1>1, <1>2, <2>1, <2>2, <2>3, <2>6, QuietStep DEF Point, Asking, Waves
  <1>6. CASE Reserved
    <2>1. pc = "reserve" /\ pc' = "prepare" /\ UNCHANGED <<wave, left>>
      BY <1>6 DEF Reserved, At, Goto
    <2>2. \A t \in wave : State(t) = "LEASED" /\ Latest(t) > 0
                          /\ \A n \in DOMAIN k.attempt[t] : ~Engaged(t, n)
      BY <1>1, <2>1 DEF IInv, WaveInv
    <2>3. WaveInv' /\ AtInv' /\ pending = {}
      BY <1>1, <1>2, <2>1, <2>2, NothingOpen
         DEF WaveInv, AtInv, Asking, Unsettled, State, Latest, Engaged, S, Settled, IdOf, resume
    <2> QED BY <1>1, <1>2, <2>1, <2>3, QuietStep DEF Point, Asking, Waves
  <1>7. CASE Prepared
    <2>1. pc = "prepare" /\ pc' = "dispatch" /\ wave' = wave /\ left' = wave
      BY <1>7 DEF Prepared, At, Goto
    <2>2. \A t \in wave : State(t) = "LEASED" /\ Latest(t) > 0
      BY <1>1, <2>1 DEF IInv, WaveInv
    <2>3. WaveInv' /\ AtInv' /\ pending = {}
      BY <1>1, <1>2, <2>1, <2>2, NothingOpen
         DEF WaveInv, AtInv, Asking, Unsettled, State, Latest
    <2> QED BY <1>1, <1>2, <2>1, <2>3, QuietStep DEF Point, Asking, Waves
  <1> QED BY <1>3, <1>4, <1>5, <1>6, <1>7

\* The provider carries out effects: a packet only of the dispatch that is
\* requested and not cancelled.
LEMMA WorldStep ==
  ASSUME IInv, UNCHANGED <<k, pending, cancelled, resume, dirty>>,
         done \subseteq done', finished \subseteq finished',
         \A id \in finished' : id \in finished \/ <<id, "cancel">> \notin done,
         \A id \in AnId :
           Sent(id)' => Sent(id) \/ (Known(id) /\ Of(id).state = "DISPATCH_REQUESTED"),
         \A id \in AnId : <<id, "cancel">> \in done' => id[3] < k.epoch,
         \A id \in live' : id \in AnId /\ Sent(id)' /\ <<id, "cancel">> \notin done'
  PROVE  WorldInv'
  <1>1. ASSUME NEW id \in AnId, Sent(id)', ~CalledOff(id)'
        PROVE  Known(id) /\ Of(id).state \in Outcomes
    <2>1. CASE Sent(id)
      <3>1. ~CalledOff(id)
        BY <1>1 DEF CalledOff
      <3> QED BY <2>1, <3>1 DEF IInv, SentInv
    <2>2. CASE ~Sent(id)
      BY <1>1, <2>2 DEF Outcomes
    <2> QED BY <2>1, <2>2
  <1>2. SentInv'
    BY <1>1 DEF SentInv, Known, Of
  <1>3. LiveInv'
    BY DEF LiveInv
  <1>4. ResolvedInv'
    BY DEF IInv, ResolvedInv, Known, Of, resume
  <1>5. CancelInv' /\ CleanInv'
    BY DEF IInv, CancelInv, CleanInv, Kept, LostAt, S
  <1> QED BY <1>2, <1>3, <1>4, <1>5 DEF WorldInv

\* One event before others.
LEMMA Prefixed ==
  ASSUME NEW E, NEW a \in E, NEW s \in Seq(E)
  PROVE  /\ <<a>> \o s \in Seq(E) /\ Len(<<a>> \o s) = Len(s) + 1
         /\ (<<a>> \o s)[1] = a /\ \A i \in 1..Len(s) : (<<a>> \o s)[i + 1] = s[i]
  <1>1. <<a>> \in Seq(E) /\ Len(<<a>>) = 1 /\ <<a>>[1] = a /\ Len(s) \in Nat
    OBVIOUS
  <1> QED BY <1>1, ConcatProperties

\* One event before one or two.
LEMMA PrefixedShort ==
  ASSUME NEW E, NEW a \in E, NEW u \in Seq(E), Len(u) \in {1, 2}, NEW s
  PROVE  s = <<a>> \o u =>
           /\ s \in Seq(E) /\ Len(s) \in {2, 3} /\ DOMAIN s = 1..Len(s)
           /\ s[1] = a /\ s[2] = u[1] /\ (Len(s) > 2 => Len(u) = 2 /\ s[3] = u[2])
  <1>1. SUFFICES ASSUME s = <<a>> \o u
                 PROVE  /\ s \in Seq(E) /\ Len(s) \in {2, 3} /\ DOMAIN s = 1..Len(s)
                        /\ s[1] = a /\ s[2] = u[1]
                        /\ (Len(s) > 2 => Len(u) = 2 /\ s[3] = u[2])
    OBVIOUS
  <1>2. /\ s \in Seq(E) /\ Len(s) = Len(u) + 1 /\ s[1] = a
        /\ \A i \in 1..Len(u) : s[i + 1] = u[i]
    BY <1>1, Prefixed
  <1>3. s[1 + 1] = u[1] /\ (Len(u) = 2 => s[2 + 1] = u[2])
    BY <1>2
  <1>4. DOMAIN s = 1..Len(s)
    BY <1>2, LenProperties
  <1> QED BY <1>2, <1>3, <1>4

\* One event before one.
LEMMA Prefixed1 ==
  ASSUME NEW E, NEW a \in E, NEW b \in E, NEW u, u = <<b>>, NEW s, s = <<a>> \o u
  PROVE  s \in Seq(E) /\ Len(s) = 2 /\ DOMAIN s = {1, 2} /\ s[1] = a /\ s[2] = b
  <1>1. u \in Seq(E) /\ Len(u) = 1 /\ u[1] = b
    OBVIOUS
  <1>2. s \in Seq(E) /\ Len(s) = 2 /\ s[1] = a /\ s[1 + 1] = u[1]
    BY <1>1, Prefixed
  <1>3. DOMAIN s = 1..2
    BY <1>2, LenProperties
  <1> QED BY <1>1, <1>2, <1>3

\* One event before four.
LEMMA Prefixed4 ==
  ASSUME NEW E, NEW a \in E, NEW b \in E, NEW c \in E, NEW d \in E, NEW e \in E,
         NEW u, u = <<b, c, d, e>>, NEW s, s = <<a>> \o u
  PROVE  /\ s \in Seq(E) /\ Len(s) = 5 /\ DOMAIN s = {1, 2, 3, 4, 5}
         /\ s[1] = a /\ s[2] = b /\ s[3] = c /\ s[4] = d /\ s[5] = e
  <1>1. u \in Seq(E) /\ Len(u) = 4 /\ u[1] = b /\ u[2] = c /\ u[3] = d /\ u[4] = e
    OBVIOUS
  <1>2. s \in Seq(E) /\ Len(s) = 5 /\ s[1] = a /\ s[1 + 1] = u[1] /\ s[2 + 1] = u[2]
        /\ s[3 + 1] = u[3] /\ s[4 + 1] = u[4]
    BY <1>1, Prefixed
  <1>3. DOMAIN s = 1..5
    BY <1>2, LenProperties
  <1> QED BY <1>1, <1>2, <1>3

\* The kinds of the events that the coordinator makes.
LEMMA EventKinds ==
  ASSUME DType
  PROVE  /\ "none" \in Why /\ "LEASE_LOST" \in Why /\ "GIT_STATE_CONFLICT" \in Why
         /\ "INVARIANT_VIOLATION" \in Why /\ "WORKER_OUTCOME_UNKNOWN" \in Why
         /\ "WORKER_FAILED" \in Why
         /\ \A why \in Why :
              /\ RunMove("RUN_BLOCKED", "RUNNING", "BLOCKED", why) \in Event
              /\ RunMove("RUN_RESUMED", "BLOCKED", "RUNNING", why) \in Event
         /\ \A t \in Task : State(t) \in TaskState
         /\ \A t \in Task : \A from, to \in TaskState : \A why \in Why :
              \A type \in {"TASK_READY", "LEASE_ACQUIRED", "TASK_BLOCKED",
                           "TASK_RETRY_SCHEDULED", "RESULT_STAGED",
                           "PROMOTION_OBSERVED", "TASK_VERIFIED"} :
                TaskMove(type, t, from, to, why) \in Event
         /\ \A id \in AnId : \A from \in AttemptState \cup {"PLANNED"} :
              \A to \in AttemptState : \A why \in Why :
                \A type \in {"ATTEMPT_RESERVED", "DISPATCH_REQUESTED", "ATTEMPT_RELEASED",
                             "ATTEMPT_SUCCEEDED", "ATTEMPT_FAILED", "CANCEL_REQUESTED",
                             "ATTEMPT_TERMINATED", "ATTEMPT_OUTCOME_UNKNOWN"} :
                  AttemptMove(type, id, from, to, why) \in Event
         /\ \A id \in AnId : \A op \in {"reserve", "send", "cancel"} :
              /\ Ask(op, id) \in Event
              /\ \A status \in {"APPLIED", "ABSENT", "UNKNOWN"} :
                   Tell(op, id, status) \in Event
         /\ \A id \in AnId : \A status \in {"APPLIED", "ABSENT", "UNKNOWN"} :
              Observed(id, status) \in Event
  <1>1. k.epoch \in Nat /\ \A t \in Task : State(t) \in TaskState
    BY DEF DType, AnySnapshot, State
  <1>2. \A why \in Why :
          /\ RunMove("RUN_BLOCKED", "RUNNING", "BLOCKED", why) \in Event
          /\ RunMove("RUN_RESUMED", "BLOCKED", "RUNNING", why) \in Event
    BY <1>1 DEF RunMove, Event, RunEvent, RunStatus
  <1>3. \A t \in Task : \A from, to \in TaskState : \A why \in Why :
          \A type \in {"TASK_READY", "LEASE_ACQUIRED", "TASK_BLOCKED",
                       "TASK_RETRY_SCHEDULED", "RESULT_STAGED",
                       "PROMOTION_OBSERVED", "TASK_VERIFIED"} :
            TaskMove(type, t, from, to, why) \in Event
    BY <1>1 DEF TaskMove, Event, TaskEvent
  <1>4. \A id \in AnId : \A from \in AttemptState \cup {"PLANNED"} :
          \A to \in AttemptState : \A why \in Why :
            \A type \in {"ATTEMPT_RESERVED", "DISPATCH_REQUESTED", "ATTEMPT_RELEASED",
                         "ATTEMPT_SUCCEEDED", "ATTEMPT_FAILED", "CANCEL_REQUESTED",
                         "ATTEMPT_TERMINATED", "ATTEMPT_OUTCOME_UNKNOWN"} :
              AttemptMove(type, id, from, to, why) \in Event
    BY <1>1 DEF AttemptMove, Event, AttemptEvent, AnId
  <1>5. \A id \in AnId : \A op \in {"reserve", "send", "cancel"} :
          /\ Ask(op, id) \in Event
          /\ \A status \in {"APPLIED", "ABSENT", "UNKNOWN"} :
               Tell(op, id, status) \in Event
    BY DEF Ask, Tell, Event, EffectEvent
  <1>6. \A id \in AnId : \A status \in {"APPLIED", "ABSENT", "UNKNOWN"} :
          Observed(id, status) \in Event
    BY <1>1 DEF Observed, Event, DispatchEvent, AnId
  <1> QED BY <1>1, <1>2, <1>3, <1>4, <1>5, <1>6 DEF Why

\* The events that block the run when a child effect was not applied.
LEMMA ChildBlocked ==
  ASSUME IInv, pc \in {"channel", "packet"}, todo = <<>>, pc' = "ending",
         UNCHANGED <<k, pending, cancelled, resume, dirty, fresh, broken, wave, left, at>>,
         done' \subseteq AnEffect, live' \subseteq AnId, WorldInv',
         NEW op \in {"reserve", "send"}, NEW status \in {"ABSENT", "UNKNOWN"},
         todo' = <<Tell(op, at, status)>> \o BlockUnknown(at, status)
  PROVE  IInv'
  <1> SUFFICES
        ASSUME NEW why, NEW e1, NEW e2, NEW e3, NEW e4, NEW e5,
               why = IF status = "UNKNOWN" THEN "WORKER_OUTCOME_UNKNOWN"
                     ELSE "INVARIANT_VIOLATION",
               e1 = Tell(op, at, status), e2 = Observed(at, status),
               e3 = AttemptMove("ATTEMPT_OUTCOME_UNKNOWN", at, "DISPATCH_REQUESTED",
                                "OUTCOME_UNKNOWN", why),
               e4 = TaskMove("TASK_BLOCKED", at[1], "LEASED", "BLOCKED", why),
               e5 = RunMove("RUN_BLOCKED", "RUNNING", "BLOCKED", why)
        PROVE  IInv'
    OBVIOUS
  <1>1. /\ at \in AnId /\ at[1] \in Task /\ at[1] \notin left
        /\ at[2] = Latest(at[1])
    BY DEF IInv, AtInv, Asking, Known, AnId
  <1>2. e1 \in Event /\ e2 \in Event /\ e3 \in Event /\ e4 \in Event /\ e5 \in Event
    <2>1. why \in Why
      BY DEF Why
    <2>2. e1 \in Event /\ e2 \in Event
      BY <1>1, EventKinds DEF IInv
    <2>3. "LEASED" \in TaskState /\ "BLOCKED" \in TaskState /\ "OUTCOME_UNKNOWN" \in AttemptState
          /\ "DISPATCH_REQUESTED" \in AttemptState \cup {"PLANNED"}
      BY DEF TaskState, AttemptState
    <2>4. e3 \in Event /\ e4 \in Event /\ e5 \in Event
      BY <1>1, <2>1, <2>3, EventKinds DEF IInv
    <2> QED BY <2>2, <2>4
  <1>3. /\ todo' \in Seq(Event) /\ DOMAIN todo' = {1, 2, 3, 4, 5} /\ Len(todo') = 5
        /\ todo'[1] = e1 /\ todo'[2] = e2 /\ todo'[3] = e3 /\ todo'[4] = e4 /\ todo'[5] = e5
    <2>1. BlockUnknown(at, status) = <<e2, e3, e4, e5>>
      BY DEF BlockUnknown
    <2> QED BY <1>2, <2>1, Prefixed4
  <1>4. /\ e1.subject = "effect" /\ e1.status = status
        /\ e2.subject = "dispatch" /\ e2.status = status /\ e2.task = at[1]
        /\ e3.subject = "attempt" /\ e3.type = "ATTEMPT_OUTCOME_UNKNOWN"
        /\ e3.to = "OUTCOME_UNKNOWN" /\ e3.task = at[1] /\ e3.attempt = at[2]
        /\ e3.from = "DISPATCH_REQUESTED"
        /\ e4.subject = "task" /\ e4.type = "TASK_BLOCKED" /\ e4.task = at[1]
        /\ e5.subject = "run"
    BY DEF Tell, Observed, AttemptMove, TaskMove, RunMove
  <1>6. EffectInv'
    BY <1>3, <1>4 DEF IInv, EffectInv, Asks, Unsettled, Asking
  <1>7. AtInv' /\ WaveInv' /\ StageInv'
    BY DEF AtInv, WaveInv, StageInv, Asking, IInv
  <1>8. TodoInv'
    <2>1. TaskEventOK(4)'
      <3> SUFFICES ASSUME NEW t, NEW n, t = at[1], n = at[2]
                   PROVE  TaskEventOK(4)'
        OBVIOUS
      <3>1. \A m \in DOMAIN k'.attempt[t] : Engaged(t, m)' => m = n
        BY <1>1 DEF IInv, AttemptInv, Engaged, Settled, S, IdOf, resume
      <3>2. Before(4, t, n, {"CANCEL_REQUESTED", "OUTCOME_UNKNOWN", "FAILED"})'
        <4>1. 3 \in DOMAIN todo' /\ 3 < 4
          BY <1>3
        <4> QED BY <1>3, <1>4, <4>1 DEF Before, AttemptEventIs
      <3> QED BY <1>3, <1>4, <3>1, <3>2 DEF TaskEventOK
    <2>2. /\ EffectEventOK(1)' /\ DispatchEventOK(2)' /\ AttemptEventOK(3)' /\ RunEventOK(5)'
      BY <1>1, <1>3, <1>4 DEF EffectEventOK, DispatchEventOK, AttemptEventOK, RunEventOK, Waves
    <2>3. ASSUME NEW i \in {1, 2, 3, 4, 5}
          PROVE  /\ RunEventOK(i)' /\ TaskEventOK(i)' /\ AttemptEventOK(i)'
                 /\ EffectEventOK(i)' /\ DispatchEventOK(i)'
      <3>1. CASE i = 1
        BY <1>3, <1>4, <2>2, <3>1 DEF RunEventOK, TaskEventOK, AttemptEventOK, DispatchEventOK
      <3>2. CASE i = 2
        BY <1>3, <1>4, <2>2, <3>2 DEF RunEventOK, TaskEventOK, AttemptEventOK, EffectEventOK
      <3>3. CASE i = 3
        BY <1>3, <1>4, <2>2, <3>3 DEF RunEventOK, TaskEventOK, EffectEventOK, DispatchEventOK
      <3>4. CASE i = 4
        BY <1>3, <1>4, <2>1, <3>4
           DEF RunEventOK, AttemptEventOK, EffectEventOK, DispatchEventOK
      <3>5. CASE i = 5
        BY <1>3, <1>4, <2>2, <3>5 DEF TaskEventOK, AttemptEventOK, EffectEventOK, DispatchEventOK
      <3> QED BY <3>1, <3>2, <3>3, <3>4, <3>5
    <2> QED BY <1>3, <2>3 DEF TodoInv
  <1> QED BY <1>3, <1>6, <1>7, <1>8, ProcessStep DEF IInv, DType, resume, Point, Waves

\* What an applied child effect is followed by.
LEMMA ChildApplied ==
  ASSUME IInv, pc \in {"channel", "packet"}, todo = <<>>,
         UNCHANGED <<k, pending, cancelled, resume, dirty, fresh, broken, wave, left, at>>,
         done' \subseteq AnEffect, live' \subseteq AnId, WorldInv',
         NEW op, op = OpOf[pc], <<at, op>> \in done',
         NEW e2, NEW u, u = <<e2>>, todo' = <<Tell(op, at, "APPLIED")>> \o u,
         \/ pc = "channel" /\ pc' = "packet" /\ e2 = Ask("send", at)
         \/ pc = "packet" /\ pc' = "dispatch" /\ e2 = Observed(at, "APPLIED")
  PROVE  IInv'
  <1> SUFFICES ASSUME NEW e1, e1 = Tell(op, at, "APPLIED")
               PROVE  IInv'
    OBVIOUS
  <1>1. /\ at \in AnId /\ Known(at) /\ at[1] \in Task /\ at[1] \notin left
        /\ at[2] = Latest(at[1]) /\ State(at[1]) = "LEASED"
        /\ Of(at).state = "DISPATCH_REQUESTED" /\ ~(at[3] < k.epoch)
    BY DEF IInv, AtInv, Asking, Known, AnId
  <1>2. op \in {"reserve", "send"}
    BY DEF OpOf
  <1>3. e1 \in Event /\ e2 \in Event
    BY <1>1, <1>2, EventKinds DEF IInv
  <1>4. /\ todo' \in Seq(Event) /\ DOMAIN todo' = {1, 2} /\ Len(todo') = 2
        /\ todo'[1] = e1 /\ todo'[2] = e2
    BY <1>3, Prefixed1
  <1>5. /\ e1.subject = "effect" /\ e1.status = "APPLIED" /\ e1.id = at /\ e1.op = op
        /\ pc' = "packet" => e2.subject = "effect" /\ e2.status = "ASKED"
        /\ pc' = "dispatch" => e2.subject = "dispatch" /\ e2.task = at[1]
    BY DEF Tell, Ask, Observed
  <1>6. pending \subseteq {<<at, op>>}
    BY DEF IInv, EffectInv, Asking
  <1>7. EffectInv'
    <2>1. Closes(1)'
      BY <1>4, <1>5, <1>6 DEF Closes
    <2>2. pc' = "packet" => todo'[Len(todo')] = Ask(OpOf[pc'], at')
      BY <1>4 DEF OpOf
    <2>3. \A i \in DOMAIN todo' : Asks(i)' => pc' = "packet" /\ i = Len(todo')
      BY <1>4, <1>5 DEF Asks
    <2>4. Len(todo') > 1 /\ todo' # <<>>
      BY <1>4
    <2> QED BY <2>1, <2>2, <2>3, <2>4 DEF EffectInv, Asking, Unsettled, IInv
  <1>8. AtInv'
    BY <1>1 DEF AtInv, Asking, Known, Of, Latest, State
  <1>9. WaveInv'
    BY DEF IInv, WaveInv, State, Latest
  <1>10. TodoInv'
    <2> SUFFICES ASSUME NEW i \in {1, 2}
                 PROVE  /\ RunEventOK(i)' /\ TaskEventOK(i)' /\ AttemptEventOK(i)'
                        /\ EffectEventOK(i)' /\ DispatchEventOK(i)'
      BY <1>4 DEF TodoInv
    <2>1. CASE i = 1
      BY <1>4, <1>5, <2>1
         DEF RunEventOK, TaskEventOK, AttemptEventOK, EffectEventOK, DispatchEventOK,
             Asking
    <2>2. CASE i = 2
      BY <1>1, <1>4, <1>5, <2>2
         DEF RunEventOK, TaskEventOK, AttemptEventOK, EffectEventOK, DispatchEventOK,
             Asking
    <2> QED BY <2>1, <2>2
  <1>11. StageInv'
    BY DEF IInv, StageInv
  <1> QED BY <1>4, <1>7, <1>8, <1>9, <1>10, <1>11, ProcessStep DEF IInv, DType, resume, Point, Waves

\* It gives up, after the world has changed.
LEMMA WorldEnd ==
  ASSUME IInv, UNCHANGED <<k, pending, cancelled, resume, dirty, fresh, broken, wave, left>>,
         pc # "down", todo' = <<>>, pc' = "ending",
         done' \subseteq AnEffect, live' \subseteq AnId, WorldInv'
  PROVE  IInv'
  <1>1. todo' \in Seq(Event) /\ DOMAIN todo' = {}
    OBVIOUS
  <1>2. EffectInv' /\ TodoInv'
    BY <1>1 DEF EffectInv, TodoInv, IInv, Asking, Unsettled
  <1>3. AtInv' /\ WaveInv' /\ StageInv'
    BY DEF AtInv, WaveInv, StageInv, Asking, IInv
  <1> QED BY <1>1, <1>2, <1>3, ProcessStep DEF IInv, DType, resume, Point, Waves

\* The answer to the first child effect of a dispatch.
LEMMA ReserveChannelStep ==
  ASSUME IInv, ReserveChannel
  PROVE  IInv'
  <1>1. PICK status \in {"APPLIED", "ABSENT", "UNKNOWN", "none"}, happens \in BOOLEAN :
          /\ status = "APPLIED" => happens
          /\ done' = IF happens THEN done \cup {<<at, "reserve">>} ELSE done
          /\ live' = live
          /\ todo' = IF status = "none" THEN <<>>
                     ELSE <<Tell("reserve", at, status)>> \o
                          (IF status = "APPLIED" THEN <<Ask("send", at)>>
                           ELSE BlockUnknown(at, status))
          /\ pc' = IF status = "APPLIED" THEN "packet" ELSE "ending"
          /\ fresh' = fresh
    BY DEF ReserveChannel, Child, Later, Goto
  <1>2. /\ pc = "channel" /\ todo = <<>>
        /\ UNCHANGED <<k, pending, cancelled, resume, dirty, finished, broken, wave, left, at>>
    BY DEF ReserveChannel, At, journal
  <1>3. at \in AnId
    BY <1>2 DEF IInv, AtInv, Asking, Known
  <1>4. /\ done' \subseteq AnEffect /\ live' \subseteq AnId /\ done \subseteq done'
        /\ \A id \in AnId : Sent(id)' <=> Sent(id)
        /\ \A id \in AnId : (<<id, "cancel">> \in done') <=> (<<id, "cancel">> \in done)
    BY <1>1, <1>3 DEF Sent, AnEffect, IInv, DType
  <1>5. WorldInv'
    BY <1>1, <1>2, <1>4, WorldStep DEF IInv, LiveInv, CancelInv, DType
  <1>6. CASE status = "none"
    BY <1>1, <1>2, <1>4, <1>5, <1>6, WorldEnd
  <1>7. CASE status \in {"ABSENT", "UNKNOWN"}
    <2>1. todo' = <<Tell("reserve", at, status)>> \o BlockUnknown(at, status)
      BY <1>1, <1>7
    <2> QED BY <1>1, <1>2, <1>4, <1>5, <1>7, <2>1, ChildBlocked
  <1>8. CASE status = "APPLIED"
    <2> SUFFICES ASSUME NEW e2, NEW u, u = <<e2>>, e2 = Ask("send", at)
                 PROVE  IInv'
      OBVIOUS
    <2>1. todo' = <<Tell("reserve", at, "APPLIED")>> \o u
      BY <1>1, <1>8
    <2>2. OpOf[pc] = "reserve" /\ <<at, "reserve">> \in done' /\ pc' = "packet"
      BY <1>1, <1>2, <1>8 DEF OpOf
    <2> QED BY <1>1, <1>2, <1>4, <1>5, <2>1, <2>2, ChildApplied
  <1> QED BY <1>6, <1>7, <1>8

\* The answer to the second.
LEMMA SendTaskPacketStep ==
  ASSUME IInv, SendTaskPacket
  PROVE  IInv'
  <1>1. PICK status \in {"APPLIED", "ABSENT", "UNKNOWN", "none"}, happens \in BOOLEAN :
          /\ status = "APPLIED" => happens
          /\ done' = IF happens THEN done \cup {<<at, "send">>} ELSE done
          /\ live' = IF happens THEN live \cup {at} ELSE live
          /\ todo' = IF status = "none" THEN <<>>
                     ELSE <<Tell("send", at, status)>> \o
                          (IF status = "APPLIED" THEN <<Observed(at, "APPLIED")>>
                           ELSE BlockUnknown(at, status))
          /\ pc' = IF status = "APPLIED" THEN "dispatch" ELSE "ending"
          /\ fresh' = fresh
    BY DEF SendTaskPacket, Child, Later, Goto
  <1>2. /\ pc = "packet" /\ todo = <<>>
        /\ UNCHANGED <<k, pending, cancelled, resume, dirty, finished, broken, wave, left, at>>
    BY DEF SendTaskPacket, At, journal
  <1>3. /\ at \in AnId /\ Known(at) /\ Of(at).state = "DISPATCH_REQUESTED"
        /\ ~(at[3] < k.epoch)
    BY <1>2 DEF IInv, AtInv, Asking, Known
  <1>4. /\ done' \subseteq AnEffect /\ live' \subseteq AnId /\ done \subseteq done'
        /\ \A id \in AnId : Sent(id)' => Sent(id) \/ id = at
        /\ \A id \in AnId : Sent(id) => Sent(id)'
        /\ \A id \in AnId : happens /\ id = at => Sent(id)'
        /\ \A id \in AnId : (<<id, "cancel">> \in done') <=> (<<id, "cancel">> \in done)
    BY <1>1, <1>3 DEF Sent, AnEffect, IInv, DType
  <1>5. <<at, "cancel">> \notin done
    BY <1>3 DEF IInv, CancelInv
  <1>6. \A id \in live' : id \in AnId /\ Sent(id)' /\ <<id, "cancel">> \notin done'
    <2> SUFFICES ASSUME NEW id \in live'
                 PROVE  id \in AnId /\ Sent(id)' /\ <<id, "cancel">> \notin done'
      OBVIOUS
    <2>1. CASE id \in live
      BY <1>4, <2>1 DEF IInv, LiveInv, DType
    <2>2. CASE happens /\ id = at
      BY <1>3, <1>4, <1>5, <2>2
    <2> QED BY <1>1, <2>1, <2>2
  <1>7. WorldInv'
    BY <1>2, <1>3, <1>4, <1>6, WorldStep DEF IInv, CancelInv
  <1>8. CASE status = "none"
    BY <1>1, <1>2, <1>4, <1>7, <1>8, WorldEnd
  <1>9. CASE status \in {"ABSENT", "UNKNOWN"}
    <2>1. todo' = <<Tell("send", at, status)>> \o BlockUnknown(at, status)
      BY <1>1, <1>9
    <2> QED BY <1>1, <1>2, <1>4, <1>7, <1>9, <2>1, ChildBlocked
  <1>10. CASE status = "APPLIED"
    <2> SUFFICES ASSUME NEW e2, NEW u, u = <<e2>>, e2 = Observed(at, "APPLIED")
                 PROVE  IInv'
      OBVIOUS
    <2>1. todo' = <<Tell("send", at, "APPLIED")>> \o u
      BY <1>1, <1>10
    <2>2. OpOf[pc] = "send" /\ <<at, "send">> \in done' /\ pc' = "dispatch"
      BY <1>1, <1>2, <1>10 DEF OpOf
    <2> QED BY <1>1, <1>2, <1>4, <1>7, <2>1, <2>2, ChildApplied
  <1> QED BY <1>8, <1>9, <1>10

\* The journal is told what became of an effect, and nothing else.
LEMMA ToldStep ==
  ASSUME IInv, UNCHANGED <<k, pending, cancelled, recovery, resolved, dirty, fresh, broken>>,
         UNCHANGED <<wave, left, at>>,
         done' \subseteq AnEffect, live' \subseteq AnId, WorldInv',
         NEW p \in AnEffect, NEW status \in {"APPLIED", "ABSENT", "UNKNOWN"},
         NEW e, e = Tell(p[2], p[1], status), todo' = <<e>>,
         status = "APPLIED" => p \in done', pc # "down",
         pc' \in {"reconcile", "recheck", "ending"}, AtInv', pc' = "reconcile" => pc' = pc,
         pc' = "recheck" => pc = "cancel" /\ status = "APPLIED" /\ pending \subseteq {p}
  PROVE  IInv'
  <1>1. p[1] \in AnId /\ p[2] \in {"reserve", "send", "cancel"} /\ p = <<p[1], p[2]>>
    BY DEF AnEffect
  <1>2. e \in Event
    BY <1>1, EventKinds DEF IInv
  <1>3. e.subject = "effect" /\ e.status = status /\ e.id = p[1] /\ e.op = p[2]
    BY DEF Tell
  <1>4. /\ todo' \in Seq(Event) /\ DOMAIN todo' = {1} /\ Len(todo') = 1 /\ todo'[1] = e
        /\ todo' # <<>>
    BY <1>2
  <1>5. EffectInv'
    <2>1. \A i \in DOMAIN todo' : ~Asks(i)'
      BY <1>3, <1>4 DEF Asks
    <2>2. pc' = "recheck" => Closes(1)'
      BY <1>1, <1>3, <1>4 DEF Closes
    <2> QED BY <1>4, <2>1, <2>2 DEF IInv, EffectInv, Asking, Unsettled
  <1>6. WaveInv' /\ StageInv'
    BY DEF WaveInv, StageInv, IInv
  <1>7. TodoInv'
    BY <1>1, <1>3, <1>4
       DEF TodoInv, RunEventOK, TaskEventOK, AttemptEventOK, EffectEventOK, DispatchEventOK
  <1> QED BY <1>4, <1>5, <1>6, <1>7, ProcessStep DEF IInv, DType, resume, Point, Waves

\* A start finds the open effect done ...
LEMMA ReconcileAppliedStep ==
  ASSUME IInv, NEW p \in pending, ReconcileApplied(p)
  PROVE  IInv'
  <1>1. /\ pc = "reconcile" /\ pc' = pc /\ p \in done /\ todo' = <<Tell(p[2], p[1], "APPLIED")>>
        /\ UNCHANGED <<journal, recovery, resolved, world, fresh, wave, left, at>>
    BY DEF ReconcileApplied, At, Later
  <1>2. AtInv'
    BY <1>1 DEF AtInv, Asking
  <1>3. UNCHANGED <<k, pending, cancelled, broken, dirty, done>> /\ p \in AnEffect
    BY <1>1 DEF journal, world, IInv, DType
  <1> QED BY <1>1, <1>2, <1>3, SameWorld, ToldStep

\* ... or carries out the cancellation that was open.
LEMMA ReconcileRetryStep ==
  ASSUME IInv, NEW p \in pending, ReconcileRetry(p)
  PROVE  IInv'
  <1>1. /\ pc = "reconcile" /\ pc' = pc /\ p[2] = "cancel"
        /\ todo' = <<Tell("cancel", p[1], "APPLIED")>>
        /\ done' = done \cup {p} /\ live' = live \ {p[1]}
        /\ UNCHANGED <<journal, resume, finished, dirty, fresh, wave, left, at>>
    BY DEF ReconcileRetry, At, Later
  <1>2. p \in AnEffect /\ p[1] \in AnId /\ p = <<p[1], "cancel">>
    BY <1>1 DEF IInv, DType, AnEffect
  <1>3. p[1][3] < k.epoch
    BY <1>2 DEF IInv, CancelInv
  <1>4. UNCHANGED <<k, pending, cancelled, broken, recovery, resolved>>
    BY <1>1 DEF journal, resume
  <1>5. AtInv'
    BY <1>1 DEF AtInv, Asking
  <1>6. /\ done' \subseteq AnEffect /\ live' \subseteq AnId /\ done \subseteq done'
        /\ \A id \in AnId : Sent(id)' <=> Sent(id)
        /\ \A id \in AnId : <<id, "cancel">> \in done' => <<id, "cancel">> \in done \/ id = p[1]
    BY <1>1, <1>2 DEF Sent, IInv, DType
  <1>7. WorldInv'
    <2>1. \A id \in AnId : <<id, "cancel">> \in done' => id[3] < k.epoch
      BY <1>3, <1>6 DEF IInv, CancelInv
    <2>2. \A id \in live' : id \in AnId /\ Sent(id)' /\ <<id, "cancel">> \notin done'
      BY <1>1, <1>6 DEF IInv, LiveInv, DType
    <2> QED BY <1>1, <1>4, <1>6, <2>1, <2>2, WorldStep
  <1> QED BY <1>1, <1>2, <1>4, <1>5, <1>6, <1>7, ToldStep

\* The answer to a cancellation.
LEMMA CancelStep ==
  ASSUME IInv, Cancel
  PROVE  IInv'
  <1>1. PICK status \in {"APPLIED", "ABSENT", "UNKNOWN", "none"}, happens \in BOOLEAN :
          /\ status = "APPLIED" => happens
          /\ done' = IF happens THEN done \cup {<<at, "cancel">>} ELSE done
          /\ live' = IF happens THEN live \ {at} ELSE live
          /\ todo' = IF status = "none" THEN <<>> ELSE <<Tell("cancel", at, status)>>
          /\ pc' = IF status = "APPLIED" THEN "recheck" ELSE "ending"
          /\ fresh' = fresh
    BY DEF Cancel, Later, Goto
  <1>2. /\ pc = "cancel" /\ todo = <<>>
        /\ UNCHANGED <<k, pending, cancelled, recovery, resolved, dirty, finished, broken>>
        /\ UNCHANGED <<wave, left, at, resume>>
    BY DEF Cancel, At, journal, resume
  <1>3. at \in AnId /\ Known(at) /\ at[2] = Latest(at[1]) /\ at[3] < k.epoch
    BY <1>2 DEF IInv, AtInv, Asking, Known
  <1>4. /\ done' \subseteq AnEffect /\ live' \subseteq AnId /\ done \subseteq done'
        /\ \A id \in AnId : Sent(id)' <=> Sent(id)
        /\ \A id \in AnId :
             <<id, "cancel">> \in done' => <<id, "cancel">> \in done \/ (happens /\ id = at)
    BY <1>1, <1>3 DEF Sent, AnEffect, IInv, DType
  <1>5. WorldInv'
    <2>1. \A id \in AnId : <<id, "cancel">> \in done' => id[3] < k.epoch
      BY <1>3, <1>4 DEF IInv, CancelInv
    <2>2. \A id \in live' : id \in AnId /\ Sent(id)' /\ <<id, "cancel">> \notin done'
      BY <1>1, <1>4 DEF IInv, LiveInv, DType
    <2> QED BY <1>2, <1>4, <2>1, <2>2, WorldStep
  <1>6. CASE status = "none"
    BY <1>1, <1>2, <1>4, <1>5, <1>6, WorldEnd
  <1>7. CASE status # "none"
    <2> SUFFICES ASSUME NEW p, p = <<at, "cancel">>
                 PROVE  IInv'
      OBVIOUS
    <2>1. p \in AnEffect /\ p[1] = at /\ p[2] = "cancel"
      BY <1>3 DEF AnEffect
    <2>2. AtInv'
      <3>1. CASE status = "APPLIED"
        <4>1. <<at, "cancel">> \in done' /\ pc' = "recheck"
          BY <1>1, <3>1
        <4> QED BY <1>2, <1>3, <4>1 DEF IInv, AtInv, Asking, Known, Of, Latest, S, LostAt
      <3>2. CASE status # "APPLIED"
        BY <1>1, <3>2 DEF AtInv, Asking
      <3> QED BY <3>1, <3>2
    <2>3. pending \subseteq {p}
      BY <1>2 DEF IInv, EffectInv, Asking, OpOf
    <2>4. status = "APPLIED" => p \in done'
      BY <1>1
    <2>5. todo' = <<Tell(p[2], p[1], status)>>
      BY <1>1, <1>7, <2>1
    <2> QED BY <1>1, <1>2, <1>4, <1>5, <1>7, <2>1, <2>2, <2>3, <2>4, <2>5, ToldStep
  <1> QED BY <1>6, <1>7

\* A start asks for the cancellation of a turn.
LEMMA TakeBackStep ==
  ASSUME IInv, NEW id \in Attempts, TakeBack(id)
  PROVE  IInv'
  <1>1. /\ pc = "takeback" /\ todo = <<>> /\ pc' = "cancel" /\ at' = id
        /\ id \in ToTakeBack /\ id[2] = Latest(id[1])
        /\ UNCHANGED <<journal, resume, world, fresh, wave, left>>
    BY DEF TakeBack, At, Goto, Admitted
  <1> SUFFICES ASSUME NEW e, e = Ask("cancel", id), todo' = <<e>>
               PROVE  IInv'
    BY DEF TakeBack, Later
  <1>2. UNCHANGED <<k, pending, cancelled, broken, dirty, done>> /\ pending = {}
    BY <1>1, NothingOpen DEF journal, world, Asking, Unsettled
  <1>3. id \in AnId /\ Known(id)
    BY AttemptsKnown DEF IInv
  <1>4. /\ S(id[1], id[2]) \in {"RUNNING", "CANCEL_REQUESTED"} \/ LostAt(id[1], id[2])
        /\ id[3] < k.epoch
    BY <1>1 DEF ToTakeBack, Stale, Lost, LostAt, S, Of
  <1>5. e \in Event /\ e.subject = "effect" /\ e.status = "ASKED"
    BY <1>3, EventKinds DEF IInv, Ask
  <1>6. /\ todo' \in Seq(Event) /\ DOMAIN todo' = {1} /\ Len(todo') = 1 /\ todo'[1] = e
        /\ todo' # <<>>
    BY <1>5
  <1>7. AtInv'
    BY <1>1, <1>2, <1>3, <1>4 DEF AtInv, Asking, Known, Of, Latest, S, LostAt
  <1>8. EffectInv'
    BY <1>1, <1>2, <1>6 DEF EffectInv, Asking, Unsettled, OpOf
  <1>9. WaveInv' /\ StageInv'
    BY <1>1, <1>2 DEF WaveInv, StageInv, IInv
  <1>10. TodoInv'
    BY <1>1, <1>5, <1>6
       DEF TodoInv, RunEventOK, TaskEventOK, AttemptEventOK, EffectEventOK, DispatchEventOK,
           Asking
  <1> QED BY <1>1, <1>2, <1>6, <1>7, <1>8, <1>9, <1>10, SameWorld, ProcessStep
          DEF IInv, DType, resume, Point, Waves

\* The coordinator dispatches a task of the wave.
LEMMA DispatchStep ==
  ASSUME IInv, NEW t \in Task, Dispatch(t)
  PROVE  IInv'
  <1> SUFFICES ASSUME NEW id, id = IdOf(t, Latest(t)), NEW e1, NEW e2,
                      e1 = AttemptMove("DISPATCH_REQUESTED", id, "RESERVED",
                                       "DISPATCH_REQUESTED", "none"),
                      e2 = Ask("reserve", id)
               PROVE  IInv'
    OBVIOUS
  <1>1. /\ pc = "dispatch" /\ todo = <<>> /\ pc' = "channel" /\ at' = id /\ t \in left
        /\ left' = left \ {t} /\ todo' = <<e1, e2>>
        /\ UNCHANGED <<journal, resume, world, fresh, wave>>
    BY DEF Dispatch, At, Goto, Later
  <1>2. UNCHANGED <<k, pending, cancelled, broken, dirty, done>> /\ pending = {}
    BY <1>1, NothingOpen DEF journal, world, Asking, Unsettled
  <1>3. /\ Latest(t) > 0 /\ Latest(t) \in Nat /\ DOMAIN k.attempt[t] = 1..Latest(t)
        /\ State(t) = "LEASED"
    BY <1>1, AttemptsKnown DEF IInv, WaveInv, DType
  <1>4. id \in AnId /\ Known(id) /\ id[1] = t /\ id[2] = Latest(t)
    BY <1>3, AttemptsKnown DEF IInv, IdOf
  <1>5. e1 \in Event /\ e2 \in Event
    <2>1. "DISPATCH_REQUESTED" \in AttemptState /\ "RESERVED" \in AttemptState \cup {"PLANNED"}
      BY DEF AttemptState
    <2> QED BY <1>4, <2>1, EventKinds DEF IInv
  <1>6. /\ e1.subject = "attempt" /\ e1.type = "DISPATCH_REQUESTED" /\ e1.task = id[1]
        /\ e1.attempt = id[2] /\ e1.reserved = id[3] /\ e1.from = "RESERVED"
        /\ e1.to = "DISPATCH_REQUESTED"
        /\ e2.subject = "effect" /\ e2.status = "ASKED"
    BY DEF AttemptMove, Ask
  <1>7. /\ todo' \in Seq(Event) /\ DOMAIN todo' = {1, 2} /\ Len(todo') = 2
        /\ todo'[1] = e1 /\ todo'[2] = e2 /\ todo' # <<>>
    BY <1>1, <1>5
  <1>8. EffectInv'
    BY <1>1, <1>2, <1>6, <1>7 DEF EffectInv, Asking, Unsettled, OpOf, Asks
  <1>9. AtInv'
    BY <1>1, <1>2, <1>3, <1>4, <1>6, <1>7 DEF AtInv, Asking, Known, Of, Latest, State
  <1>10. WaveInv'
    <2>1. \A u \in left' : State(u)' = "LEASED"
      BY <1>1, <1>2 DEF IInv, WaveInv, State
    <2>2. \A u \in wave : Latest(u)' > 0
      BY <1>1, <1>2 DEF IInv, WaveInv, Latest
    <2> QED BY <1>1, <2>1, <2>2 DEF WaveInv
  <1>11. TodoInv'
    <2> SUFFICES ASSUME NEW i \in {1, 2}
                 PROVE  /\ RunEventOK(i)' /\ TaskEventOK(i)' /\ AttemptEventOK(i)'
                        /\ EffectEventOK(i)' /\ DispatchEventOK(i)'
      BY <1>7 DEF TodoInv
    <2>1. CASE i = 1
      <3>1. <<e1.task, e1.attempt, e1.reserved>> = at'
        BY <1>1, <1>4, <1>6 DEF AnId
      <3> QED BY <1>1, <1>6, <1>7, <2>1, <3>1
              DEF RunEventOK, TaskEventOK, AttemptEventOK, EffectEventOK, DispatchEventOK
    <2>2. CASE i = 2
      BY <1>1, <1>6, <1>7, <2>2
         DEF RunEventOK, TaskEventOK, AttemptEventOK, EffectEventOK, DispatchEventOK,
             Asking
    <2> QED BY <2>1, <2>2
  <1>12. StageInv'
    BY <1>1, <1>2 DEF IInv, StageInv
  <1> QED BY <1>1, <1>2, <1>7, <1>8, <1>9, <1>10, <1>11, <1>12, SameWorld, ProcessStep
          DEF IInv, DType, resume, Point, Waves

\* The events that block the run for a task.
LEMMA BlockRunIs ==
  ASSUME DType, NEW t \in Task, NEW why \in Why, NEW s, s = BlockRun(t, why)
  PROVE  /\ s \in Seq(Event) /\ Len(s) \in {1, 2} /\ DOMAIN s = 1..Len(s)
         /\ s[1].subject = "task" /\ s[1].task = t /\ s[1].type = "TASK_BLOCKED"
         /\ Len(s) = 2 => s[2].subject = "run" /\ k.status = "RUNNING"
  <1> SUFFICES ASSUME NEW e1, NEW e2, NEW u,
                      e1 = TaskMove("TASK_BLOCKED", t, State(t), "BLOCKED", why),
                      e2 = RunMove("RUN_BLOCKED", "RUNNING", "BLOCKED", why),
                      u = IF k.status = "RUNNING" THEN <<e2>> ELSE <<>>
               PROVE  /\ s \in Seq(Event) /\ Len(s) \in {1, 2} /\ DOMAIN s = 1..Len(s)
                      /\ s[1].subject = "task" /\ s[1].task = t /\ s[1].type = "TASK_BLOCKED"
                      /\ Len(s) = 2 => s[2].subject = "run" /\ k.status = "RUNNING"
    OBVIOUS
  <1>1. e1 \in Event /\ e2 \in Event
    <2>1. "BLOCKED" \in TaskState
      BY DEF TaskState
    <2> QED BY <2>1, EventKinds
  <1>2. s = <<e1>> \o u
    BY DEF BlockRun
  <1>3. /\ u \in Seq(Event) /\ Len(u) \in {0, 1}
        /\ (Len(u) = 1 => u[1] = e2 /\ k.status = "RUNNING")
    BY <1>1
  <1>4. /\ s \in Seq(Event) /\ Len(s) = Len(u) + 1 /\ s[1] = e1
        /\ Len(u) = 1 => s[1 + 1] = u[1]
    BY <1>1, <1>2, <1>3, Prefixed
  <1>5. DOMAIN s = 1..Len(s)
    BY <1>4, LenProperties
  <1>6. e1.subject = "task" /\ e1.task = t /\ e1.type = "TASK_BLOCKED" /\ e2.subject = "run"
    BY DEF TaskMove, RunMove
  <1> QED BY <1>3, <1>4, <1>5, <1>6

\* A worktree is prepared, or is not.
LEMMA PrepareStep ==
  ASSUME IInv, NEW t \in Task, Prepare(t)
  PROVE  IInv'
  <1>1. /\ pc = "prepare" /\ todo = <<>> /\ t \in left
        /\ UNCHANGED <<k, pending, cancelled, broken, resume, fresh, wave, at, world>>
    BY DEF Prepare, At
  <1>2. pending = {} /\ broken = "no"
    BY <1>1, NothingOpen DEF Asking, Unsettled, IInv, StageInv
  <1>3. CASE left' = left \ {t} /\ UNCHANGED <<pc, todo>>
    <2>1. WaveInv' /\ AtInv'
      BY <1>1, <1>3 DEF IInv, WaveInv, AtInv, Asking, State, Latest, Engaged, S, Settled, IdOf,
                        resume
    <2> QED BY <1>1, <1>2, <1>3, <2>1, QuietStep DEF IInv, DType, Point, Asking
  <1>4. CASE \E why \in Why : todo' = BlockRun(t, why) /\ pc' = "ending" /\ left' = left
    <2>1. PICK why \in Why : todo' = BlockRun(t, why)
      BY <1>4
    <2>2. /\ todo' \in Seq(Event) /\ Len(todo') \in {1, 2} /\ DOMAIN todo' = 1..Len(todo')
          /\ todo'[1].subject = "task" /\ todo'[1].task = t /\ todo'[1].type = "TASK_BLOCKED"
          /\ Len(todo') = 2 => todo'[2].subject = "run"
      BY <2>1, BlockRunIs DEF IInv
    <2>3. \A n \in DOMAIN k'.attempt[t] : ~Engaged(t, n)'
      BY <1>1 DEF IInv, DType, WaveInv, Engaged, S, Settled, IdOf, resume
    <2>4. TodoInv'
      <3> SUFFICES ASSUME NEW i \in 1..Len(todo')
                   PROVE  /\ RunEventOK(i)' /\ TaskEventOK(i)' /\ AttemptEventOK(i)'
                          /\ EffectEventOK(i)' /\ DispatchEventOK(i)'
        BY <2>2 DEF TodoInv
      <3>1. CASE i = 1
        BY <1>4, <2>2, <2>3, <3>1
           DEF RunEventOK, TaskEventOK, AttemptEventOK, EffectEventOK, DispatchEventOK
      <3>2. CASE i = 2 /\ Len(todo') = 2
        BY <1>4, <2>2, <3>2
           DEF RunEventOK, TaskEventOK, AttemptEventOK, EffectEventOK, DispatchEventOK
      <3> QED BY <2>2, <3>1, <3>2
    <2>5. AtInv' /\ WaveInv'
      BY <1>4 DEF AtInv, WaveInv, Asking
    <2>6. \A i \in DOMAIN todo' : todo'[i].subject # "effect"
      BY <2>2
    <2> QED BY <1>1, <1>2, <1>4, <2>2, <2>4, <2>5, <2>6, EventsStep
            DEF IInv, DType, Point, Asking, Unsettled, Waves
  <1> QED BY <1>3, <1>4, EventKinds DEF Prepare, Later, IInv

\* The result of a worker is accepted.
LEMMA AcceptStep ==
  ASSUME IInv, NEW t \in Task, Accept(t)
  PROVE  IInv'
  <1> SUFFICES ASSUME NEW n, n = Latest(t), NEW id, id = IdOf(t, n)
               PROVE  IInv'
    OBVIOUS
  <1>1. /\ pc = "accept" /\ pc' = pc /\ todo = <<>> /\ t \in left /\ left' = left \ {t}
        /\ UNCHANGED <<journal, resume, fresh, wave, at, world>>
    BY DEF Accept, At
  <1>2. UNCHANGED <<k, pending, cancelled, broken>> /\ pending = {}
    BY <1>1, NothingOpen DEF journal, Asking, Unsettled
  <1>3. n \in DOMAIN k.attempt[t] /\ n \in Nat \ {0}
    <2>1. n > 0 /\ n \in Nat /\ DOMAIN k.attempt[t] = 1..n
      BY <1>1, AttemptsKnown DEF IInv, WaveInv, DType
    <2> QED BY <2>1
  <1>4. id \in AnId /\ id[1] = t /\ id[2] = n
    BY <1>3, AttemptsKnown DEF IInv, IdOf
  <1>5. /\ "RUNNING" \in AttemptState \cup {"PLANNED"} /\ "SUCCEEDED" \in AttemptState
        /\ "FAILED" \in AttemptState
    BY DEF AttemptState
  <1>6. /\ todo' \in Seq(Event) /\ Len(todo') \in {1, 2, 3} /\ DOMAIN todo' = 1..Len(todo')
        /\ todo'[1].subject = "attempt" /\ todo'[1].from = "RUNNING"
        /\ todo'[1].type \in {"ATTEMPT_SUCCEEDED", "ATTEMPT_FAILED"}
        /\ todo'[1].to \in {"SUCCEEDED", "FAILED"}
        /\ todo'[1].task = t /\ todo'[1].attempt = n
        /\ Len(todo') > 1 => /\ todo'[1].to = "FAILED"
                             /\ todo'[2].subject = "task" /\ todo'[2].task = t
                             /\ todo'[2].type = "TASK_BLOCKED"
        /\ Len(todo') > 2 => todo'[3].subject = "run"
    <2>1. ASSUME NEW e, todo' = <<e>>,
                 e = AttemptMove("ATTEMPT_SUCCEEDED", id, "RUNNING", "SUCCEEDED", "none")
          PROVE  <1>6!:
      <3>1. e \in Event
        BY <1>4, <1>5, <2>1, EventKinds DEF IInv
      <3>2. /\ e.subject = "attempt" /\ e.from = "RUNNING" /\ e.to = "SUCCEEDED"
            /\ e.type = "ATTEMPT_SUCCEEDED" /\ e.task = t /\ e.attempt = n
        BY <1>4, <2>1 DEF AttemptMove
      <3>3. /\ todo' \in Seq(Event) /\ Len(todo') = 1 /\ DOMAIN todo' = 1..1 /\ todo'[1] = e
        BY <2>1, <3>1
      <3> QED BY <3>2, <3>3
    <2>2. ASSUME NEW e, NEW u, todo' = <<e>> \o u, u = BlockRun(t, "WORKER_FAILED"),
                 e = AttemptMove("ATTEMPT_FAILED", id, "RUNNING", "FAILED", "WORKER_FAILED")
          PROVE  <1>6!:
      <3>1. e \in Event
        BY <1>4, <1>5, <2>2, EventKinds DEF IInv
      <3>2. /\ e.subject = "attempt" /\ e.from = "RUNNING" /\ e.to = "FAILED"
            /\ e.type = "ATTEMPT_FAILED" /\ e.task = t /\ e.attempt = n
        BY <1>4, <2>2 DEF AttemptMove
      <3>3. /\ u \in Seq(Event) /\ Len(u) \in {1, 2}
            /\ u[1].subject = "task" /\ u[1].task = t /\ u[1].type = "TASK_BLOCKED"
            /\ Len(u) = 2 => u[2].subject = "run"
        BY <2>2, EventKinds, BlockRunIs DEF IInv
      <3>4. /\ todo' \in Seq(Event) /\ Len(todo') \in {2, 3} /\ DOMAIN todo' = 1..Len(todo')
            /\ todo'[1] = e /\ todo'[2] = u[1]
            /\ (Len(todo') > 2 => Len(u) = 2 /\ todo'[3] = u[2])
        BY <2>2, <3>1, <3>3, PrefixedShort
      <3> HIDE <2>2
      <3> QED BY <3>2, <3>3, <3>4
    <2>3. \/ todo' = <<AttemptMove("ATTEMPT_SUCCEEDED", id, "RUNNING", "SUCCEEDED", "none")>>
          \/ todo' = <<AttemptMove("ATTEMPT_FAILED", id, "RUNNING", "FAILED", "WORKER_FAILED")>>
                     \o BlockRun(t, "WORKER_FAILED")
      BY DEF Accept, Later
    <2> QED BY <2>1, <2>2, <2>3, Zenon
  <1>8. AtInv' /\ WaveInv'
    BY <1>1, <1>2 DEF IInv, AtInv, WaveInv, Asking, Latest
  <1>9. TodoInv'
    <2> SUFFICES ASSUME NEW i \in 1..Len(todo')
                 PROVE  /\ RunEventOK(i)' /\ TaskEventOK(i)' /\ AttemptEventOK(i)'
                        /\ EffectEventOK(i)' /\ DispatchEventOK(i)'
      BY <1>6 DEF TodoInv
    <2>1. CASE i = 1
      BY <1>1, <1>6, <2>1
         DEF RunEventOK, TaskEventOK, AttemptEventOK, EffectEventOK, DispatchEventOK
    <2>2. CASE i = 2
      <3>1. Before(2, t, n, {"CANCEL_REQUESTED", "OUTCOME_UNKNOWN", "FAILED"})'
        <4>1. 1 \in DOMAIN todo' /\ 1 < 2 /\ Len(todo') # 1
          BY <1>6, <2>2
        <4> QED BY <1>6, <4>1 DEF Before, AttemptEventIs
      <3>2. \A m \in DOMAIN k'.attempt[t] : Engaged(t, m)' => m = n
        BY <1>1, <1>2 DEF IInv, AttemptInv, Engaged, Settled, S, IdOf, resume
      <3> QED BY <1>1, <1>6, <2>2, <3>1, <3>2
              DEF RunEventOK, TaskEventOK, AttemptEventOK, EffectEventOK, DispatchEventOK
    <2>3. CASE i = 3
      BY <1>1, <1>6, <2>3
         DEF RunEventOK, TaskEventOK, AttemptEventOK, EffectEventOK, DispatchEventOK
    <2> QED BY <1>6, <2>1, <2>2, <2>3
  <1>10. \A i \in DOMAIN todo' : todo'[i].subject # "effect"
    BY <1>6
  <1> QED BY <1>1, <1>2, <1>6, <1>8, <1>9, <1>10, EventsStep
          DEF IInv, DType, Point, Asking, Unsettled, Waves

\* Events before others: each is one of a set.
LEMMA Joined ==
  ASSUME NEW A \in SUBSET Event, NEW u \in Seq(A), NEW w \in Seq(A), NEW s
  PROVE  s = u \o w => s \in Seq(Event) /\ \A i \in DOMAIN s : s[i] \in A
  <1>1. SUFFICES ASSUME s = u \o w
                 PROVE  s \in Seq(Event) /\ \A i \in DOMAIN s : s[i] \in A
    OBVIOUS
  <1>2. s \in Seq(A)
    BY <1>1, ConcatProperties
  <1>3. s \in Seq(A) /\ DOMAIN s = 1..Len(s) /\ \A i \in DOMAIN s : s[i] \in A
    BY <1>2, LenProperties, ElementOfSeq
  <1>4. s \in [1..Len(s) -> Event] /\ Len(s) \in Nat
    BY <1>2, <1>3, SeqDef, LenProperties
  <1> QED BY <1>3, <1>4, SeqDef

\* Events after others: each of them is there.
LEMMA InJoined ==
  ASSUME NEW E, NEW u \in Seq(E), NEW w \in Seq(E), NEW i \in DOMAIN w, NEW s
  PROVE  s = u \o w => Len(u) + i \in DOMAIN s /\ s[Len(u) + i] = w[i]
  <1>1. SUFFICES ASSUME s = u \o w
                 PROVE  Len(u) + i \in DOMAIN s /\ s[Len(u) + i] = w[i]
    OBVIOUS
  <1>2. /\ s \in Seq(E) /\ Len(s) = Len(u) + Len(w)
        /\ \A j \in 1..(Len(u) + Len(w)) :
              s[j] = IF j <= Len(u) THEN u[j] ELSE w[j - Len(u)]
    BY <1>1, ConcatProperties
  <1>3. /\ DOMAIN s = 1..Len(s) /\ i \in 1..Len(w)
        /\ Len(u) \in Nat /\ Len(w) \in Nat
    BY <1>2, LenProperties
  <1> QED BY <1>2, <1>3

\* An event that may be left out.
LEMMA Optional ==
  ASSUME NEW A, NEW a \in A, NEW c \in BOOLEAN, NEW u, u = IF c THEN <<a>> ELSE <<>>
  PROVE  u \in Seq(A)
  OBVIOUS

\* The coordinator reserves a task.
LEMMA ReserveTaskStep ==
  ASSUME IInv, NEW t \in Task, ReserveTask(t)
  PROVE  IInv'
  <1> SUFFICES ASSUME NEW n, n = Latest(t) + 1, NEW e1, NEW e2, NEW e3, NEW A, A = {e1, e2, e3},
                      e1 = TaskMove("TASK_READY", t, "APPROVED", "READY", "none"),
                      e2 = TaskMove("LEASE_ACQUIRED", t, "READY", "LEASED", "none"),
                      e3 = AttemptMove("ATTEMPT_RESERVED", <<t, n, k.epoch>>, "PLANNED",
                                       "RESERVED", "none")
               PROVE  IInv'
    OBVIOUS
  <1>1. /\ pc \in {"wave", "reserve"} /\ pc' = "reserve" /\ todo = <<>>
        /\ State(t) \in {"APPROVED", "READY"} /\ wave' = wave \cup {t} /\ left' = wave'
        /\ UNCHANGED <<journal, resume, fresh, at, world>>
    BY DEF ReserveTask, At, Goto, Ready
  <1>2. UNCHANGED <<k, pending, cancelled, broken>> /\ pending = {}
    BY <1>1, NothingOpen DEF journal, Asking, Unsettled
  <1>3. e1 \in Event /\ e2 \in Event /\ e3 \in Event
    <2>1. /\ "RESERVED" \in AttemptState /\ "APPROVED" \in TaskState /\ "READY" \in TaskState
          /\ "LEASED" \in TaskState /\ "PLANNED" \in AttemptState \cup {"PLANNED"}
      BY DEF AttemptState, TaskState
    <2>2. n \in Nat \ {0} /\ k.epoch \in Nat
      BY AttemptsKnown DEF IInv, DType, AnySnapshot
    <2>3. <<t, n, k.epoch>> \in AnId
      BY <2>2 DEF AnId
    <2> QED BY <2>1, <2>3, EventKinds DEF IInv
  <1>4. /\ e1.subject = "task" /\ e1.type = "TASK_READY" /\ e1.task = t
        /\ e2.subject = "task" /\ e2.type = "LEASE_ACQUIRED" /\ e2.task = t
        /\ e3.subject = "attempt" /\ e3.type = "ATTEMPT_RESERVED" /\ e3.task = t
        /\ e3.from = "PLANNED" /\ e3.to = "RESERVED"
    BY DEF TaskMove, AttemptMove
  <1>5. /\ todo' \in Seq(Event) /\ \A i \in DOMAIN todo' : todo'[i] \in A
        /\ \E i \in DOMAIN todo' : todo'[i] = e2
        /\ \E i \in DOMAIN todo' : todo'[i] = e3
    <2>0. SUFFICES ASSUME NEW u, NEW w, w = <<e2, e3>>,
                          u = IF State(t) = "APPROVED" THEN <<e1>> ELSE <<>>
                   PROVE  <1>5!:
      OBVIOUS
    <2>1. A \in SUBSET Event /\ u \in Seq(A) /\ w \in Seq(A)
      BY <1>3, <2>0
    <2>2. todo' = u \o w
      BY <2>0 DEF ReserveTask, Later
    <2>3. todo' \in Seq(Event) /\ \A i \in DOMAIN todo' : todo'[i] \in A
      <3>1. ASSUME NEW s, s = u \o w
            PROVE  s \in Seq(Event) /\ \A i \in DOMAIN s : s[i] \in A
        <4>1. \A B, x, y : B \in SUBSET Event /\ x \in Seq(B) /\ y \in Seq(B) /\ s = x \o y =>
                           s \in Seq(Event) /\ \A i \in DOMAIN s : s[i] \in B
          BY Joined, Zenon
        <4> QED BY <2>1, <3>1, <4>1, Zenon
      <3> QED BY <2>2, <3>1, Zenon
    <2>4. ASSUME NEW i \in DOMAIN w
          PROVE  \E j \in DOMAIN todo' : todo'[j] = w[i]
      <3>1. Len(u) + i \in DOMAIN todo' /\ todo'[Len(u) + i] = w[i]
        BY <2>1, <2>2, InJoined
      <3> QED BY <3>1
    <2>5. 1 \in DOMAIN w /\ 2 \in DOMAIN w /\ w[1] = e2 /\ w[2] = e3
      BY <2>0
    <2>6. \A i \in DOMAIN w : \E j \in DOMAIN todo' : todo'[j] = w[i]
      BY <2>4
    <2> QED BY <2>3, <2>5, <2>6
  <1>6. AtInv'
    BY <1>1 DEF AtInv, Asking
  <1>7. WaveInv'
    <2>1. \A u \in wave : /\ State(u) = "LEASED" /\ Latest(u) > 0
                          /\ \A m \in DOMAIN k.attempt[u] : ~Engaged(u, m)
      BY <1>1 DEF IInv, WaveInv, StageInv
    <2>2. \A m \in DOMAIN k.attempt[t] : ~Engaged(t, m)
      BY <1>1 DEF IInv, AttemptInv
    <2>3. \A u \in wave' : \A m \in DOMAIN k'.attempt[u] : ~Engaged(u, m)'
      BY <1>1, <1>2, <2>1, <2>2 DEF Engaged, Settled, S, IdOf, resume
    <2>4. \A u \in wave : State(u)' = "LEASED" /\ Latest(u)' > 0
      BY <1>2, <2>1 DEF State, Latest
    <2>5. \E i \in DOMAIN todo' : TaskEventIs(i, t, "LEASE_ACQUIRED")'
      BY <1>4, <1>5 DEF TaskEventIs
    <2>6. \E i \in DOMAIN todo' : todo'[i].subject = "attempt" /\ todo'[i].task = t
      BY <1>4, <1>5
    <2> QED BY <1>1, <2>3, <2>4, <2>5, <2>6 DEF WaveInv
  <1>8. TodoInv'
    <2> SUFFICES ASSUME NEW i \in DOMAIN todo'
                 PROVE  /\ RunEventOK(i)' /\ TaskEventOK(i)' /\ AttemptEventOK(i)'
                        /\ EffectEventOK(i)' /\ DispatchEventOK(i)'
      BY DEF TodoInv
    <2>1. todo'[i] \in {e1, e2, e3}
      BY <1>5
    <2>2. RunEventOK(i)' /\ EffectEventOK(i)' /\ DispatchEventOK(i)'
      BY <1>4, <2>1 DEF RunEventOK, EffectEventOK, DispatchEventOK
    <2>3. TaskEventOK(i)'
      BY <1>1, <1>4, <2>1 DEF TaskEventOK
    <2>4. AttemptEventOK(i)'
      BY <1>1, <1>4, <2>1 DEF AttemptEventOK
    <2> QED BY <2>2, <2>3, <2>4
  <1>9. \A i \in DOMAIN todo' : todo'[i].subject # "effect"
    BY <1>4, <1>5
  <1> QED BY <1>1, <1>2, <1>5, <1>6, <1>7, <1>8, <1>9, EventsStep
          DEF IInv, DType, Point, Asking, Unsettled, Waves

\* A reservation or a lost attempt has no worker.
LEMMA KeptIdle ==
  ASSUME IInv, NEW id \in Attempts, Kept(id[1], id[2])
  PROVE  /\ id \in AnId /\ id[1] \in Task /\ id[2] = Latest(id[1])
         /\ <<id[1], id[2]>> \notin dirty /\ NoWorker(id[1])
  <1>1. id \in AnId /\ id[1] \in Task /\ id[2] \in DOMAIN k.attempt[id[1]]
    BY AttemptsKnown DEF IInv, Known, AnId
  <1>2. id[2] = Latest(id[1])
    BY <1>1 DEF IInv, AttemptInv, Held, Kept, Terminal
  <1>3. \A i \in live : i[1] # id[1]
    <2> SUFFICES ASSUME NEW i \in live, i[1] = id[1] PROVE FALSE
      OBVIOUS
    <2>1. Engaged(id[1], id[2])
      BY <1>2, LiveIs
    <2> QED BY <2>1 DEF Engaged, Kept, LostAt
  <1>4. <<id[1], id[2]>> \notin dirty
    BY <1>1 DEF IInv, CleanInv
  <1> QED BY <1>1, <1>2, <1>3, <1>4 DEF NoWorker

\* A reservation of an earlier epoch is taken over.
LEMMA ReclaimStep ==
  ASSUME IInv, NEW id \in Attempts, Reclaim(id)
  PROVE  IInv'
  <1> SUFFICES ASSUME NEW e1, NEW e2, NEW A, A = {e1, e2},
                      e1 = AttemptMove("ATTEMPT_RELEASED", id, "RESERVED", "TERMINATED",
                                       "LEASE_LOST"),
                      e2 = AttemptMove("ATTEMPT_RESERVED", id, "TERMINATED", "RESERVED", "none")
               PROVE  IInv'
    OBVIOUS
  <1>1. /\ pc = "reclaim" /\ pc' = pc /\ todo = <<>> /\ id \in Unsent
        /\ UNCHANGED <<journal, resume, fresh, wave, left, at, world>>
    BY DEF Reclaim, At
  <1>2. UNCHANGED <<k, pending, cancelled, broken, live, dirty>> /\ pending = {}
    BY <1>1, NothingOpen DEF journal, world, Asking, Unsettled
  <1>3. id[3] < k.epoch /\ Kept(id[1], id[2])
    BY <1>1 DEF Unsent, Stale, Kept, Lost, LostAt, S, Of
  <1>4. /\ id \in AnId /\ id[1] \in Task /\ id[2] = Latest(id[1])
        /\ <<id[1], id[2]>> \notin dirty /\ NoWorker(id[1])
    BY <1>3, KeptIdle
  <1>5. e1 \in Event /\ e2 \in Event
    <2>1. /\ "RESERVED" \in AttemptState /\ "TERMINATED" \in AttemptState
          /\ "RESERVED" \in AttemptState \cup {"PLANNED"}
          /\ "TERMINATED" \in AttemptState \cup {"PLANNED"}
      BY DEF AttemptState
    <2> QED BY <1>4, <2>1, EventKinds DEF IInv
  <1>6. /\ e1.subject = "attempt" /\ e1.type = "ATTEMPT_RELEASED" /\ e1.task = id[1]
        /\ e1.attempt = id[2] /\ e1.reserved = id[3]
        /\ e2.subject = "attempt" /\ e2.type = "ATTEMPT_RESERVED" /\ e2.task = id[1]
        /\ e2.attempt = id[2] /\ e2.to = "RESERVED"
    BY DEF AttemptMove
  <1>7. todo' \in Seq(Event) /\ \A i \in DOMAIN todo' : todo'[i] \in {e1, e2}
    <2> SUFFICES ASSUME NEW u, NEW w, u = IF Lost(id) THEN <<>> ELSE <<e1>>, w = <<e2>>
                 PROVE  <1>7!:
      OBVIOUS
    <2>1. A \in SUBSET Event /\ w \in Seq(A)
      BY <1>5
    <2>2. u \in Seq(A)
      <3>1. u = IF ~Lost(id) THEN <<e1>> ELSE <<>>
        OBVIOUS
      <3> QED BY <3>1, Optional
    <2>3. todo' = u \o w
      BY DEF Reclaim, Later
    <2>4. todo' \in Seq(Event) /\ \A i \in DOMAIN todo' : todo'[i] \in A
      BY <2>1, <2>2, <2>3, Joined
    <2> QED BY <2>4
  <1>8. AtInv' /\ WaveInv' /\ wave' = {}
    BY <1>1 DEF AtInv, WaveInv, Asking, IInv, StageInv
  <1>9. TodoInv'
    <2> SUFFICES ASSUME NEW i \in DOMAIN todo'
                 PROVE  /\ RunEventOK(i)' /\ TaskEventOK(i)' /\ AttemptEventOK(i)'
                        /\ EffectEventOK(i)' /\ DispatchEventOK(i)'
      BY DEF TodoInv
    <2>1. todo'[i] \in {e1, e2}
      BY <1>7
    <2>2. /\ RunEventOK(i)' /\ TaskEventOK(i)' /\ EffectEventOK(i)' /\ DispatchEventOK(i)'
      BY <1>6, <2>1 DEF RunEventOK, TaskEventOK, EffectEventOK, DispatchEventOK
    <2>3. \A t : NoWorker(t)' <=> NoWorker(t)
      BY <1>2 DEF NoWorker
    <2>4. \A t : Latest(t)' = Latest(t)
      BY <1>2 DEF Latest
    <2>5. AttemptEventOK(i)'
      <3>1. /\ k'.epoch = k.epoch /\ dirty' = dirty
            /\ NoWorker(id[1])' /\ id[2] = Latest(id[1])'
        BY <1>2, <1>4, <2>3, <2>4
      <3>2. CASE todo'[i] = e1
        BY <1>1, <1>3, <1>4, <1>6, <3>1, <3>2 DEF AttemptEventOK, Waves
      <3>3. CASE todo'[i] = e2
        <4>1. /\ e2.type = "ATTEMPT_RESERVED" /\ e2.from = "TERMINATED" /\ e2.subject = "attempt"
              /\ e2.to = "RESERVED"
          BY DEF AttemptMove
        <4>2. /\ pc' = "reclaim" /\ e2.attempt = Latest(e2.task)'
              /\ <<e2.task, e2.attempt>> \notin dirty' /\ NoWorker(e2.task)'
          BY <1>1, <1>4, <1>6, <3>1
        <4> QED BY <3>3, <4>1, <4>2 DEF AttemptEventOK
      <3> QED BY <2>1, <3>2, <3>3
    <2> QED BY <2>2, <2>5
  <1>10. \A i \in DOMAIN todo' : todo'[i].subject # "effect"
    BY <1>6, <1>7
  <1> QED BY <1>1, <1>2, <1>7, <1>8, <1>9, <1>10, EventsStep
          DEF IInv, DType, Point, Asking, Unsettled, Waves

\* What a reclaimed start hands out, it reserved itself.
LEMMA NothingUnsent ==
  ASSUME DType, Unsent = {}
  PROVE  NothingKept
  <1> SUFFICES ASSUME NEW t \in Task, NEW n \in DOMAIN k.attempt[t], Kept(t, n)
               PROVE  ~(k.attempt[t][n].epoch < k.epoch)
    BY DEF NothingKept
  <1> DEFINE id == IdOf(t, n)
  <1>1. id \in Attempts /\ id[1] = t /\ id[2] = n /\ id[3] = k.attempt[t][n].epoch
    BY DEF Attempts, IdOf
  <1>2. Of(id).state = "RESERVED" \/ Lost(id)
    BY <1>1 DEF Kept, LostAt, Lost, Of, S
  <1> QED BY <1>1, <1>2 DEF Unsent, Stale

\* The start is over; a task with an absent worktree may be tried again.
LEMMA AcquiredStep ==
  ASSUME IInv, Acquired
  PROVE  IInv'
  <1>1. /\ pc = "reclaim" /\ pc' = "wave" /\ todo = <<>>
        /\ UNCHANGED <<journal, resume, fresh, wave, left, at, world>>
    BY DEF Acquired, Reclaimed, At, Goto
  <1>2. UNCHANGED <<k, pending, cancelled, broken>> /\ pending = {} /\ wave' = {}
    BY <1>1, NothingOpen DEF journal, Asking, Unsettled, IInv, StageInv
  <1>3. NothingKept
    BY NothingUnsent DEF Acquired, Reclaimed, IInv
  <1>4. AtInv' /\ WaveInv'
    BY <1>1, <1>2 DEF AtInv, WaveInv, Asking
  <1>5. CASE todo' = <<>>
    <2>1. todo' \in Seq(Event) /\ DOMAIN todo' = {}
      BY <1>5
    <2>2. TodoInv'
      BY <2>1 DEF TodoInv
    <2> QED BY <1>1, <1>2, <1>3, <1>4, <2>1, <2>2, EventsStep
            DEF IInv, DType, Point, Asking, Unsettled
  <1>6. ASSUME NEW id \in AbsentPreparations, k.status = "BLOCKED", todo' = RequeueSteps(id)
        PROVE  IInv'
    <2> SUFFICES ASSUME NEW e1, NEW e2, NEW e3,
                        e1 = AttemptMove("ATTEMPT_RELEASED", id, "RESERVED", "TERMINATED",
                                         "none"),
                        e2 = TaskMove("TASK_RETRY_SCHEDULED", id[1], "BLOCKED", "READY", "none"),
                        e3 = RunMove("RUN_RESUMED", "BLOCKED", "RUNNING", "none")
                 PROVE  IInv'
      OBVIOUS
    <2>1. /\ id \in AnId /\ id[1] \in Task /\ id[2] = Latest(id[1])
          /\ Of(id).state = S(id[1], id[2]) /\ Of(id).state \in {"RESERVED", "TERMINATED"}
      BY AttemptsKnown, KnownIs DEF AbsentPreparations, IInv
    <2>2. e1 \in Event /\ e2 \in Event /\ e3 \in Event
      <3>1. /\ "RESERVED" \in AttemptState \cup {"PLANNED"} /\ "TERMINATED" \in AttemptState
            /\ "BLOCKED" \in TaskState /\ "READY" \in TaskState
        BY DEF AttemptState, TaskState
      <3> QED BY <2>1, <3>1, EventKinds DEF IInv
    <2>3. /\ e1.subject = "attempt" /\ e1.type = "ATTEMPT_RELEASED" /\ e1.why = "none"
          /\ e2.subject = "task" /\ e2.type = "TASK_RETRY_SCHEDULED" /\ e2.task = id[1]
          /\ e3.subject = "run"
      BY DEF AttemptMove, TaskMove, RunMove
    <2>4. todo' \in Seq(Event) /\ \A i \in DOMAIN todo' : todo'[i] \in {e1, e2, e3}
      <3>1. SUFFICES ASSUME NEW A, A = {e1, e2, e3}
                     PROVE  todo' \in Seq(Event) /\ \A i \in DOMAIN todo' : todo'[i] \in A
        OBVIOUS
      <3>2. e1 \in A /\ e2 \in A /\ e3 \in A /\ A \in SUBSET Event
        BY <2>2, <3>1
      <3>3. SUFFICES ASSUME NEW u, NEW v, NEW w, w = <<e3>>,
                            u = IF Of(id).state = "RESERVED" THEN <<e1>> ELSE <<>>,
                            v = IF State(id[1]) = "BLOCKED" THEN <<e2>> ELSE <<>>
                     PROVE  todo' \in Seq(Event) /\ \A i \in DOMAIN todo' : todo'[i] \in A
        OBVIOUS
      <3>4. u \in Seq(A) /\ v \in Seq(A)
        BY <3>2, <3>3, Optional, Zenon
      <3>5. w \in Seq(A)
        BY <3>2, <3>3
      <3>6. todo' = (u \o v) \o w
        BY <1>6, <3>3 DEF RequeueSteps
      <3>7. u \o v \in Seq(A)
        BY <3>4, ConcatProperties
      <3> QED BY <3>2, <3>5, <3>6, <3>7, Joined
    <2>5. \A n \in DOMAIN k'.attempt[id[1]] : ~Engaged(id[1], n)'
      <3>1. \A n \in DOMAIN k.attempt[id[1]] : ~Engaged(id[1], n)
        BY <2>1 DEF IInv, AttemptInv, Engaged
      <3> QED BY <1>1, <1>2, <3>1 DEF Engaged, Settled, S, IdOf, resume
    <2>6. TodoInv'
      <3> SUFFICES ASSUME NEW i \in DOMAIN todo'
                   PROVE  /\ RunEventOK(i)' /\ TaskEventOK(i)' /\ AttemptEventOK(i)'
                          /\ EffectEventOK(i)' /\ DispatchEventOK(i)'
        BY DEF TodoInv
      <3>1. todo'[i] \in {e1, e2, e3}
        BY <2>4
      <3>2. /\ RunEventOK(i)' /\ EffectEventOK(i)' /\ DispatchEventOK(i)' /\ AttemptEventOK(i)'
        BY <1>1, <2>3, <3>1
           DEF RunEventOK, AttemptEventOK, EffectEventOK, DispatchEventOK
      <3>3. TaskEventOK(i)'
        BY <1>1, <2>3, <2>5, <3>1 DEF TaskEventOK
      <3> QED BY <3>2, <3>3
    <2>7. \A i \in DOMAIN todo' : todo'[i].subject # "effect"
      BY <2>3, <2>4
    <2> QED BY <1>1, <1>2, <1>3, <1>4, <2>4, <2>6, <2>7, EventsStep
            DEF IInv, DType, Point, Asking, Unsettled
  <1> QED BY <1>1, <1>5, <1>6 DEF Acquired, Conflicting, Later

\* The tail of six events.
LEMMA TailOfSix ==
  ASSUME NEW E, NEW r \in Seq(E), Len(r) = 6, NEW j \in 1..6
  PROVE  /\ SubSeq(r, j, 6) \in Seq(E) /\ DOMAIN SubSeq(r, j, 6) = 1..(7 - j)
         /\ \A i \in 1..(7 - j) : SubSeq(r, j, 6)[i] = r[j + i - 1]
  <1>1. /\ SubSeq(r, j, 6) \in Seq(E) /\ Len(SubSeq(r, j, 6)) = 6 - j + 1
        /\ \A i \in 1..(6 - j + 1) : SubSeq(r, j, 6)[i] = r[j + i - 1]
    <2>1. ASSUME NEW i \in j..6 PROVE r[i] \in E
      <3>1. i \in 1..Len(r)
        OBVIOUS
      <3> QED BY <3>1, ElementOfSeq
    <2>2. j \in Int /\ 6 \in Int /\ j <= 6
      OBVIOUS
    <2> QED BY <2>1, <2>2, SubSeqProperties
  <1>2. 6 - j + 1 = 7 - j
    OBVIOUS
  <1>3. DOMAIN SubSeq(r, j, 6) = 1..(7 - j)
    BY <1>1, <1>2, LenProperties
  <1>4. \A i \in 1..(7 - j) : SubSeq(r, j, 6)[i] = r[j + i - 1]
    BY <1>1, <1>2
  <1> QED BY <1>1, <1>3, <1>4

LEMMA StepsLeft ==
  ASSUME NEW r \in Seq(Event), Len(r) = 6, NEW m \in 0..5, NEW s, s = SubSeq(r, m + 1, 6)
  PROVE  LeftOfSix(s, r, m)
  <1>1. ASSUME NEW j \in 1..6
        PROVE  /\ SubSeq(r, j, 6) \in Seq(Event) /\ DOMAIN SubSeq(r, j, 6) = 1..(7 - j)
               /\ \A i \in 1..(7 - j) : SubSeq(r, j, 6)[i] = r[j + i - 1]
    BY TailOfSix
  <1>2. PICK j \in 1..6 : j = m + 1
    OBVIOUS
  <1>3. s = SubSeq(r, j, 6) /\ 7 - j = 6 - m
    BY <1>2
  <1>4. s \in Seq(Event) /\ DOMAIN s = 1..(6 - m)
    BY <1>1, <1>3
  <1>5. Len(s) = 6 - m
    BY <1>4, LenProperties
  <1>6. ASSUME NEW i \in 1..(6 - m)
        PROVE  s[i] = r[i + m] /\ i + m \in 1..6
    <2>1. s[i] = r[j + i - 1]
      BY <1>1, <1>3
    <2>2. j + i - 1 = i + m /\ i + m \in 1..6
      BY <1>2
    <2> QED BY <2>1, <2>2
  <1> QED BY <1>4, <1>5, <1>6 DEF LeftOfSix

\* A turn was cancelled, and its attempt is taken back if it is untouched.
LEMMA RecheckStep ==
  ASSUME IInv, Recheck
  PROVE  IInv'
  <1> SUFFICES ASSUME NEW id, id = at, NEW m, m = StepsTaken(id),
                      NEW e1, NEW e2, NEW e3, NEW e4, NEW e5, NEW e6,
                      StepsBack(id, e1, e2, e3, e4, e5, e6)
               PROVE  IInv'
    BY DEF StepsBack
  <1> USE DEF StepsBack
  <1>1. /\ pc = "recheck" /\ todo = <<>>
        /\ UNCHANGED <<journal, resume, fresh, wave, left, at, world>>
    BY DEF Recheck, At, Goto
  <1>2. UNCHANGED <<k, pending, cancelled, broken, live, dirty>> /\ pending = {} /\ wave' = {}
    BY <1>1, NothingOpen DEF journal, world, Asking, Unsettled, IInv, StageInv
  <1>3. CASE pc' = "ending" /\ UNCHANGED todo
    <2>1. broken = "no"
      BY <1>1 DEF IInv, StageInv
    <2> QED BY <1>1, <1>2, <1>3, <2>1, EndStep
  <1>4. CASE /\ at \notin finished /\ <<at[1], at[2]>> \notin dirty /\ pc' = "takeback"
             /\ todo' = SubSeq(<<e1, e2, e3, e4, e5, e6>>, m + 1, 6)
    <2>0. SUFFICES ASSUME NEW r, r = <<e1, e2, e3, e4, e5, e6>>
                   PROVE  IInv'
      OBVIOUS
    <2>1. /\ Known(id) /\ id[2] = Latest(id[1]) /\ id[3] < k.epoch /\ <<id, "cancel">> \in done
          /\ S(id[1], id[2]) \in {"RUNNING", "CANCEL_REQUESTED"} \/ LostAt(id[1], id[2])
      BY <1>1 DEF IInv, AtInv
    <2>2. id \in AnId /\ id[1] \in Task /\ id = <<id[1], id[2], id[3]>>
      BY <2>1 DEF Known, AnId
    <2>3. CalledOff(id)
      BY <1>4, <2>1 DEF CalledOff
    <2>4. NoWorker(id[1])
      <3> SUFFICES ASSUME NEW i \in live, i[1] = id[1] PROVE FALSE
        BY DEF NoWorker
      <3>1. Known(i) /\ i[2] = Latest(i[1]) /\ <<i, "cancel">> \notin done
        BY LiveIs
      <3>2. i = id
        BY <2>1, <3>1, KnownIs
      <3> QED BY <2>1, <3>1, <3>2
    <2>5. \A n \in DOMAIN k.attempt[id[1]] : Engaged(id[1], n) => n = id[2] /\ m = 0
      <3> SUFFICES ASSUME NEW n \in DOMAIN k.attempt[id[1]], Engaged(id[1], n)
                   PROVE  n = id[2] /\ m = 0
        OBVIOUS
      <3>1. n = id[2]
        BY <2>1, <2>2 DEF IInv, AttemptInv
      <3>2. S(id[1], id[2]) = "RUNNING"
        BY <2>1, <3>1 DEF Engaged, LostAt
      <3>3. Of(id).state = "RUNNING"
        BY <3>2 DEF S, Of
      <3>4. StepsTaken(id) = 0
        BY <3>3 DEF StepsTaken, Lost
      <3> QED BY <3>1, <3>4
    <2>6. m \in 0..5
      <3>1. Of(id).state \in {"RUNNING", "CANCEL_REQUESTED"} \/ Lost(id)
        BY <2>1 DEF S, Of, Lost, LostAt
      <3>2. CASE Of(id).state = "RUNNING"
        BY <3>2 DEF StepsTaken, Lost
      <3>3. CASE Of(id).state = "CANCEL_REQUESTED"
        BY <3>3 DEF StepsTaken, Lost
      <3>4. CASE Lost(id)
        BY <3>4 DEF StepsTaken, Lost
      <3> QED BY <3>1, <3>2, <3>3, <3>4
    <2>7. /\ e1 \in Event /\ e2 \in Event /\ e3 \in Event /\ e4 \in Event /\ e5 \in Event
          /\ e6 \in Event
      <3>1. /\ "RUNNING" \in AttemptState \cup {"PLANNED"}
            /\ "CANCEL_REQUESTED" \in AttemptState \cup {"PLANNED"}
            /\ "TERMINATED" \in AttemptState \cup {"PLANNED"}
            /\ "CANCEL_REQUESTED" \in AttemptState /\ "TERMINATED" \in AttemptState
            /\ "RESERVED" \in AttemptState
            /\ "BLOCKED" \in TaskState /\ "READY" \in TaskState /\ "LEASED" \in TaskState
            /\ "DISPATCHED" \in TaskState
        BY DEF AttemptState, TaskState
      <3> QED BY <2>2, <3>1, EventKinds DEF IInv
    <2>8. /\ e1.subject = "attempt" /\ e1.type = "CANCEL_REQUESTED" /\ e1.task = id[1]
          /\ e1.attempt = id[2] /\ e1.reserved = id[3] /\ e1.to = "CANCEL_REQUESTED"
          /\ e2.subject = "attempt" /\ e2.type = "ATTEMPT_TERMINATED" /\ e2.task = id[1]
          /\ e2.attempt = id[2] /\ e2.reserved = id[3]
          /\ e3.subject = "task" /\ e3.type = "TASK_BLOCKED" /\ e3.task = id[1]
          /\ e4.subject = "task" /\ e4.type = "TASK_RETRY_SCHEDULED" /\ e4.task = id[1]
          /\ e5.subject = "task" /\ e5.type = "LEASE_ACQUIRED" /\ e5.task = id[1]
          /\ e6.subject = "attempt" /\ e6.type = "ATTEMPT_RESERVED" /\ e6.task = id[1]
          /\ e6.attempt = id[2] /\ e6.to = "RESERVED"
      BY DEF AttemptMove, TaskMove
    <2>9. /\ todo' \in Seq(Event) /\ DOMAIN todo' = 1..(6 - m)
          /\ \A i \in DOMAIN todo' : todo'[i] = r[i + m]
          /\ r[1] = e1 /\ r[2] = e2 /\ r[3] = e3 /\ r[4] = e4 /\ r[5] = e5 /\ r[6] = e6
      <3>1. todo' = SubSeq(r, m + 1, 6)
        BY <1>4, <2>0
      <3>2. /\ r \in Seq(Event) /\ Len(r) = 6 /\ r[1] = e1 /\ r[2] = e2 /\ r[3] = e3
            /\ r[4] = e4 /\ r[5] = e5 /\ r[6] = e6
        BY <2>0, <2>7
      <3>3. m \in 0..5
        BY <2>6
      <3>4. r \in Seq(Event) /\ Len(r) = 6
        BY <3>2
      <3>5. ASSUME NEW s, s = SubSeq(r, m + 1, 6)
            PROVE  LeftOfSix(s, r, m)
        BY ONLY <3>3, <3>4, <3>5, StepsLeft
      <3>6. LeftOfSix(todo', r, m)
        BY <3>1, <3>5
      <3> QED BY <3>2, <3>6 DEF LeftOfSix
    <2>10. pc' = "takeback"
      BY <1>4
    <2>11. ASSUME NEW i \in DOMAIN todo'
           PROVE  /\ todo'[i] \in {e1, e2, e3, e4, e5, e6}
                  /\ todo'[i] \in {e3, e4} /\ m = 0 => i > 1 /\ 1 \in DOMAIN todo' /\ todo'[1] = e1
      <3>1. i \in 1..(6 - m) /\ i + m \in 1..6 /\ todo'[i] = r[i + m]
        BY <2>6, <2>9
      <3>2. m = 0 => 1 \in DOMAIN todo' /\ todo'[1] = e1
        BY <2>9
      <3>3. e1 # e3 /\ e1 # e4
        BY <2>8
      <3> QED BY <2>9, <3>1, <3>2, <3>3
    <2>12. AtInv' /\ WaveInv'
      BY <1>2, <2>10 DEF AtInv, WaveInv, Asking
    <2>13. \A n \in DOMAIN k'.attempt[id[1]] : Engaged(id[1], n)' => n = id[2] /\ m = 0
      BY <1>1, <1>2, <2>5 DEF Engaged, Settled, S, IdOf, resume
    <2>14. NoWorker(id[1])' /\ id[2] = Latest(id[1])' /\ CalledOff(id)'
           /\ <<id[1], id[2]>> \notin dirty' /\ id[3] < k'.epoch
      BY <1>1, <1>2, <1>4, <2>1, <2>3, <2>4 DEF NoWorker, Latest, CalledOff, world
    <2>15. TodoInv'
      <3> SUFFICES ASSUME NEW i \in DOMAIN todo'
                   PROVE  /\ RunEventOK(i)' /\ TaskEventOK(i)' /\ AttemptEventOK(i)'
                          /\ EffectEventOK(i)' /\ DispatchEventOK(i)'
        BY DEF TodoInv
      <3>1. todo'[i] \in {e1, e2, e3, e4, e5, e6}
        BY <2>11
      <3>2. RunEventOK(i)' /\ EffectEventOK(i)' /\ DispatchEventOK(i)'
        BY <2>8, <3>1 DEF RunEventOK, EffectEventOK, DispatchEventOK
      <3>3. TaskEventOK(i)'
        <4>1. ASSUME todo'[i] \in {e3, e4}, NEW n \in DOMAIN k'.attempt[id[1]],
                     Engaged(id[1], n)'
              PROVE  /\ Before(i, id[1], n, {"CANCEL_REQUESTED"})'
                     /\ Before(i, id[1], n, {"CANCEL_REQUESTED", "OUTCOME_UNKNOWN", "FAILED"})'
          <5>1. n = id[2] /\ i > 1 /\ 1 \in DOMAIN todo' /\ todo'[1] = e1
            BY <2>11, <2>13, <4>1
          <5>2. i \in Nat
            BY <2>6, <2>9
          <5> QED BY <2>8, <5>1, <5>2 DEF Before, AttemptEventIs
        <4>2. CASE todo'[i] \in {e3, e4}
          BY <2>8, <2>10, <4>1, <4>2 DEF TaskEventOK
        <4>3. CASE todo'[i] \notin {e3, e4}
          BY <2>8, <2>10, <3>1, <4>3 DEF TaskEventOK
        <4> QED BY <4>2, <4>3
      <3>4. AttemptEventOK(i)'
        <4>1. CASE todo'[i] = e1
          BY <2>2, <2>8, <2>10, <2>14, <4>1 DEF AttemptEventOK
        <4>2. CASE todo'[i] = e2
          BY <2>2, <2>8, <2>10, <2>14, <4>2 DEF AttemptEventOK, Waves
        <4>3. CASE todo'[i] = e6
          <5>1. e6.from = "TERMINATED"
            BY DEF AttemptMove
          <5>2. /\ e6.attempt = Latest(e6.task)' /\ <<e6.task, e6.attempt>> \notin dirty'
                /\ NoWorker(e6.task)'
            BY <2>8, <2>14
          <5> QED BY <2>8, <2>10, <4>3, <5>1, <5>2 DEF AttemptEventOK
        <4>4. CASE todo'[i] \in {e3, e4, e5}
          BY <2>8, <4>4 DEF AttemptEventOK
        <4> QED BY <3>1, <4>1, <4>2, <4>3, <4>4
      <3> QED BY <3>2, <3>3, <3>4
    <2>16. \A i \in DOMAIN todo' : todo'[i].subject # "effect"
      BY <2>8, <2>11
    <2> QED BY <1>1, <1>2, <2>9, <2>10, <2>12, <2>15, <2>16, EventsStep
            DEF IInv, DType, Point, Asking, Unsettled, Waves
  <1> QED BY <1>3, <1>4 DEF Recheck, CutShort, Untouched, Later, Goto, TakeBackSteps

\* A step of a worker leaves alone what the coordinator is doing.
LEMMA SameProcess ==
  ASSUME IInv, UNCHANGED <<k, pending, broken, resume, pc, fresh, todo, wave, left, at, done>>
  PROVE  EffectInv' /\ AtInv' /\ WaveInv' /\ StageInv'
  <1>1. EffectInv'
    BY DEF IInv, EffectInv, Asks, Closes
  <1>2. AtInv'
    BY DEF IInv, AtInv, Known, Of, Latest, S, LostAt, State
  <1>3. WaveInv'
    BY DEF IInv, WaveInv, Latest, S, State, Engaged, Settled, IdOf, TaskEventIs, resume
  <1>4. StageInv'
    BY DEF IInv, StageInv
  <1> QED BY <1>1, <1>2, <1>3, <1>4

\* The steps of the workers.
LEMMA WorkerWritesStep ==
  ASSUME IInv, NEW id \in live, WorkerWrites(id)
  PROVE  IInv'
  <1>1. /\ dirty' = dirty \cup {<<id[1], id[2]>>}
        /\ UNCHANGED <<k, pending, cancelled, broken, resume, process, done, live, finished>>
    BY DEF WorkerWrites, journal
  <1>2. /\ id \in AnId /\ id[1] \in Task /\ id[2] \in DOMAIN k.attempt[id[1]]
        /\ ~Kept(id[1], id[2])
    BY LiveIs DEF Known, AnId, Engaged, Kept, LostAt
  <1>3. DType'
    BY <1>1, <1>2 DEF IInv, DType, AnId, process, resume
  <1>4. EffectInv' /\ AtInv' /\ WaveInv' /\ StageInv'
    BY <1>1, SameProcess DEF process
  <1>5. AttemptInv'
    BY <1>1, AttemptFrame DEF IInv, SameAttempts, process, resume
  <1>6. SentInv' /\ LiveInv' /\ ResolvedInv' /\ CancelInv'
    BY <1>1
       DEF IInv, SentInv, LiveInv, ResolvedInv, CancelInv, Sent, CalledOff, Known, Of, resume
  <1>7. CleanInv'
    <2>1. \A d \in dirty' : d[2] \in DOMAIN k.attempt[d[1]]
      BY <1>1, <1>2 DEF IInv, CleanInv
    <2>2. ASSUME NEW t \in Task, NEW n \in DOMAIN k.attempt[t], Kept(t, n)
          PROVE  <<t, n>> \notin dirty'
      BY <1>1, <1>2, <2>2 DEF IInv, CleanInv
    <2> QED BY <1>1, <2>1, <2>2 DEF CleanInv, Kept, LostAt, S
  <1>8. TodoInv'
    <2> SUFFICES ASSUME NEW i \in DOMAIN todo
                 PROVE  /\ RunEventOK(i)' /\ TaskEventOK(i)' /\ AttemptEventOK(i)'
                        /\ EffectEventOK(i)' /\ DispatchEventOK(i)'
      BY <1>1 DEF TodoInv, process
    <2>1. /\ RunEventOK(i) /\ TaskEventOK(i) /\ AttemptEventOK(i)
          /\ EffectEventOK(i) /\ DispatchEventOK(i)
      BY DEF IInv, TodoInv
    <2>2. RunEventOK(i)' /\ TaskEventOK(i)' /\ EffectEventOK(i)' /\ DispatchEventOK(i)'
      BY <1>1, <2>1
         DEF RunEventOK, TaskEventOK, EffectEventOK, DispatchEventOK, Engaged, S, Settled, IdOf,
             Before, AttemptEventIs, process, resume
    <2>3. \A t : NoWorker(t)' <=> NoWorker(t)
      BY <1>1 DEF NoWorker
    <2>4. \A t, n : NoWorker(t) /\ <<t, n>> \notin dirty => <<t, n>> \notin dirty'
      BY <1>1 DEF NoWorker
    <2>5. AttemptEventOK(i)'
      BY <1>1, <2>1, <2>3, <2>4 DEF AttemptEventOK, CalledOff, Latest, process
    <2> QED BY <2>2, <2>5
  <1> QED BY <1>3, <1>4, <1>5, <1>6, <1>7, <1>8 DEF IInv

\* A turn ends.
LEMMA WorkerEndsStep ==
  ASSUME IInv, NEW id \in live, WorkerEnds(id)
  PROVE  IInv'
  <1>1. /\ live' = live \ {id} /\ finished' \in {finished, finished \cup {id}}
        /\ UNCHANGED <<k, pending, cancelled, broken, resume, process, done, dirty>>
    BY DEF WorkerEnds, journal
  <1>2. <<id, "cancel">> \notin done
    BY LiveIs
  <1>3. WorldInv'
    BY <1>1, <1>2, WorldStep DEF IInv, LiveInv, CancelInv, DType, Sent
  <1>4. EffectInv' /\ AtInv' /\ WaveInv' /\ StageInv'
    BY <1>1, SameProcess DEF process
  <1>5. TodoInv'
    <2> SUFFICES ASSUME NEW i \in DOMAIN todo
                 PROVE  /\ RunEventOK(i)' /\ TaskEventOK(i)' /\ AttemptEventOK(i)'
                        /\ EffectEventOK(i)' /\ DispatchEventOK(i)'
      BY <1>1 DEF TodoInv, process
    <2>1. /\ RunEventOK(i) /\ TaskEventOK(i) /\ AttemptEventOK(i)
          /\ EffectEventOK(i) /\ DispatchEventOK(i)
      BY DEF IInv, TodoInv
    <2>2. RunEventOK(i)' /\ TaskEventOK(i)' /\ EffectEventOK(i)' /\ DispatchEventOK(i)'
      BY <1>1, <2>1
         DEF RunEventOK, TaskEventOK, EffectEventOK, DispatchEventOK, Engaged, S, Settled, IdOf,
             Before, AttemptEventIs, process, resume
    <2>3. \A t : NoWorker(t) => NoWorker(t)'
      BY <1>1 DEF NoWorker
    <2>4. \A j : CalledOff(j) => CalledOff(j)'
      BY <1>1, <1>2 DEF CalledOff
    <2>5. AttemptEventOK(i)'
      BY <1>1, <2>1, <2>3, <2>4 DEF AttemptEventOK, Latest, process
    <2> QED BY <2>2, <2>5
  <1> QED BY <1>1, <1>3, <1>4, <1>5, ProcessStep DEF IInv, DType, resume, process

\* The workers of a wave have ended.
LEMMA CollectStep ==
  ASSUME IInv, Collect
  PROVE  IInv'
  <1>1. /\ pc = "dispatch" /\ pc' = "accept" /\ todo = <<>> /\ left' = wave
        /\ live' \subseteq live /\ finished' = finished \cup (live \ live')
        /\ UNCHANGED <<journal, resume, fresh, todo, wave, at, done, dirty>>
    BY DEF Collect, At, Goto
  <1>2. UNCHANGED <<k, pending, cancelled, broken>> /\ pending = {} /\ DOMAIN todo' = {}
    BY <1>1, NothingOpen DEF journal, Asking, Unsettled
  <1>3. ASSUME NEW id \in live PROVE <<id, "cancel">> \notin done
    BY LiveIs
  <1>4. WorldInv'
    BY <1>1, <1>2, <1>3, WorldStep DEF IInv, LiveInv, CancelInv, DType, Sent
  <1>5. WaveInv' /\ AtInv'
    BY <1>1, <1>2 DEF IInv, WaveInv, AtInv, Asking, Latest
  <1>6. EffectInv' /\ TodoInv' /\ StageInv'
    BY <1>1, <1>2 DEF IInv, EffectInv, TodoInv, StageInv, Asking
  <1> QED BY <1>1, <1>2, <1>4, <1>5, <1>6, ProcessStep DEF IInv, DType, resume, Point, Waves

\* The tasks of a wave, one after the other.
LEMMA TasksInOrder ==
  ASSUME NEW T \in SUBSET Task, NEW s
  PROVE  s = SetToSeq(T) =>
           s \in Seq(Task) /\ IsInjective(s) /\ \A i \in 1..Len(s) : s[i] \in T
  <1>1. IsFiniteSet(T)
    BY DispatchAssumption, FS_Subset
  <1>2. Cardinality(T) \in Nat /\ ExistsBijection(1..Cardinality(T), T)
    BY <1>1, FS_CardinalityType
  <1>3. \E f \in [1..Cardinality(T) -> T] : IsInjective(f)
    BY <1>2 DEF ExistsBijection, Bijection, Injection
  <1>4. s = SetToSeq(T) => s \in [1..Cardinality(T) -> T] /\ IsInjective(s)
    BY <1>3 DEF SetToSeq
  <1>5. s \in [1..Cardinality(T) -> T] => s \in Seq(Task) /\ s \in Seq(T)
    BY <1>2, SeqDef
  <1>6. s \in Seq(T) => \A i \in 1..Len(s) : s[i] \in T
    BY ElementOfSeq
  <1> QED BY <1>4, <1>5, <1>6

\* What landing the results of a wave appends.
LEMMA LandEvents ==
  ASSUME IInv, Land
  PROVE  todo' \in Seq(Event) /\ \A i \in DOMAIN todo' : todo'[i] \in Landed
  <1> SUFFICES ASSUME NEW o, o = SetToSeq(Successful), NEW u, NEW v, NEW w,
                      u = [i \in 1..Len(o) |->
                             TaskMove("RESULT_STAGED", o[i], "DISPATCHED", "STAGED", "none")],
                      v = [i \in 1..Len(o) |->
                             TaskMove("PROMOTION_OBSERVED", o[i], "STAGED", "PROMOTED", "none")],
                      w = [i \in 1..Len(o) |->
                             TaskMove("TASK_VERIFIED", o[i], "PROMOTED", "VERIFIED", "none")]
               PROVE  todo' \in Seq(Event) /\ \A i \in DOMAIN todo' : todo'[i] \in Landed
    OBVIOUS
  <1>1. todo' = (u \o v) \o w
    BY DEF Land, Later
  <1>2. \A t \in Task :
          /\ TaskMove("RESULT_STAGED", t, "DISPATCHED", "STAGED", "none") \in Landed
          /\ TaskMove("PROMOTION_OBSERVED", t, "STAGED", "PROMOTED", "none") \in Landed
          /\ TaskMove("TASK_VERIFIED", t, "PROMOTED", "VERIFIED", "none") \in Landed
    <2>1. ASSUME NEW t \in Task, NEW from \in TaskState, NEW to \in TaskState,
                 NEW type \in {"RESULT_STAGED", "PROMOTION_OBSERVED", "TASK_VERIFIED"}
          PROVE  TaskMove(type, t, from, to, "none") \in Landed
      <3>0. SUFFICES ASSUME NEW e, e = TaskMove(type, t, from, to, "none")
                     PROVE  e \in Landed
        OBVIOUS
      <3>1. e \in Event
        BY <3>0, EventKinds DEF IInv
      <3>2. /\ e.subject = "task"
            /\ e.type \in {"RESULT_STAGED", "PROMOTION_OBSERVED", "TASK_VERIFIED"}
        BY <3>0 DEF TaskMove
      <3> QED BY <3>1, <3>2 DEF Landed
    <2>2. /\ "DISPATCHED" \in TaskState /\ "STAGED" \in TaskState /\ "PROMOTED" \in TaskState
          /\ "VERIFIED" \in TaskState
      BY DEF TaskState
    <2> QED BY <2>1, <2>2, Zenon
  <1>3. o \in Seq(Task)
    BY TasksInOrder DEF Successful, IInv, DType
  <1>4. u \in Seq(Landed) /\ v \in Seq(Landed) /\ w \in Seq(Landed)
    <2>1. Len(o) \in Nat /\ \A i \in 1..Len(o) : o[i] \in Task
      BY <1>3, LenProperties, ElementOfSeq
    <2>2. u \in [1..Len(o) -> Landed] /\ v \in [1..Len(o) -> Landed] /\ w \in [1..Len(o) -> Landed]
      BY <1>2, <2>1
    <2> QED BY <2>1, <2>2, SeqDef
  <1>5. todo' \in Seq(Event) /\ \A i \in DOMAIN todo' : todo'[i] \in Landed
    <2>1. u \o v \in Seq(Landed)
      BY <1>4, ConcatProperties
    <2>2. todo' = (u \o v) \o w /\ Landed \in SUBSET Event
      BY <1>1 DEF Landed
    <2> QED BY <1>4, <2>1, <2>2, Joined
  <1> QED BY <1>5

\* The results of a wave are landed.
LEMMA LandStep ==
  ASSUME IInv, Land
  PROVE  IInv'
  <1>1. UNCHANGED <<k, pending, cancelled, broken>> /\ pending = {}
    BY NothingOpen DEF Land, At, journal, Asking, Unsettled
  <1>2. todo' \in Seq(Event) /\ \A i \in DOMAIN todo' : todo'[i] \in Landed
    BY LandEvents
  <1>3. /\ pc = "accept" /\ pc' \in {"wave", "ending"} /\ todo = <<>> /\ wave' = {}
        /\ UNCHANGED <<journal, resume, fresh, at, world>> /\ left' = {}
    BY DEF Land, At, Goto
  <1>4. \A i \in DOMAIN todo' :
          /\ todo'[i].subject = "task"
          /\ todo'[i].type \in {"RESULT_STAGED", "PROMOTION_OBSERVED", "TASK_VERIFIED"}
    BY <1>2 DEF Landed
  <1>5. TodoInv'
    BY <1>3, <1>4
       DEF TodoInv, RunEventOK, TaskEventOK, AttemptEventOK, EffectEventOK, DispatchEventOK
  <1>6. AtInv' /\ WaveInv'
    BY <1>3 DEF AtInv, WaveInv, Asking
  <1> QED BY <1>1, <1>2, <1>3, <1>4, <1>5, <1>6, EventsStep
          DEF IInv, DType, Point, Asking, Unsettled, Waves

------------------------------------------------------------------------------
(* The starts and the resume command.                                       *)

\* A start takes the lease over.
LEMMA StartStep ==
  ASSUME IInv, Start
  PROVE  IInv'
  <1>1. /\ pc = "down" /\ broken = "no" /\ k' = FoldLease(k, k.epoch + 1)
        /\ pc' = "reconcile" /\ fresh' = TRUE /\ todo' = <<>> /\ wave' = {} /\ left' = {}
        /\ UNCHANGED <<pending, cancelled, broken, resume, world>>
    BY DEF Start
  <1>2. /\ k' \in AnySnapshot /\ k'.attempt = k.attempt /\ k'.task = k.task
        /\ k.epoch \in Nat /\ k'.epoch = k.epoch + 1
    <2>1. k \in AnySnapshot /\ k.epoch \in Nat
      BY DEF IInv, DType, AnySnapshot
    <2>2. k' = [k EXCEPT !.epoch = k.epoch + 1]
      BY <1>1 DEF FoldLease
    <2>3. k' \in AnySnapshot
      BY <2>1, <2>2 DEF AnySnapshot
    <2> QED BY <2>1, <2>2, <2>3 DEF AnySnapshot
  <1>3. \A t \in Task : \A n \in DOMAIN k.attempt[t] : k.attempt[t][n].epoch \in Nat
    BY AttemptsKnown DEF IInv
  <1>4. DType'
    <2>1. todo' \in Seq(Event)
      BY <1>1
    <2> QED BY <1>1, <1>2, <2>1 DEF IInv, DType, Point, resume, world
  <1>5. EffectInv' /\ TodoInv' /\ AtInv' /\ WaveInv' /\ StageInv'
    <2>1. DOMAIN todo' = {}
      BY <1>1
    <2> QED BY <1>1, <2>1
            DEF IInv, EffectInv, TodoInv, AtInv, WaveInv, StageInv, Asking, Unsettled
  <1>6. AttemptInv'
    <2>1. /\ pc' \notin Waves
          /\ \A u \in Task : \A m \in DOMAIN k.attempt[u] :
               k.attempt[u][m].epoch < k.epoch => k.attempt[u][m].epoch < k'.epoch
      BY <1>1, <1>2, <1>3 DEF Waves
    <2>2. \A u \in Task : \A m \in DOMAIN k.attempt[u] :
            /\ Held(u, m)' <=> Held(u, m)
            /\ Engaged(u, m)' <=> Engaged(u, m)
            /\ LostAt(u, m)' <=> LostAt(u, m)
            /\ Latest(u)' = Latest(u) /\ State(u)' = State(u) /\ S(u, m)' = S(u, m)
      BY <1>1, <1>2 DEF Held, LostAt, S, Engaged, Settled, IdOf, Latest, State, resume
    <2>3. AttemptInv
      BY DEF IInv
    <2> HIDE <1>1
    <2> QED BY <1>2, <2>1, <2>2, <2>3 DEF AttemptInv
  <1>7. SentInv' /\ LiveInv' /\ ResolvedInv' /\ CleanInv'
    BY <1>1, <1>2
       DEF IInv, SentInv, LiveInv, ResolvedInv, CleanInv, Sent, CalledOff, Known, Of, Kept,
           LostAt, S, resume, world
  <1>8. CancelInv'
    BY <1>1, <1>2 DEF IInv, CancelInv, AnId, world
  <1> QED BY <1>4, <1>5, <1>6, <1>7, <1>8 DEF IInv

\* What the resume command may change: tasks that no packet engages, and which
\* dispatches are settled.
LEMMA ResumeFrame ==
  ASSUME IInv, UNCHANGED <<pending, cancelled, broken, pc, todo, wave, left, at, world>>,
         k' \in AnySnapshot, k'.attempt = k.attempt, k'.epoch = k.epoch, fresh' \in BOOLEAN,
         recovery' \in [id : AnId, step : {"proof", "retried"}] \cup {NoRecovery},
         resolved' \subseteq AnId,
         \A t, n : Engaged(t, n)' => Engaged(t, n),
         \A t \in Task : State(t) = "LEASED" => State(t)' = "LEASED",
         \A t \in Task : \A n \in DOMAIN k.attempt[t] : Engaged(t, n)' => State(t)' = State(t),
         ResolvedInv'
  PROVE  IInv'
  <1>1. DType' /\ EffectInv' /\ StageInv'
    BY DEF IInv, DType, EffectInv, StageInv, Asks, Closes, world
  <1>2. AttemptInv'
    BY DEF IInv, AttemptInv, Held, Kept, LostAt, S, Latest
  <1>3. SentInv' /\ LiveInv' /\ CancelInv' /\ CleanInv'
    BY DEF IInv, SentInv, LiveInv, CancelInv, CleanInv, Sent, CalledOff, Known, Of, Kept,
           LostAt, S, world
  <1>4. AtInv'
    <2> SUFFICES ASSUME NEW id, id = at PROVE AtInv'
      OBVIOUS
    <2>1. /\ Known(id)' <=> Known(id)
          /\ S(id[1], id[2])' = S(id[1], id[2])
          /\ LostAt(id[1], id[2])' <=> LostAt(id[1], id[2])
          /\ Latest(id[1])' = Latest(id[1]) /\ Of(id)' = Of(id)
      BY DEF Known, Of, Latest, S, LostAt
    <2>2. Known(id) /\ State(id[1]) = "LEASED" => State(id[1])' = "LEASED"
      BY DEF Known, AnId
    <2>3. id = at' /\ pc' = pc /\ todo' = todo /\ left' = left /\ k'.epoch = k.epoch
          /\ done' = done
      BY DEF world
    <2>4. AtInv
      BY DEF IInv
    <2>5. pc \in Asking \cup {"recheck"} => Known(id)' /\ id[2] = Latest(id[1])'
      BY <2>1, <2>4 DEF AtInv
    <2>6. pc \in {"cancel", "recheck"} =>
            /\ S(id[1], id[2])' \in {"RUNNING", "CANCEL_REQUESTED"} \/ LostAt(id[1], id[2])'
            /\ id[3] < k'.epoch
      BY <2>1, <2>4 DEF AtInv
    <2>7. pc \in {"channel", "packet"} =>
            /\ State(id[1])' = "LEASED" /\ id[1] \notin left
            /\ \/ pc = "channel" /\ todo # <<>> /\ todo[1].subject = "attempt"
               \/ Of(id)'.state = "DISPATCH_REQUESTED" /\ ~(id[3] < k'.epoch)
      BY <2>1, <2>2, <2>4 DEF AtInv, Asking
    <2> QED BY <2>3, <2>4, <2>5, <2>6, <2>7 DEF AtInv, Known, Of, Latest, S, LostAt, State
  <1>5. WaveInv'
    BY DEF IInv, DType, WaveInv, Latest, TaskEventIs
  <1>6. TodoInv'
    <2> SUFFICES ASSUME NEW i \in DOMAIN todo
                 PROVE  /\ RunEventOK(i)' /\ TaskEventOK(i)' /\ AttemptEventOK(i)'
                        /\ EffectEventOK(i)' /\ DispatchEventOK(i)'
      BY DEF TodoInv
    <2>1. /\ RunEventOK(i) /\ TaskEventOK(i) /\ AttemptEventOK(i)
          /\ EffectEventOK(i) /\ DispatchEventOK(i)
      BY DEF IInv, TodoInv
    <2>2. RunEventOK(i)' /\ EffectEventOK(i)' /\ DispatchEventOK(i)'
      BY <2>1 DEF RunEventOK, EffectEventOK, DispatchEventOK, world
    <2>3. TaskEventOK(i)'
      BY <2>1 DEF TaskEventOK, S, Before, AttemptEventIs
    <2>4. AttemptEventOK(i)'
      BY <2>1 DEF AttemptEventOK, CalledOff, Latest, NoWorker, world
    <2> QED BY <2>2, <2>3, <2>4
  <1> QED BY <1>1, <1>2, <1>3, <1>4, <1>5, <1>6 DEF IInv

\* The resume command appends the proof that the packet was not sent ...
LEMMA ResumeProofStep ==
  ASSUME IInv, NEW id \in Attempts, ResumeProof(id)
  PROVE  IInv'
  <1>1. /\ recovery = NoRecovery /\ recovery' = [id |-> id, step |-> "proof"]
        /\ UNCHANGED <<k, resolved, pending, cancelled, broken, pc, todo, wave, left, at, world>>
        /\ fresh' = FALSE
    BY DEF ResumeProof, Resume
  <1>2. id \in AnId /\ Known(id) /\ Of(id).state = "OUTCOME_UNKNOWN" /\ ~Sent(id)
        /\ id \notin resolved
    BY AttemptsKnown DEF IInv, ResumeProof, UnknownMatches, Unknown, ProvenAbsent, Sent
  <1>3. \A t, n : Engaged(t, n)' <=> Engaged(t, n)
    BY <1>1 DEF Engaged, Settled, S, IdOf, NoRecovery
  <1>4. ResolvedInv'
    BY <1>1, <1>2 DEF IInv, ResolvedInv, Known, Of, Sent, world
  <1>5. recovery' \in [id : AnId, step : {"proof", "retried"}]
    BY <1>1, <1>2
  <1>6. \A t \in Task : State(t)' = State(t)
    BY <1>1 DEF State
  <1> QED BY <1>1, <1>3, <1>4, <1>5, <1>6, ResumeFrame DEF IInv, DType

\* ... has the task tried again ...
LEMMA ResumeRetryStep ==
  ASSUME IInv, ResumeRetry
  PROVE  IInv'
  <1> SUFFICES ASSUME NEW id, id = recovery.id, NEW e,
                      e = TaskMove("TASK_RETRY_SCHEDULED", id[1], "BLOCKED", "READY", "none")
               PROVE  IInv'
    OBVIOUS
  <1>1. /\ recovery.step = "proof" /\ recovery' = [recovery EXCEPT !.step = "retried"]
        /\ UNCHANGED <<resolved, pending, cancelled, broken, pc, todo, wave, left, at, world>>
        /\ fresh' = FALSE /\ Accepts(k, e) /\ k' = Fold(k, e)
    BY DEF ResumeRetry, Resume
  <1>2. id \in AnId /\ recovery' = [id |-> id, step |-> "retried"]
    BY <1>1 DEF IInv, DType, NoRecovery
  <1>3. /\ Known(id) /\ Of(id).state = "OUTCOME_UNKNOWN" /\ ~Sent(id) /\ id \notin resolved
    BY <1>1, <1>2 DEF IInv, ResolvedInv
  <1>4. id[1] \in Task /\ S(id[1], id[2]) = "OUTCOME_UNKNOWN" /\ id = IdOf(id[1], id[2])
        /\ id[2] = Latest(id[1])
    <2>1. /\ id[1] \in Task /\ S(id[1], id[2]) = "OUTCOME_UNKNOWN" /\ id = IdOf(id[1], id[2])
          /\ id[2] \in DOMAIN k.attempt[id[1]]
      BY <1>3, KnownIs
    <2>2. Engaged(id[1], id[2])
      BY <1>1, <1>3, <2>1 DEF Engaged, Settled
    <2> QED BY <2>1, <2>2 DEF IInv, AttemptInv
  <1>5. e \in TaskEvent
    <2>1. k.epoch \in Nat
      BY DEF IInv, DType, AnySnapshot
    <2> QED BY <1>4, <2>1 DEF TaskMove, TaskEvent, TaskState, Why
  <1>6. e.task = id[1] /\ e.from = "BLOCKED"
    BY DEF TaskMove
  <1>7. /\ k' \in AnySnapshot /\ k'.attempt = k.attempt /\ k'.epoch = k.epoch
        /\ State(id[1]) = "BLOCKED" /\ \A u \in Task : u # id[1] => k'.task[u] = k.task[u]
    BY <1>1, <1>5, <1>6, TaskFolded DEF IInv, DType
  <1>8. \A t, n : Engaged(t, n)' => Engaged(t, n) /\ IdOf(t, n) # id
    BY <1>1, <1>2, <1>4, <1>7 DEF Engaged, Settled, S, IdOf
  <1>9. ASSUME NEW t \in Task, NEW n \in DOMAIN k.attempt[t], Engaged(t, n)'
        PROVE  State(t)' = State(t)
    <2>1. t # id[1]
      BY <1>4, <1>8, <1>9 DEF IInv, AttemptInv
    <2> QED BY <1>7, <2>1 DEF State
  <1>10. \A t \in Task : State(t) = "LEASED" => State(t)' = "LEASED"
    BY <1>7 DEF State
  <1>11. ResolvedInv'
    <2>1. \A i : Known(i)' = Known(i) /\ Of(i)' = Of(i) /\ Sent(i)' = Sent(i)
      BY <1>1, <1>7 DEF Known, Of, Sent, world
    <2>2. resolved' = resolved /\ recovery'.id = id /\ recovery'.step = "retried"
      BY <1>1, <1>2
    <2> QED BY <1>3, <2>1, <2>2 DEF IInv, ResolvedInv
  <1>12. recovery' \in [id : AnId, step : {"proof", "retried"}]
    BY <1>2
  <1> QED BY <1>1, <1>7, <1>8, <1>9, <1>10, <1>11, <1>12, ResumeFrame DEF IInv, DType

\* ... and resumes the run.
LEMMA ResumeRunStep ==
  ASSUME IInv, ResumeRun
  PROVE  IInv'
  <1> SUFFICES ASSUME NEW id, id = recovery.id, NEW e,
                      e = RunMove("RUN_RESUMED", "BLOCKED", "RUNNING", "none")
               PROVE  IInv'
    OBVIOUS
  <1>1. /\ recovery.step = "retried" /\ recovery' = NoRecovery
        /\ resolved' = resolved \cup {id}
        /\ UNCHANGED <<pending, cancelled, broken, pc, todo, wave, left, at, world>>
        /\ fresh' = FALSE /\ Accepts(k, e) /\ k' = Fold(k, e)
    BY DEF ResumeRun, Resume
  <1>2. id \in AnId
    BY <1>1 DEF IInv, DType, NoRecovery
  <1>3. e \in RunEvent
    <2>1. k.epoch \in Nat
      BY DEF IInv, DType, AnySnapshot
    <2> QED BY <2>1 DEF RunMove, RunEvent, RunStatus, Why
  <1>4. k' \in AnySnapshot /\ k'.attempt = k.attempt /\ k'.task = k.task /\ k'.epoch = k.epoch
    BY <1>1, <1>3, RunFolded DEF IInv, DType
  <1>5. \A t, n : Engaged(t, n)' <=> Engaged(t, n)
    <2>1. \A i : Settled(i)' <=> Settled(i)
      BY <1>1 DEF Settled, NoRecovery
    <2> QED BY <1>4, <2>1 DEF Engaged, S, IdOf
  <1>6. \A t \in Task : State(t)' = State(t)
    BY <1>4 DEF State
  <1>7. ResolvedInv'
    <2>1. NoId \notin AnId
      BY DEF NoId, AnId
    <2> QED BY <1>1, <1>4, <2>1 DEF IInv, ResolvedInv, Known, Of, Sent, world, NoRecovery
  <1> QED BY <1>1, <1>2, <1>4, <1>5, <1>6, <1>7, ResumeFrame DEF IInv, DType

------------------------------------------------------------------------------
(* The inductive invariant.                                                 *)

\* It holds at first.
LEMMA IInvInit ==
  ASSUME Init
  PROVE  IInv
  <1>1. /\ k.epoch = 0 /\ k.attempt = [t \in Task |-> <<>>] /\ k \in AnySnapshot
        /\ \A t \in Task : k.attempt[t] = <<>> /\ DOMAIN k.attempt[t] = {}
    <2>1. "EXECUTING" \in RunPhase /\ "RUNNING" \in RunStatus /\ "none" \in Why
          /\ "APPROVED" \in TaskState
      BY DEF RunPhase, RunStatus, Why, TaskState
    <2>2. <<>> \in Seq(AnAttempt)
      OBVIOUS
    <2>3. /\ [t \in Task |-> [state |-> "APPROVED", why |-> "none"]]
               \in [Task -> [state : TaskState, why : Why]]
          /\ [t \in Task |-> <<>>] \in [Task -> Seq(AnAttempt)]
      BY <2>1, <2>2
    <2> QED BY <2>1, <2>3 DEF Init, AnySnapshot
  <1>2. /\ pending = {} /\ done = {} /\ cancelled = {} /\ resolved = {} /\ live = {}
        /\ dirty = {} /\ recovery = NoRecovery /\ broken = "no" /\ pc = "down"
        /\ fresh = FALSE /\ todo = <<>> /\ wave = {} /\ left = {} /\ DOMAIN todo = {}
    BY DEF Init
  <1>3. DType
    <2>1. todo \in Seq(Event)
      BY <1>2
    <2> QED BY <1>1, <1>2, <2>1 DEF DType, Point
  <1>4. EffectInv /\ AtInv /\ WaveInv /\ TodoInv /\ StageInv
    BY <1>2 DEF EffectInv, AtInv, WaveInv, TodoInv, StageInv, Asking, Unsettled
  <1>5. AttemptInv /\ CleanInv
    BY <1>1, <1>2 DEF AttemptInv, CleanInv
  <1>6. SentInv /\ LiveInv /\ CancelInv
    BY <1>2 DEF SentInv, LiveInv, CancelInv, Sent
  <1>7. ResolvedInv
    <2>1. NoId \notin AnId
      BY DEF NoId, AnId
    <2> QED BY <1>2, <2>1 DEF ResolvedInv, NoRecovery
  <1> QED BY <1>3, <1>4, <1>5, <1>6, <1>7 DEF IInv

\* A step that changes nothing keeps it.
LEMMA IInvStutter ==
  ASSUME IInv, UNCHANGED vars
  PROVE  IInv'
  <1>1. /\ UNCHANGED <<pending, cancelled, broken, pc, todo, wave, left, at, world>>
        /\ UNCHANGED <<k, fresh, recovery, resolved>>
    BY DEF vars, journal, resume, process
  <1>2. \A t, n : Engaged(t, n)' <=> Engaged(t, n)
    BY <1>1 DEF Engaged, Settled, S, IdOf
  <1>3. \A t \in Task : State(t)' = State(t)
    BY <1>1 DEF State
  <1>4. ResolvedInv'
    BY <1>1 DEF IInv, ResolvedInv, Known, Of, Sent, world
  <1> QED BY <1>1, <1>2, <1>3, <1>4, ResumeFrame DEF IInv, DType

\* Every step keeps it.
LEMMA IInvNext ==
  ASSUME IInv, Next
  PROVE  IInv'
  <1>1. CASE Start
    BY <1>1, StartStep
  <1>2. CASE Coordinator
    <2>1. CASE AppendNext
      BY <2>1, AppendStep
    <2>2. CASE GivesUp
      BY <2>2, StopSteps
    <2>3. CASE GoesOn \/ ReserveResumed \/ Reserved \/ Prepared
      BY <2>3, MoveSteps DEF GoesOn
    <2>4. CASE \E p \in pending : ReconcileApplied(p) \/ ReconcileRetry(p)
      BY <2>4, ReconcileAppliedStep, ReconcileRetryStep
    <2>5. CASE \E id \in Attempts : TakeBack(id) \/ Reclaim(id)
      BY <2>5, TakeBackStep, ReclaimStep
    <2>6. CASE Cancel \/ Recheck \/ Acquired
      BY <2>6, CancelStep, RecheckStep, AcquiredStep
    <2>7. CASE \E t \in Task : ReserveTask(t) \/ Prepare(t) \/ Dispatch(t) \/ Accept(t)
      BY <2>7, ReserveTaskStep, PrepareStep, DispatchStep, AcceptStep
    <2>8. CASE ReserveChannel \/ SendTaskPacket \/ Collect \/ Land
      BY <2>8, ReserveChannelStep, SendTaskPacketStep, CollectStep, LandStep
    <2> QED
      BY <1>2, <2>1, <2>2, <2>3, <2>4, <2>5, <2>6, <2>7, <2>8, Zenon
         DEF Coordinator, RecoverAbsent, GivesUp, GoesOn
  <1>3. CASE ResumeCommand
    BY <1>3, ResumeProofStep, ResumeRetryStep, ResumeRunStep DEF ResumeCommand
  <1>4. CASE Environment
    BY <1>4, StopSteps, WorkerWritesStep, WorkerEndsStep DEF Environment, GivesUp
  <1> QED BY <1>1, <1>2, <1>3, <1>4 DEF Next

\* The inductive invariant holds in every state.
THEOREM IInvAlways == Spec => []IInv
  <1>1. Init => IInv
    BY IInvInit
  <1>2. IInv /\ [Next]_vars => IInv'
    BY IInvNext, IInvStutter
  <1> QED BY <1>1, <1>2, PTL DEF Spec

------------------------------------------------------------------------------
(* What follows.                                                            *)

\* At most one child effect is open, however often the coordinator is stopped
\* and started (dispatch, cancel, reconcile_pending_external_effects).
THEOREM OneEffectOpenAlways == Spec => []OneEffectOpen
  <1>1. IInv => OneEffectOpen
    <2> SUFFICES ASSUME IInv PROVE OneEffectOpen
      OBVIOUS
    <2>1. CASE pending = {}
      BY <2>1, FS_EmptySet DEF OneEffectOpen
    <2>2. ASSUME NEW p \in pending PROVE OneEffectOpen
      <3>1. pending = {p}
        BY <2>2 DEF IInv, EffectInv
      <3>2. Cardinality({p}) = 1
        BY FS_Singleton
      <3> QED BY <3>1, <3>2 DEF OneEffectOpen
    <2> QED BY <2>1, <2>2
  <1> QED BY <1>1, IInvAlways, PTL

\* Two attempts that the journal knows as the latest of one task are the same.
LEMMA SameLatest ==
  ASSUME NEW i, NEW j, Known(i), Known(j), i[1] = j[1],
         i[2] = Latest(i[1]), j[2] = Latest(j[1])
  PROVE  i = j
  BY KnownIs

\* No two workers of one task run at the same time, whatever coordinator started
\* them.
THEOREM OneWorkerAlways == Spec => []OneWorker
  <1>1. IInv => OneWorker
    <2> SUFFICES ASSUME IInv, NEW i \in live, NEW j \in live, i[1] = j[1] PROVE i = j
      BY DEF OneWorker
    <2>1. Known(i) /\ i[2] = Latest(i[1]) /\ Known(j) /\ j[2] = Latest(j[1])
      BY LiveIs
    <2> QED BY <2>1, SameLatest
  <1> QED BY <1>1, IInvAlways, PTL

\* A task's packet is sent a second time only after the turn of the first was
\* cancelled before it ended.
THEOREM SentAgainOnlyCancelledAlways == Spec => []SentAgainOnlyCancelled
  <1>1. IInv => SentAgainOnlyCancelled
    <2> SUFFICES ASSUME IInv, NEW p \in done, NEW q \in done,
                        p[2] = "send", q[2] = "send", p # q, p[1][1] = q[1][1]
                 PROVE  \E id \in {p[1], q[1]} : <<id, "cancel">> \in done /\ id \notin finished
      BY DEF SentAgainOnlyCancelled
    <2> SUFFICES ASSUME ~CalledOff(p[1]), ~CalledOff(q[1]) PROVE FALSE
      BY DEF CalledOff
    <2> SUFFICES ASSUME NEW i, NEW j, i = p[1], j = q[1] PROVE FALSE
      OBVIOUS
    <2>1. /\ i \in AnId /\ j \in AnId /\ p = <<i, "send">> /\ q = <<j, "send">>
      BY DEF IInv, DType, AnEffect
    <2>2. Sent(i) /\ Sent(j)
      BY <2>1 DEF Sent
    <2>3. Known(i) /\ i[2] = Latest(i[1]) /\ Known(j) /\ j[2] = Latest(j[1])
      BY <2>1, <2>2, SentIs
    <2>4. i = j
      BY <2>3, SameLatest
    <2> QED BY <2>1, <2>4
  <1> QED BY <1>1, IInvAlways, PTL

\* A worktree that is handed out for a dispatch holds no change of a former
\* worker, and none runs in it.
THEOREM CleanReservationAlways == Spec => []CleanReservation
  <1>1. IInv => CleanReservation
    <2> SUFFICES ASSUME IInv, NEW t \in Task, NEW n \in DOMAIN k.attempt[t],
                        k.attempt[t][n].state = "RESERVED"
                 PROVE  <<t, n>> \notin dirty /\ \A id \in live : <<id[1], id[2]>> # <<t, n>>
      BY DEF CleanReservation
    <2>1. Kept(t, n) /\ ~Engaged(t, n)
      BY DEF Kept, Engaged, S
    <2>2. <<t, n>> \notin dirty
      BY <2>1 DEF IInv, CleanInv
    <2>3. ASSUME NEW id \in live, <<id[1], id[2]>> = <<t, n>> PROVE FALSE
      <3>1. Engaged(id[1], id[2])
        BY LiveIs
      <3>2. id[1] = t /\ id[2] = n
        BY <2>3
      <3> QED BY <2>1, <3>1, <3>2
    <2> QED BY <2>2, <2>3
  <1> QED BY <1>1, IInvAlways, PTL

------------------------------------------------------------------------------
(* The course of the events to come.  What the coordinator sets out to append *)
(* is accepted event by event, leaves a task and its attempts in step at each *)
(* of them, and leads to a snapshot that the next stage counts on.            *)

\* The kernel's words for the journal's own snapshot.
LEMMA TakesJournal ==
  ASSUME NEW e
  PROVE  (KernelTakes(e) <=> TakesIn(k, e)) /\ KernelAfter(e) = AfterIn(k, e)
  BY DEF KernelTakes, KernelAfter, TakesIn, AfterIn

\* No events.
LEMMA LeadsNowhere ==
  ASSUME NEW s, InStep(s)
  PROVE  Leads(s, <<>>, s)
  <1> DEFINE f == [i \in 1..1 |-> s]
  <1>1. f \in [1..(Len(<<>>) + 1) -> AnySnapshot] /\ f[1] = s
    BY DEF InStep
  <1>2. Len(<<>>) = 0 /\ \A i \in 1..1 : InStep(f[i])
    OBVIOUS
  <1> HIDE DEF f
  <1>3. /\ f[Len(<<>>) + 1] = s /\ \A i \in 1..(Len(<<>>) + 1) : InStep(f[i])
        /\ \A i \in 1..Len(<<>>) : Goes(f[i], <<>>[i], f[i + 1])
    BY <1>1, <1>2
  <1> QED BY <1>1, <1>3 DEF Leads

\* One event.
LEMMA LeadsOne ==
  ASSUME NEW s, NEW e, NEW r, InStep(s), InStep(r), Goes(s, e, r)
  PROVE  Leads(s, <<e>>, r)
  <1> DEFINE f == [i \in 1..2 |-> IF i = 1 THEN s ELSE r]
  <1>1. /\ f \in [1..(Len(<<e>>) + 1) -> AnySnapshot] /\ f[1] = s /\ f[2] = r
        /\ Len(<<e>>) = 1 /\ <<e>>[1] = e
    BY DEF InStep
  <1>2. \A i \in 1..2 : InStep(f[i])
    OBVIOUS
  <1>3. \A i \in 1..1 : Goes(f[i], <<e>>[i], f[i + 1])
    BY <1>1
  <1> HIDE DEF f
  <1> QED BY <1>1, <1>2, <1>3 DEF Leads

\* Events after others.
LEMMA LeadsJoin ==
  ASSUME NEW E, NEW u \in Seq(E), NEW w \in Seq(E), NEW s, NEW r, NEW q,
         Leads(s, u, r), Leads(r, w, q), NEW es, es = u \o w
  PROVE  Leads(s, es, q)
  <1>1. PICK f \in [1..(Len(u) + 1) -> AnySnapshot] :
          /\ f[1] = s /\ f[Len(u) + 1] = r
          /\ \A i \in 1..(Len(u) + 1) : InStep(f[i])
          /\ \A i \in 1..Len(u) : Goes(f[i], u[i], f[i + 1])
    BY DEF Leads
  <1>2. PICK g \in [1..(Len(w) + 1) -> AnySnapshot] :
          /\ g[1] = r /\ g[Len(w) + 1] = q
          /\ \A i \in 1..(Len(w) + 1) : InStep(g[i])
          /\ \A i \in 1..Len(w) : Goes(g[i], w[i], g[i + 1])
    BY DEF Leads
  <1>3. /\ Len(u) \in Nat /\ Len(w) \in Nat /\ Len(es) = Len(u) + Len(w)
        /\ \A j \in 1..(Len(u) + Len(w)) : es[j] = IF j <= Len(u) THEN u[j] ELSE w[j - Len(u)]
    BY ConcatProperties, LenProperties
  <1> SUFFICES ASSUME NEW m \in Nat, m = Len(u), NEW l \in Nat, l = Len(w)
               PROVE  Leads(s, es, q)
    BY <1>3
  <1> DEFINE h == [i \in 1..(m + l + 1) |-> IF i <= m THEN f[i] ELSE g[i - m]]
  <1>4. \A i \in 1..(m + l + 1) :
          h[i] \in AnySnapshot /\ InStep(h[i])
    <2> SUFFICES ASSUME NEW i \in 1..(m + l + 1)
                 PROVE  h[i] \in AnySnapshot /\ InStep(h[i])
      OBVIOUS
    <2>1. CASE i <= m
      <3>1. i \in 1..(m + 1) /\ h[i] = f[i]
        BY <2>1
      <3> QED BY <1>1, <3>1
    <2>2. CASE ~(i <= m)
      <3>1. i - m \in 1..(l + 1) /\ h[i] = g[i - m]
        BY <2>2
      <3> QED BY <1>2, <3>1
    <2> QED BY <2>1, <2>2
  <1>5. h \in [1..(m + l + 1) -> AnySnapshot]
    BY <1>4
  <1>6. h[1] = s /\ h[m + l + 1] = q
    <2>1. CASE m = 0
      BY <1>1, <1>2, <2>1
    <2>2. CASE m # 0
      BY <1>1, <1>2, <2>2
    <2> QED BY <2>1, <2>2
  <1>7. ASSUME NEW i \in 1..(m + l)
        PROVE  Goes(h[i], es[i], h[i + 1])
    <2>1. CASE i < m
      <3>1. h[i] = f[i] /\ h[i + 1] = f[i + 1] /\ es[i] = u[i] /\ i \in 1..m
        BY <1>3, <2>1
      <3> QED BY <1>1, <3>1
    <2>2. CASE i = m
      <3>1. h[i] = f[i] /\ h[i + 1] = g[1] /\ es[i] = u[i] /\ f[i + 1] = g[1] /\ i \in 1..m
        BY <1>1, <1>2, <1>3, <2>2
      <3> QED BY <1>1, <3>1
    <2>3. CASE i > m
      <3>0. /\ i - m \in 1..l /\ (i + 1) - m = (i - m) + 1 /\ ~(i <= m) /\ ~(i + 1 <= m)
            /\ i + 1 \in 1..(m + l + 1)
        BY <2>3
      <3>1. /\ i - m \in 1..l /\ h[i] = g[i - m] /\ h[i + 1] = g[(i - m) + 1]
            /\ es[i] = w[i - m]
        <4>1. h[i] = g[i - m] /\ h[i + 1] = g[(i + 1) - m]
          BY <3>0
        <4>2. es[i] = w[i - m]
          BY <1>3, <3>0
        <4> QED BY <3>0, <4>1, <4>2
      <3> QED BY <1>2, <3>1
    <2> QED BY <2>1, <2>2, <2>3
  <1> HIDE DEF h
  <1> QED BY <1>3, <1>4, <1>5, <1>6, <1>7 DEF Leads

\* The first event is taken, or it is the one that may be rejected.
LEMMA LeadsHead ==
  ASSUME NEW E, NEW es \in Seq(E), es # <<>>, NEW s, NEW r, Leads(s, es, r)
  PROVE  \E q : Goes(s, es[1], q) /\ InStep(q) /\ Leads(q, Tail(es), r)
  <1>1. /\ Len(es) \in Nat \ {0} /\ Len(Tail(es)) = Len(es) - 1
        /\ \A i \in 1..Len(Tail(es)) : Tail(es)[i] = es[i + 1]
    BY HeadTailProperties, LenProperties, EmptySeq
  <1>2. PICK f \in [1..(Len(es) + 1) -> AnySnapshot] :
          /\ f[1] = s /\ f[Len(es) + 1] = r
          /\ \A i \in 1..(Len(es) + 1) : InStep(f[i])
          /\ \A i \in 1..Len(es) : Goes(f[i], es[i], f[i + 1])
    BY DEF Leads
  <1> SUFFICES ASSUME NEW l, l = Len(es), NEW w, w = Tail(es)
               PROVE  \E q : Goes(s, es[1], q) /\ InStep(q) /\ Leads(q, w, r)
    OBVIOUS
  <1>10. l \in Nat /\ l > 0
    BY <1>1
  <1> DEFINE g == [i \in 1..l |-> f[i + 1]]
  <1>3. \A i \in 1..l : i + 1 \in 1..(l + 1) /\ g[i] = f[i + 1]
    BY <1>10
  <1>4. g \in [1..l -> AnySnapshot] /\ \A i \in 1..l : InStep(g[i])
    BY <1>2, <1>3
  <1>5. g[1] = f[2] /\ g[l] = r /\ 1 \in 1..l
    BY <1>2, <1>3, <1>10
  <1>6. ASSUME NEW i \in 1..(l - 1)
        PROVE  Goes(g[i], w[i], g[i + 1])
    <2>1. g[i] = f[i + 1] /\ g[i + 1] = f[(i + 1) + 1] /\ w[i] = es[i + 1] /\ i + 1 \in 1..l
      BY <1>1, <1>3, <1>10
    <2> QED BY <1>2, <2>1
  <1>7. Len(w) = l - 1 /\ (l - 1) + 1 = l
    BY <1>1, <1>10
  <1> HIDE DEF g
  <1>8. Leads(g[1], w, r)
    BY <1>4, <1>5, <1>6, <1>7 DEF Leads
  <1>9. Goes(s, es[1], g[1]) /\ InStep(g[1])
    BY <1>2, <1>4, <1>5
  <1> QED BY <1>8, <1>9

\* A task moves, and its latest attempt fits the state it moves to.
LEMMA TaskGoes ==
  ASSUME NEW s, InStep(s), NEW e \in TaskEvent, e.epoch = s.epoch,
         <<e.type, e.from, e.to>> \in TaskMoves, s.task[e.task].state = e.from,
         Len(s.attempt[e.task]) > 0 => Fits(LastOf(s, e.task), e.to)
  PROVE  \E r : /\ Goes(s, e, r) /\ InStep(r)
                /\ r.attempt = s.attempt /\ r.epoch = s.epoch /\ r.status = s.status
                /\ r.task[e.task].state = e.to
                /\ \A u \in Task : u # e.task => r.task[u] = s.task[u]
  <1> DEFINE b == [state |-> e.to,
                   why |-> IF e.to \in {"BLOCKED", "INVALIDATED", "REVERTED"} THEN e.why
                           ELSE "none"]
             r == TaskFold(s, e)
  <1>1. /\ e.task \in Task /\ e.subject = "task" /\ e.why \in Why /\ "none" \in Why
        /\ e.to \in TaskState /\ s \in AnySnapshot
    BY DEF TaskEvent, Why, InStep
  <1>2. r = [s EXCEPT !.task = [s.task EXCEPT ![e.task] = b]]
    BY DEF TaskFold
  <1>3. Goes(s, e, r)
    BY <1>1 DEF Goes, TakesIn, AfterIn, Accepts, Fold, TaskAccepts
  <1>4. [s.task EXCEPT ![e.task] = b] \in [Task -> [state : TaskState, why : Why]]
    BY <1>1 DEF AnySnapshot
  <1>5. r \in AnySnapshot
    BY <1>1, <1>2, <1>4 DEF AnySnapshot
  <1>6. /\ r.task = [s.task EXCEPT ![e.task] = b]
        /\ r.attempt = s.attempt /\ r.epoch = s.epoch /\ r.status = s.status
    BY <1>1, <1>2 DEF AnySnapshot
  <1> HIDE DEF r
  <1>7. r.task[e.task] = b /\ \A u \in Task : u # e.task => r.task[u] = s.task[u]
    BY <1>1, <1>6 DEF AnySnapshot
  <1>8. r.task[e.task].state = e.to
    BY <1>7
  <1>9. ASSUME NEW u \in Task PROVE FitsIn(r, u)
    <2>1. FitsIn(s, u)
      BY DEF InStep
    <2>2. Len(r.attempt[u]) > 0 => Fits(LastOf(r, u), r.task[u].state)
      BY <1>6, <1>7, <1>8, <2>1 DEF FitsIn, LastOf
    <2> QED BY <1>6, <2>1, <2>2 DEF FitsIn
  <1>10. InStep(r)
    BY <1>5, <1>9 DEF InStep
  <1> QED BY <1>3, <1>6, <1>7, <1>8, <1>10

\* The latest attempt of a task moves, or is given up, and fits its task then.
LEMMA AttemptGoes ==
  ASSUME NEW s, InStep(s), NEW e \in AttemptEvent, e.epoch = s.epoch,
         <<e.type, e.from, e.to>> \in AttemptMoves,
         Len(s.attempt[e.task]) = e.attempt, LastOf(s, e.task).state = e.from,
         LastOf(s, e.task).epoch = e.reserved,
         e.type = "ATTEMPT_RESERVED" => e.reserved < e.epoch,
         Fits([state |-> e.to, why |-> e.why], s.task[e.task].state)
  PROVE  \E r : /\ Goes(s, e, r) /\ InStep(r)
                /\ r.task = s.task /\ r.epoch = s.epoch /\ r.status = s.status
                /\ Len(r.attempt[e.task]) = e.attempt
                /\ LastOf(r, e.task).state = e.to /\ LastOf(r, e.task).why = e.why
                /\ e.type # "ATTEMPT_RESERVED" => LastOf(r, e.task).epoch = e.reserved
                /\ \A u \in Task : u # e.task => r.attempt[u] = s.attempt[u]
  <1> SUFFICES ASSUME NEW t \in Task, e.task = t, NEW n \in Nat \ {0}, e.attempt = n,
                      NEW b, b.state = e.to, b.why = e.why,
                      b.epoch = IF e.type = "ATTEMPT_RESERVED" THEN e.epoch ELSE e.reserved,
                      b = [state |-> e.to, why |-> e.why, epoch |-> b.epoch]
               PROVE  \E r : /\ Goes(s, e, r) /\ InStep(r)
                             /\ r.task = s.task /\ r.epoch = s.epoch /\ r.status = s.status
                             /\ Len(r.attempt[t]) = n /\ LastOf(r, t) = b
                             /\ \A u \in Task : u # t => r.attempt[u] = s.attempt[u]
    <2> DEFINE b == [state |-> e.to, why |-> e.why,
                     epoch |-> IF e.type = "ATTEMPT_RESERVED" THEN e.epoch ELSE e.reserved]
    <2>1. /\ b.state = e.to /\ b.why = e.why
          /\ b.epoch = IF e.type = "ATTEMPT_RESERVED" THEN e.epoch ELSE e.reserved
          /\ b = [state |-> e.to, why |-> e.why, epoch |-> b.epoch]
      OBVIOUS
    <2>2. e.task \in Task /\ e.attempt \in Nat \ {0}
      BY DEF AttemptEvent
    <2> HIDE DEF b
    <2> QED BY <2>1, <2>2
  <1> DEFINE A == s.attempt[t]
             r == AttemptFold(s, e)
  <1>0. Fits(b, s.task[t].state)
    BY DEF Fits, Abandoned
  <1>1. /\ e.subject = "attempt" /\ e.why \in Why /\ e.to \in AttemptState
        /\ e.epoch \in Nat /\ s \in AnySnapshot /\ A \in Seq(AnAttempt)
    BY DEF AttemptEvent, InStep, AnySnapshot
  <1>2. n \in DOMAIN A /\ A[n] \in AnAttempt /\ LastOf(s, t) = A[n]
    BY <1>1, ElementOfSeq, LenProperties DEF LastOf
  <1>3. /\ e.from # "PLANNED" /\ (e.type = "ATTEMPT_RESERVED" <=> Reclaims(e))
        /\ A[n].epoch \in Nat
    <2>1. A[n].state \in AttemptState /\ A[n].epoch \in Nat
      BY <1>2 DEF AnAttempt
    <2>2. e.from # "PLANNED"
      BY <1>2, <2>1 DEF AttemptState
    <2> QED BY <2>1, <2>2, AttemptMoveIs DEF Reclaims
  <1>4. TakesIn(s, e) /\ AfterIn(s, e) = r
    BY <1>1, <1>2, <1>3 DEF TakesIn, AfterIn, Accepts, Fold, AttemptAccepts
  <1>5. b \in AnAttempt
    BY <1>1, <1>2, <1>3 DEF AnAttempt
  <1>6. r = [s EXCEPT !.attempt = [s.attempt EXCEPT ![t] = [A EXCEPT ![n] = b]]]
    BY <1>2, <1>3 DEF AttemptFold
  <1>7. [A EXCEPT ![n] = b] \in Seq(AnAttempt) /\ Len([A EXCEPT ![n] = b]) = Len(A)
    BY <1>1, <1>2, <1>5, ExceptSeq
  <1>8. [s.attempt EXCEPT ![t] = [A EXCEPT ![n] = b]] \in [Task -> Seq(AnAttempt)]
    BY <1>1, <1>7 DEF AnySnapshot
  <1>9. r \in AnySnapshot
    BY <1>1, <1>6, <1>8 DEF AnySnapshot
  <1>10. /\ r.attempt = [s.attempt EXCEPT ![t] = [A EXCEPT ![n] = b]]
         /\ r.task = s.task /\ r.epoch = s.epoch /\ r.status = s.status
    BY <1>1, <1>6 DEF AnySnapshot
  <1> HIDE DEF r
  <1>11. /\ r.attempt[t] = [A EXCEPT ![n] = b]
         /\ \A u \in Task : u # t => r.attempt[u] = s.attempt[u]
    BY <1>1, <1>10 DEF AnySnapshot
  <1>12. Len(r.attempt[t]) = n /\ LastOf(r, t) = b
    BY <1>1, <1>2, <1>7, <1>11 DEF LastOf
  <1>13. FitsIn(r, t)
    <2>1. FitsIn(s, t)
      BY DEF InStep
    <2>2. DOMAIN r.attempt[t] = DOMAIN A /\ \A m \in DOMAIN A : m # n => r.attempt[t][m] = A[m]
      BY <1>11
    <2>3. Fits(LastOf(r, t), r.task[t].state)
      BY <1>0, <1>10, <1>12
    <2> QED BY <1>12, <2>1, <2>2, <2>3 DEF FitsIn
  <1>14. InStep(r)
    BY <1>9, <1>10, <1>11, <1>13 DEF InStep, FitsIn, LastOf
  <1>15. Goes(s, e, r)
    BY <1>4 DEF Goes
  <1> QED BY <1>10, <1>11, <1>12, <1>14, <1>15

\* It can be added, and the snapshot after it is in step again.
LEMMA AttemptAdds ==
  ASSUME NEW s, NEW e, NEW t, NEW n, CanAdd(s, e, t, n)
  PROVE  \E r : /\ Goes(s, e, r) /\ InStep(r)
                /\ r.task = s.task /\ r.epoch = s.epoch /\ r.status = s.status
                /\ Len(r.attempt[t]) = n /\ LastOf(r, t).state = "RESERVED"
                /\ \A u \in Task : u # t => r.attempt[u] = s.attempt[u]
  <1> USE DEF CanAdd
  <1> DEFINE A == s.attempt[t]
             b == [state |-> e.to, epoch |-> e.epoch, why |-> e.why]
             r == AttemptFold(s, e)
  <1>1. /\ e.subject = "attempt" /\ e.why \in Why /\ e.to \in AttemptState
        /\ e.epoch \in Nat /\ s \in AnySnapshot /\ A \in Seq(AnAttempt)
    BY DEF AttemptEvent, InStep, AnySnapshot
  <1>2. n \notin DOMAIN A /\ Len(A) \in Nat /\ DOMAIN A = 1..Len(A)
    BY <1>1, LenProperties
  <1>3. <<e.type, e.from, e.to>> \in AttemptMoves
    BY DEF AttemptMoves, Moves
  <1>4. TakesIn(s, e) /\ AfterIn(s, e) = r
    BY <1>1, <1>2, <1>3 DEF TakesIn, AfterIn, Accepts, Fold, AttemptAccepts, HasActive
  <1>5. b \in AnAttempt
    BY <1>1 DEF AnAttempt
  <1>6. r = [s EXCEPT !.attempt = [s.attempt EXCEPT ![t] = Append(A, b)]]
    BY <1>2 DEF AttemptFold
  <1>7. /\ Append(A, b) \in Seq(AnAttempt) /\ Len(Append(A, b)) = n
        /\ \A m \in 1..Len(A) : Append(A, b)[m] = A[m]
        /\ Append(A, b)[n] = b
    BY <1>1, <1>5, AppendProperties
  <1>8. [s.attempt EXCEPT ![t] = Append(A, b)] \in [Task -> Seq(AnAttempt)]
    BY <1>1, <1>7 DEF AnySnapshot
  <1>9. r \in AnySnapshot
    BY <1>1, <1>6, <1>8 DEF AnySnapshot
  <1>10. /\ r.attempt = [s.attempt EXCEPT ![t] = Append(A, b)]
         /\ r.task = s.task /\ r.epoch = s.epoch /\ r.status = s.status
    BY <1>1, <1>6 DEF AnySnapshot
  <1> HIDE DEF r
  <1>11. /\ r.attempt[t] = Append(A, b)
         /\ \A u \in Task : u # t => r.attempt[u] = s.attempt[u]
    BY <1>1, <1>10 DEF AnySnapshot
  <1>12. Len(r.attempt[t]) = n /\ LastOf(r, t) = b
    BY <1>7, <1>11 DEF LastOf
  <1>13. FitsIn(r, t)
    <2>1. DOMAIN r.attempt[t] = 1..n
      BY <1>7, <1>11, LenProperties
    <2>2. \A m \in 1..n : m # n => m \in DOMAIN A /\ r.attempt[t][m] = A[m]
      BY <1>2, <1>7, <1>11
    <2>3. Fits(LastOf(r, t), r.task[t].state)
      BY <1>10, <1>12 DEF Fits, Abandoned
    <2> QED BY <1>12, <2>1, <2>2, <2>3 DEF FitsIn
  <1>14. InStep(r)
    BY <1>9, <1>10, <1>11, <1>13 DEF InStep, FitsIn, LastOf
  <1>15. Goes(s, e, r)
    BY <1>4 DEF Goes
  <1>16. LastOf(r, t).state = "RESERVED"
    BY <1>12
  <1>17. /\ Len(r.attempt[t]) = n
         /\ r.task = s.task /\ r.epoch = s.epoch /\ r.status = s.status
         /\ \A u \in Task : u # t => r.attempt[u] = s.attempt[u]
    BY <1>10, <1>11, <1>12
  <1> QED BY <1>14, <1>15, <1>16, <1>17

\* They can move, and the snapshot after it is in step again.
LEMMA ObservedGoes ==
  ASSUME NEW s, NEW e, NEW t, NEW n, CanObserve(s, e, t, n)
  PROVE  \E r : /\ Goes(s, e, r) /\ InStep(r)
                /\ r.epoch = s.epoch /\ r.status = s.status
                /\ Len(r.attempt[t]) = n /\ LastOf(r, t).state = "RUNNING"
                /\ \A u \in Task : u # t => r.task[u] = s.task[u] /\ r.attempt[u] = s.attempt[u]
  <1> USE DEF CanObserve
  <1> DEFINE A == s.attempt[t]
             b == [A[n] EXCEPT !.state = "RUNNING"]
             c == [s.task[t] EXCEPT !.state = "DISPATCHED"]
             r == ObservedFold(s, e)
  <1>1. /\ e.subject = "dispatch" /\ s \in AnySnapshot /\ A \in Seq(AnAttempt)
        /\ s.task[t] \in [state : TaskState, why : Why]
    BY DEF DispatchEvent, InStep, AnySnapshot
  <1>2. n \in DOMAIN A /\ A[n] \in AnAttempt /\ LastOf(s, t) = A[n]
    BY <1>1, ElementOfSeq, LenProperties DEF LastOf
  <1>3. TakesIn(s, e) /\ AfterIn(s, e) = r
    BY <1>1, <1>2 DEF TakesIn, AfterIn, ObservedAccepts
  <1>4. b \in AnAttempt /\ c \in [state : TaskState, why : Why]
    BY <1>1, <1>2 DEF AnAttempt, AttemptState, TaskState
  <1>5. r = [s EXCEPT !.task = [s.task EXCEPT ![t] = c],
                      !.attempt = [s.attempt EXCEPT ![t] = [A EXCEPT ![n] = b]]]
    BY DEF ObservedFold
  <1>6. [A EXCEPT ![n] = b] \in Seq(AnAttempt) /\ Len([A EXCEPT ![n] = b]) = Len(A)
    BY <1>1, <1>2, <1>4, ExceptSeq
  <1>7. /\ [s.attempt EXCEPT ![t] = [A EXCEPT ![n] = b]] \in [Task -> Seq(AnAttempt)]
        /\ [s.task EXCEPT ![t] = c] \in [Task -> [state : TaskState, why : Why]]
    BY <1>1, <1>4, <1>6 DEF AnySnapshot
  <1>8. r \in AnySnapshot
    BY <1>1, <1>5, <1>7 DEF AnySnapshot
  <1>9. /\ r.attempt = [s.attempt EXCEPT ![t] = [A EXCEPT ![n] = b]]
        /\ r.task = [s.task EXCEPT ![t] = c]
        /\ r.epoch = s.epoch /\ r.status = s.status
    BY <1>1, <1>5 DEF AnySnapshot
  <1> HIDE DEF r
  <1>10. /\ r.attempt[t] = [A EXCEPT ![n] = b] /\ r.task[t] = c
         /\ \A u \in Task : u # t => r.task[u] = s.task[u] /\ r.attempt[u] = s.attempt[u]
    BY <1>1, <1>9 DEF AnySnapshot
  <1>11. Len(r.attempt[t]) = n /\ LastOf(r, t) = b
    BY <1>1, <1>2, <1>6, <1>10 DEF LastOf
  <1>12. b.state = "RUNNING" /\ c.state = "DISPATCHED"
    BY <1>1, <1>2 DEF AnAttempt
  <1>13. FitsIn(r, t)
    <2>1. FitsIn(s, t)
      BY DEF InStep
    <2>2. DOMAIN r.attempt[t] = DOMAIN A /\ \A m \in DOMAIN A : m # n => r.attempt[t][m] = A[m]
      BY <1>10
    <2>3. Fits(LastOf(r, t), r.task[t].state)
      BY <1>10, <1>11, <1>12 DEF Fits, Abandoned
    <2> QED BY <1>11, <2>1, <2>2, <2>3 DEF FitsIn
  <1>14. InStep(r)
    <2>1. ASSUME NEW u \in Task, u # t PROVE FitsIn(r, u)
      <3>1. FitsIn(s, u) /\ r.task[u] = s.task[u] /\ r.attempt[u] = s.attempt[u]
        BY <1>10, <2>1 DEF InStep
      <3> QED BY <3>1 DEF FitsIn, LastOf
    <2> QED BY <1>8, <1>13, <2>1 DEF InStep
  <1>15. Goes(s, e, r)
    BY <1>3 DEF Goes
  <1>16. LastOf(r, t).state = "RUNNING"
    BY <1>11, <1>12
  <1>17. /\ Len(r.attempt[t]) = n /\ r.epoch = s.epoch /\ r.status = s.status
         /\ \A u \in Task : u # t => r.task[u] = s.task[u] /\ r.attempt[u] = s.attempt[u]
    BY <1>9, <1>10, <1>11
  <1> QED BY <1>14, <1>15, <1>16, <1>17

\* Events that move no task and no attempt: effects, dispatches that were not
\* applied, and the run's own.
LEMMA QuietGoes ==
  ASSUME NEW s, InStep(s), NEW e,
         e.subject = "effect" \/ (e.subject = "dispatch" /\ e.status # "APPLIED")
  PROVE  Goes(s, e, s)
  BY DEF Goes, TakesIn, AfterIn

\* A run that is blocked, or resumed.
LEMMA RunGoes ==
  ASSUME NEW s, InStep(s), NEW e \in RunEvent, e.epoch = s.epoch,
         <<e.type, e.from, e.to>> \in StatusMoves,
         \/ s.status = e.from
         \/ e.type = "RUN_BLOCKED" /\ e.from = "RUNNING"
  PROVE  \E r : /\ Goes(s, e, r) /\ InStep(r)
                /\ r.task = s.task /\ r.attempt = s.attempt /\ r.epoch = s.epoch
                /\ s.status = e.from => r.status = e.to
  <1>1. ~IsPhase(e) /\ e.type # "TASK_GRAPH_FROZEN" /\ e.subject = "run" /\ e.type # "RUN_ARCHIVED"
    BY DEF IsPhase, PhaseMoves, RunEvent
  <1>2. TakesIn(s, e) <=> s.status = e.from
    BY <1>1 DEF TakesIn, Accepts, RunAccepts
  <1>3. CASE s.status # e.from
    BY <1>1, <1>2, <1>3 DEF Goes
  <1>4. CASE s.status = e.from
    <2> DEFINE w == IF e.to \in {"RUNNING", "PAUSED", "ARCHIVED"} THEN "none"
                    ELSE IF e.to = "CANCELLED" /\ e.why = "none" THEN s.why ELSE e.why
               r == RunFold(s, e)
    <2>1. e.to \in RunStatus /\ e.why \in Why /\ "none" \in Why /\ s \in AnySnapshot
      BY DEF RunEvent, Why, InStep
    <2>2. w \in Why
      BY <2>1 DEF AnySnapshot
    <2>3. r = [s EXCEPT !.status = e.to, !.why = w]
      BY <1>1 DEF RunFold
    <2>4. r \in AnySnapshot
      BY <2>1, <2>2, <2>3 DEF AnySnapshot
    <2>5. r.task = s.task /\ r.attempt = s.attempt /\ r.epoch = s.epoch /\ r.status = e.to
      BY <2>1, <2>3 DEF AnySnapshot
    <2>6. Goes(s, e, r)
      BY <1>1, <1>2, <1>4 DEF Goes, AfterIn, Fold
    <2> HIDE DEF r
    <2>7. InStep(r)
      BY <2>4, <2>5 DEF InStep, FitsIn, LastOf
    <2> QED BY <2>5, <2>6, <2>7
  <1> QED BY <1>3, <1>4

\* One event before others.
LEMMA LeadsMore ==
  ASSUME NEW E, NEW e \in E, NEW w \in Seq(E), NEW s, NEW r, NEW q,
         InStep(s), InStep(r), Goes(s, e, r), Leads(r, w, q)
  PROVE  Leads(s, <<e>> \o w, q)
  <1>1. Leads(s, <<e>>, r) /\ <<e>> \in Seq(E)
    BY LeadsOne
  <1> QED BY <1>1, LeadsJoin

------------------------------------------------------------------------------
(* Where the events lead to.                                                *)

\* The coordinator has nothing left to append.
LEMMA CourseQuiet ==
  ASSUME NEW s, s = k', InStep(s), todo' = <<>>, fresh' => Arrived(s)'
  PROVE  CourseInv'
  <1>1. Leads(k', todo', s)
    BY LeadsNowhere
  <1> QED BY <1>1 DEF CourseInv

\* It appends the next event, or stops.
LEMMA CourseAppend ==
  ASSUME IInv, CourseInv, AppendNext
  PROVE  CourseInv'
  <1>1. todo # <<>> /\ fresh /\ todo \in Seq(Event) /\ Head(todo) = todo[1]
    BY DEF AppendNext, IInv, DType
  <1>2. PICK r : Leads(k, todo, r) /\ Arrived(r)
    BY <1>1 DEF CourseInv
  <1>3. PICK q : Goes(k, todo[1], q) /\ InStep(q) /\ Leads(q, Tail(todo), r)
    BY <1>1, <1>2, LeadsHead
  <1>4. CASE broken' = "no"
    <2>1. /\ TakesIn(k, todo[1]) /\ k' = AfterIn(k, todo[1]) /\ todo' = Tail(todo)
          /\ UNCHANGED <<fresh, pc, wave, left, at>>
      BY <1>1, <1>4, TakesJournal DEF AppendNext, Commit
    <2>2. k' = q
      BY <1>3, <2>1 DEF Goes
    <2>3. Arrived(r)'
      BY <1>2, <2>1 DEF Arrived, Handed
    <2> QED BY <1>3, <2>1, <2>2, <2>3 DEF CourseInv
  <1>5. CASE broken' # "no"
    <2>1. k' = k /\ todo' = <<>> /\ pc' = "down"
      BY <1>5 DEF AppendNext, Commit, IInv, StageInv
    <2>2. \A s : Arrived(s)'
      BY <2>1 DEF Arrived
    <2> QED BY <2>1, <2>2, CourseQuiet DEF CourseInv
  <1> QED BY <1>4, <1>5

\* With nothing left to append, the journal is what the coordinator counts on.
LEMMA ArrivedNow ==
  ASSUME CourseInv, fresh, todo = <<>>
  PROVE  InStep(k) /\ Arrived(k)
  <1>1. PICK r : Leads(k, todo, r) /\ Arrived(r)
    BY DEF CourseInv
  <1>2. Len(<<>>) + 1 = 1
    OBVIOUS
  <1>3. r = k
    BY <1>1, <1>2 DEF Leads
  <1> QED BY <1>1, <1>3 DEF CourseInv

\* The steps that stop the coordinator, give up, or go on to a stage that counts
\* on nothing.
LEMMA CourseStop ==
  ASSUME IInv, CourseInv, GivesUp \/ GoesOn
  PROVE  CourseInv'
  <1>1. /\ k' = k /\ todo' = <<>> /\ pc' \in {"down", "ending", "takeback", "reclaim", "recheck"}
    BY GivesUpIs DEF GoesOn, Reconciled, TookBack, TakeBackCancelled, At, Goto, journal
  <1>2. \A s : Arrived(s)'
    BY <1>1 DEF Arrived
  <1> QED BY <1>1, <1>2, CourseQuiet DEF CourseInv

\* It asks for an effect, or writes down what became of one.
LEMMA CourseEffect ==
  ASSUME IInv, CourseInv,
         \/ Cancel
         \/ \E p \in pending : ReconcileApplied(p) \/ ReconcileRetry(p)
         \/ \E id \in Attempts : TakeBack(id)
  PROVE  CourseInv'
  <1>1. /\ k' = k /\ pc' \in {"reconcile", "cancel", "recheck", "ending"}
        /\ \/ todo' = <<>>
           \/ \E e : todo' = <<e>> /\ e.subject = "effect"
    BY DEF Cancel, ReconcileApplied, ReconcileRetry, TakeBack, At, Goto, Later, Ask, Tell, journal
  <1>2. InStep(k) /\ \A s : Arrived(s)'
    BY <1>1 DEF Arrived, CourseInv
  <1>3. CASE todo' = <<>>
    BY <1>1, <1>2, <1>3, CourseQuiet
  <1>4. ASSUME NEW e, todo' = <<e>>, e.subject = "effect"
        PROVE  CourseInv'
    <2>1. Leads(k, <<e>>, k)
      BY <1>2, <1>4, QuietGoes, LeadsOne
    <2>2. Leads(k', todo', k)
      BY <1>1, <1>4, <2>1
    <2> QED BY <1>1, <1>2, <2>2 DEF CourseInv
  <1> QED BY <1>1, <1>3, <1>4

\* Nothing of the journal and of the coordinator changes.
LEMMA CourseFrame ==
  ASSUME CourseInv, UNCHANGED <<k, fresh, todo, pc, wave, left, at>>
  PROVE  CourseInv'
  <1>1. \A s : Arrived(s) => Arrived(s)'
    BY DEF Arrived, Handed
  <1> QED BY <1>1 DEF CourseInv

\* The lease of another coordinator changes the epoch only.
LEMMA CourseStart ==
  ASSUME IInv, CourseInv, Start
  PROVE  CourseInv'
  <1>1. k' = [k EXCEPT !.epoch = k.epoch + 1] /\ todo' = <<>> /\ pc' = "reconcile"
    BY DEF Start, FoldLease
  <1>2. k' \in AnySnapshot /\ k'.task = k.task /\ k'.attempt = k.attempt
    BY <1>1 DEF CourseInv, InStep, AnySnapshot
  <1>3. \A s : Arrived(s)'
    BY <1>1 DEF Arrived
  <1> SUFFICES ASSUME NEW s, s = k' PROVE CourseInv'
    OBVIOUS
  <1>4. InStep(s)
    BY <1>2 DEF CourseInv, InStep, FitsIn, LastOf
  <1> QED BY <1>1, <1>3, <1>4, CourseQuiet

\* What a resume takes up again is no attempt that is at work.
LEMMA CourseResume ==
  ASSUME IInv, CourseInv, ResumeCommand
  PROVE  CourseInv'
  <1>1. ~fresh' \/ fresh' = FALSE
    BY DEF ResumeCommand, ResumeProof, ResumeRetry, ResumeRun, Resume
  <1>2. CASE \E id \in Attempts : ResumeProof(id)
    <2>1. k' = k
      BY <1>2 DEF ResumeProof
    <2> QED BY <1>1, <2>1 DEF CourseInv
  <1>3. CASE ResumeRetry
    <2> SUFFICES ASSUME NEW t, t = recovery.id[1], NEW n, n = recovery.id[2],
                        NEW e, e = TaskMove("TASK_RETRY_SCHEDULED", t, "BLOCKED", "READY", "none")
                 PROVE  CourseInv'
      OBVIOUS
    <2>1. Accepts(k, e) /\ k' = Fold(k, e) /\ recovery.step = "proof"
      BY <1>3 DEF ResumeRetry
    <2>2. recovery.id \in AnId
      BY <2>1 DEF IInv, DType, NoRecovery
    <2>3. Known(recovery.id) /\ Of(recovery.id).state = "OUTCOME_UNKNOWN" /\ ~Settled(recovery.id)
      BY <2>1, <2>2 DEF IInv, ResolvedInv, Settled
    <2>4. t \in Task /\ n = Latest(t) /\ S(t, n) = "OUTCOME_UNKNOWN" /\ n \in DOMAIN k.attempt[t]
      BY <2>3, KnownIs DEF IInv, AttemptInv, Engaged
    <2>5. Fits(LastOf(k, t), "READY")
      BY <2>4 DEF Fits, LastOf, Latest, S, Abandoned
    <2>6. e \in TaskEvent /\ e.subject = "task" /\ e.task = t /\ e.to = "READY"
      BY <2>4 DEF TaskMove, TaskEvent, IInv, DType, AnySnapshot, Why, TaskState
    <2>7. TaskAccepts(k, e) /\ e.epoch = k.epoch
      BY <2>1, <2>6 DEF Accepts
    <2>8. PICK r : Goes(k, e, r) /\ InStep(r)
      BY <2>5, <2>6, <2>7, TaskGoes DEF CourseInv, TaskAccepts
    <2>9. k' = r
      BY <2>1, <2>6, <2>8 DEF Goes, TakesIn, AfterIn
    <2> QED BY <1>1, <2>8, <2>9 DEF CourseInv
  <1>4. CASE ResumeRun
    <2> SUFFICES ASSUME NEW e, e = RunMove("RUN_RESUMED", "BLOCKED", "RUNNING", "none")
                 PROVE  CourseInv'
      OBVIOUS
    <2>1. Accepts(k, e) /\ k' = Fold(k, e)
      BY <1>4 DEF ResumeRun
    <2>2. /\ e \in RunEvent /\ e.subject = "run" /\ e.type = "RUN_RESUMED" /\ e.from = "BLOCKED"
          /\ e.to = "RUNNING"
      BY DEF RunMove, RunEvent, IInv, DType, AnySnapshot, Why, RunStatus
    <2>3. RunAccepts(k, e) /\ e.epoch = k.epoch
      BY <2>1, <2>2 DEF Accepts
    <2>4. ~IsPhase(e)
      BY <2>2 DEF IsPhase, PhaseMoves
    <2>5. PICK r : Goes(k, e, r) /\ InStep(r)
      BY <2>2, <2>3, <2>4, RunGoes DEF CourseInv, RunAccepts
    <2>6. k' = r
      BY <2>1, <2>2, <2>5 DEF Goes, TakesIn, AfterIn
    <2> QED BY <1>1, <2>5, <2>6 DEF CourseInv
  <1> QED BY <1>2, <1>3, <1>4 DEF ResumeCommand

\* The steps of the wave loop that append nothing.
LEMMA CourseWave ==
  ASSUME IInv, CourseInv, ReserveResumed \/ Reserved \/ Prepared \/ Collect
  PROVE  CourseInv'
  <1>1. k' = k /\ todo' = <<>> /\ fresh /\ todo = <<>> /\ InStep(k) /\ Arrived(k)
    BY ArrivedNow DEF ReserveResumed, Reserved, Prepared, Collect, At, journal
  <1> SUFFICES ASSUME NEW s, s = k PROVE Arrived(s)'
    BY <1>1, CourseQuiet
  <1>2. Arrived(s)
    BY <1>1
  <1>3. CASE ReserveResumed
    <2>1. pc' = "prepare" /\ wave' \subseteq Resumable
      BY <1>3 DEF ReserveResumed, Goto
    <2>2. \A t \in Resumable : Waiting(s, t)
      BY DEF Resumable, Waiting, LastOf, Latest, State
    <2> QED BY <2>1, <2>2 DEF Arrived
  <1>4. CASE Reserved
    <2>1. pc = "reserve" /\ pc' = "prepare" /\ wave' = wave
      BY <1>4 DEF Reserved, At, Goto
    <2> QED BY <1>2, <2>1 DEF Arrived
  <1>5. CASE Prepared
    <2>1. pc = "prepare" /\ pc' = "dispatch" /\ wave' = wave /\ left' = wave
      BY <1>5 DEF Prepared, At, Goto
    <2> QED BY <1>2, <2>1 DEF Arrived
  <1>6. CASE Collect
    <2>1. pc = "dispatch" /\ pc' = "accept" /\ wave' = wave /\ left' = wave /\ left = {}
      BY <1>6 DEF Collect, At, Goto
    <2> QED BY <1>2, <2>1 DEF Arrived
  <1> QED BY <1>3, <1>4, <1>5, <1>6

\* The task moves of a coordinator.
LEMMA TaskMoveIn ==
  /\ <<"TASK_READY", "APPROVED", "READY">> \in TaskMoves
  /\ <<"LEASE_ACQUIRED", "READY", "LEASED">> \in TaskMoves
  /\ \A x \in {"LEASED", "DISPATCHED", "STAGED", "PROMOTED"} :
       <<"TASK_BLOCKED", x, "BLOCKED">> \in TaskMoves
  /\ <<"TASK_RETRY_SCHEDULED", "BLOCKED", "READY">> \in TaskMoves
  /\ <<"RESULT_STAGED", "DISPATCHED", "STAGED">> \in TaskMoves
  /\ <<"PROMOTION_OBSERVED", "STAGED", "PROMOTED">> \in TaskMoves
  /\ <<"TASK_VERIFIED", "PROMOTED", "VERIFIED">> \in TaskMoves
  BY DEF TaskMoves, Moves

\* Its attempt moves.
LEMMA AttemptMoveIn ==
  /\ <<"ATTEMPT_RESERVED", "TERMINATED", "RESERVED">> \in AttemptMoves
  /\ <<"DISPATCH_REQUESTED", "RESERVED", "DISPATCH_REQUESTED">> \in AttemptMoves
  /\ <<"ATTEMPT_RELEASED", "RESERVED", "TERMINATED">> \in AttemptMoves
  /\ <<"ATTEMPT_SUCCEEDED", "RUNNING", "SUCCEEDED">> \in AttemptMoves
  /\ <<"ATTEMPT_FAILED", "RUNNING", "FAILED">> \in AttemptMoves
  /\ <<"CANCEL_REQUESTED", "RUNNING", "CANCEL_REQUESTED">> \in AttemptMoves
  /\ <<"ATTEMPT_TERMINATED", "CANCEL_REQUESTED", "TERMINATED">> \in AttemptMoves
  /\ <<"ATTEMPT_OUTCOME_UNKNOWN", "DISPATCH_REQUESTED", "OUTCOME_UNKNOWN">> \in AttemptMoves
  BY DEF AttemptMoves, Moves

\* Its moves of the run.
LEMMA RunMoveGoes ==
  ASSUME NEW s, InStep(s), s.epoch = k.epoch, NEW why \in Why, NEW e,
         \/ e = RunMove("RUN_BLOCKED", "RUNNING", "BLOCKED", why)
         \/ e = RunMove("RUN_RESUMED", "BLOCKED", "RUNNING", why) /\ s.status = "BLOCKED"
  PROVE  \E r : /\ Goes(s, e, r) /\ InStep(r)
                /\ r.task = s.task /\ r.attempt = s.attempt /\ r.epoch = s.epoch
  <1>1. /\ <<"RUN_BLOCKED", "RUNNING", "BLOCKED">> \in StatusMoves
        /\ <<"RUN_RESUMED", "BLOCKED", "RUNNING">> \in StatusMoves
    BY DEF StatusMoves, Moves
  <1>2. k.epoch \in Nat
    BY DEF InStep, AnySnapshot
  <1>3. /\ e \in RunEvent /\ e.epoch = s.epoch /\ <<e.type, e.from, e.to>> \in StatusMoves
        /\ s.status = e.from \/ (e.type = "RUN_BLOCKED" /\ e.from = "RUNNING")
    BY <1>1, <1>2 DEF RunMove, RunEvent, RunStatus
  <1> QED BY <1>3, RunGoes

\* It can be appended.
LEMMA TaskMoveGoes ==
  ASSUME NEW s, NEW t, NEW type, NEW from, NEW to, NEW why,
         CanMoveTask(s, t, type, from, to, why),
         NEW e, e = TaskMove(type, t, from, to, why)
  PROVE  \E r : Goes(s, e, r) /\ HasMovedTask(s, t, to, r)
  <1>1. from \in TaskState /\ k.epoch \in Nat
    BY DEF CanMoveTask, InStep, AnySnapshot
  <1>2. /\ e \in TaskEvent /\ e.epoch = s.epoch /\ e.task = t /\ e.type = type /\ e.from = from
        /\ e.to = to
    BY <1>1 DEF CanMoveTask, TaskMove, TaskEvent
  <1>3. /\ InStep(s) /\ <<e.type, e.from, e.to>> \in TaskMoves /\ s.task[e.task].state = e.from
        /\ Len(s.attempt[e.task]) > 0 => Fits(LastOf(s, e.task), e.to)
    BY <1>2 DEF CanMoveTask
  <1> QED BY <1>2, <1>3, TaskGoes DEF HasMovedTask

\* Its moves of the latest attempt of a task.
LEMMA AttemptMoveGoes ==
  ASSUME NEW s, NEW id, NEW type, NEW from, NEW to, NEW why,
         CanMove(s, id, type, from, to, why),
         NEW e, e = AttemptMove(type, id, from, to, why)
  PROVE  \E r : Goes(s, e, r) /\ HasMoved(s, id, type, to, why, r)
  <1>0. /\ InStep(s) /\ s.epoch = k.epoch /\ why \in Why /\ id \in AnId
        /\ to \in AttemptState /\ <<type, from, to>> \in AttemptMoves
        /\ type \in {"ATTEMPT_RESERVED", "DISPATCH_REQUESTED", "ATTEMPT_RELEASED",
                     "ATTEMPT_SUCCEEDED", "ATTEMPT_FAILED", "CANCEL_REQUESTED",
                     "ATTEMPT_TERMINATED", "ATTEMPT_OUTCOME_UNKNOWN"}
        /\ Len(s.attempt[id[1]]) = id[2]
        /\ LastOf(s, id[1]).state = from /\ LastOf(s, id[1]).epoch = id[3]
        /\ type = "ATTEMPT_RESERVED" => id[3] < k.epoch
        /\ Fits([state |-> to, why |-> why], s.task[id[1]].state)
    BY DEF CanMove
  <1>1. id[1] \in Task /\ id[2] \in Nat \ {0} /\ id[3] \in Nat /\ k.epoch \in Nat
    BY <1>0 DEF AnId, InStep, AnySnapshot
  <1>2. s.attempt[id[1]] \in Seq(AnAttempt)
    BY <1>0, <1>1 DEF InStep, AnySnapshot
  <1>3. LastOf(s, id[1]) \in AnAttempt
    BY <1>0, <1>1, <1>2, ElementOfSeq DEF LastOf
  <1>4. from \in AttemptState
    BY <1>0, <1>3 DEF AnAttempt
  <1>5. /\ e \in AttemptEvent /\ e.epoch = s.epoch /\ e.type = type /\ e.from = from
        /\ e.to = to /\ e.why = why /\ e.task = id[1] /\ e.attempt = id[2]
        /\ e.reserved = id[3]
    BY <1>0, <1>1, <1>4 DEF AttemptMove, AttemptEvent
  <1>6. \E r : /\ Goes(s, e, r) /\ InStep(r)
               /\ r.task = s.task /\ r.epoch = s.epoch /\ r.status = s.status
               /\ Len(r.attempt[e.task]) = e.attempt
               /\ LastOf(r, e.task).state = e.to /\ LastOf(r, e.task).why = e.why
               /\ e.type # "ATTEMPT_RESERVED" => LastOf(r, e.task).epoch = e.reserved
               /\ \A u \in Task : u # e.task => r.attempt[u] = s.attempt[u]
    BY <1>0, <1>5, AttemptGoes
  <1>7. \E r : Goes(s, e, r) /\ HasMoved(s, id, type, to, why, r)
    BY <1>5, <1>6 DEF HasMoved
  <1> QED BY <1>7

\* What an identity of the journal names, in the words of the course.
LEMMA LatestNamed ==
  ASSUME IInv, NEW id \in AnId, Known(id), id[2] = Latest(id[1])
  PROVE  /\ id[1] \in Task /\ id[2] \in Nat \ {0} /\ Len(k.attempt[id[1]]) = id[2]
         /\ LastOf(k, id[1]).state = S(id[1], id[2]) /\ LastOf(k, id[1]).epoch = id[3]
         /\ LastOf(k, id[1]) = k.attempt[id[1]][id[2]]
  BY DEF Known, AnId, Latest, LastOf, S, Of

\* The events that block the run for a task.
LEMMA BlockRunLeads ==
  ASSUME NEW s, InStep(s), s.epoch = k.epoch, NEW why \in Why, NEW t \in Task,
         s.task = k.task, State(t) \in {"LEASED", "DISPATCHED"},
         Len(s.attempt[t]) > 0 => Fits(LastOf(s, t), "BLOCKED"),
         NEW es, es = BlockRun(t, why)
  PROVE  es \in Seq(Event)
         /\ \E r : Leads(s, es, r) /\ r.attempt = s.attempt
                   /\ \A u \in Task : u # t => r.task[u] = s.task[u]
  <1> SUFFICES ASSUME NEW e1, e1 = TaskMove("TASK_BLOCKED", t, State(t), "BLOCKED", why),
                      NEW e2, e2 = RunMove("RUN_BLOCKED", "RUNNING", "BLOCKED", why),
                      NEW w, w = IF k.status = "RUNNING" THEN <<e2>> ELSE <<>>
               PROVE  es \in Seq(Event)
                      /\ \E r : Leads(s, es, r) /\ r.attempt = s.attempt
                                /\ \A u \in Task : u # t => r.task[u] = s.task[u]
    OBVIOUS
  <1>1. es = <<e1>> \o w
    BY DEF BlockRun
  <1>2. "BLOCKED" \in TaskState /\ k.epoch \in Nat /\ State(t) \in TaskState
    BY DEF TaskState, InStep, AnySnapshot
  <1>3. e1 \in Event /\ e2 \in Event
    BY <1>2 DEF TaskMove, RunMove, Event, TaskEvent, RunEvent, RunStatus
  <1>4. w \in Seq(Event)
    BY <1>3
  <1>5. es \in Seq(Event)
    BY <1>1, <1>3, <1>4, Prefixed
  <1>6. PICK q : /\ Goes(s, e1, q) /\ InStep(q)
                 /\ q.attempt = s.attempt /\ q.epoch = s.epoch
                 /\ \A u \in Task : u # t => q.task[u] = s.task[u]
    <2>1. s.task[t].state = State(t) /\ <<"TASK_BLOCKED", State(t), "BLOCKED">> \in TaskMoves
      BY TaskMoveIn DEF State
    <2>2. CanMoveTask(s, t, "TASK_BLOCKED", State(t), "BLOCKED", why)
      BY <1>2, <2>1 DEF CanMoveTask
    <2>3. \E q : Goes(s, e1, q) /\ HasMovedTask(s, t, "BLOCKED", q)
      BY <2>2, TaskMoveGoes
    <2> QED BY <2>3 DEF HasMovedTask
  <1>7. PICK r : Leads(q, w, r) /\ r.attempt = q.attempt /\ r.task = q.task
    <2>1. CASE k.status = "RUNNING"
      <3>1. PICK r : Goes(q, e2, r) /\ InStep(r) /\ r.task = q.task /\ r.attempt = q.attempt
        BY <1>6, RunMoveGoes
      <3>2. w = <<e2>>
        BY <2>1
      <3> QED BY <1>6, <3>1, <3>2, LeadsOne
    <2>2. CASE k.status # "RUNNING"
      <3>1. w = <<>>
        BY <2>2
      <3> QED BY <1>6, <3>1, LeadsNowhere
    <2> QED BY <2>1, <2>2
  <1>8. InStep(q) /\ Leads(s, es, r)
    BY <1>1, <1>3, <1>4, <1>6, <1>7, LeadsMore
  <1> QED BY <1>5, <1>6, <1>7, <1>8

\* A worktree is created, or not.
LEMMA CoursePrepare ==
  ASSUME IInv, CourseInv, NEW t \in Task, Prepare(t)
  PROVE  CourseInv'
  <1>1. /\ k' = k /\ fresh /\ todo = <<>> /\ InStep(k) /\ Arrived(k) /\ t \in wave
        /\ pc = "prepare" /\ wave' = wave /\ fresh' = fresh
    BY ArrivedNow DEF Prepare, At, IInv, DType
  <1>2. CASE pc' = "prepare" /\ todo' = <<>>
    <2> SUFFICES ASSUME NEW s, s = k PROVE Arrived(s)'
      BY <1>1, <1>2, CourseQuiet
    <2> QED BY <1>1, <1>2 DEF Arrived
  <1>3. CASE ~(pc' = "prepare" /\ todo' = <<>>)
    <2>1. /\ pc' = "ending"
          /\ \E why \in {"GIT_STATE_CONFLICT", "INVARIANT_VIOLATION"} : todo' = BlockRun(t, why)
      BY <1>1, <1>3 DEF Prepare, Later
    <2>2. PICK why \in {"GIT_STATE_CONFLICT", "INVARIANT_VIOLATION"} : todo' = BlockRun(t, why)
      BY <2>1
    <2>3. why \in Why
      BY DEF Why
    <2>4. State(t) = "LEASED" /\ Len(k.attempt[t]) > 0 /\ LastOf(k, t).state = "RESERVED"
      BY <1>1 DEF Arrived, Waiting, State
    <2>5. Fits(LastOf(k, t), "BLOCKED")
      BY <2>4 DEF Fits, Abandoned
    <2>6. \E r : Leads(k, todo', r)
      BY <1>1, <2>2, <2>3, <2>4, <2>5, BlockRunLeads
    <2>7. \A r : Arrived(r)'
      BY <2>1 DEF Arrived
    <2> QED BY <1>1, <2>6, <2>7 DEF CourseInv
  <1> QED BY <1>2, <1>3

\* A result is accepted.
LEMMA CourseAccept ==
  ASSUME IInv, CourseInv, NEW t \in Task, Accept(t)
  PROVE  CourseInv'
  <1>1. /\ k' = k /\ fresh /\ todo = <<>> /\ InStep(k) /\ Arrived(k) /\ t \in left
        /\ pc = "accept" /\ UNCHANGED <<wave, pc, fresh>> /\ left' = left \ {t}
    BY ArrivedNow DEF Accept, At, journal
  <1> SUFFICES ASSUME NEW id, id = IdOf(t, Latest(t)),
                      NEW e1, e1 = AttemptMove("ATTEMPT_SUCCEEDED", id, "RUNNING", "SUCCEEDED",
                                               "none"),
                      NEW e2, e2 = AttemptMove("ATTEMPT_FAILED", id, "RUNNING", "FAILED",
                                               "WORKER_FAILED")
               PROVE  CourseInv'
    OBVIOUS
  <1>2. Latest(t) > 0 /\ LastOf(k, t).state = "RUNNING"
    BY <1>1 DEF Arrived, Working, Latest
  <1>3. Latest(t) \in DOMAIN k.attempt[t]
    BY <1>2, AttemptsKnown DEF IInv
  <1>4. id \in AnId /\ Known(id) /\ id[1] = t /\ id[2] = Latest(t)
    BY <1>3, AttemptsKnown DEF IInv, IdOf
  <1>5. /\ Len(k.attempt[t]) = id[2] /\ LastOf(k, t).epoch = id[3] /\ id[2] \in Nat \ {0}
        /\ k.task[t].state = "DISPATCHED"
    BY <1>1, <1>2, <1>4, LatestNamed DEF InStep, FitsIn, Fits
  <1>6. "none" \in Why /\ "WORKER_FAILED" \in Why /\ "SUCCEEDED" \in AttemptState
        /\ "FAILED" \in AttemptState /\ "RUNNING" \in AttemptState
    BY DEF Why, AttemptState
  <1>12. /\ Len(k.attempt[id[1]]) = id[2] /\ LastOf(k, id[1]).epoch = id[3]
         /\ LastOf(k, id[1]).state = "RUNNING"
         /\ Fits([state |-> "SUCCEEDED", why |-> "none"], k.task[id[1]].state)
         /\ Fits([state |-> "FAILED", why |-> "WORKER_FAILED"], k.task[id[1]].state)
    BY <1>2, <1>4, <1>5 DEF Fits, Abandoned
  <1>8. e1 \in Event /\ e2 \in Event
    BY <1>4, <1>6, EventKinds DEF IInv
  <1>9. ASSUME NEW r, Len(r.attempt[t]) > 0, Judged(r, t),
               \A u \in Task : u # t => r.attempt[u] = k.attempt[u] /\ r.task[u] = k.task[u]
        PROVE  Arrived(r)'
    <2>1. \A u \in left' : Working(r, u)
      BY <1>1, <1>9 DEF Arrived, Working, LastOf, IInv, DType
    <2>2. \A u \in wave' \ left' : Judged(r, u)
      BY <1>1, <1>9 DEF Arrived, Judged, LastOf, IInv, DType
    <2> QED BY <1>1, <2>1, <2>2 DEF Arrived
  <1>10. CASE todo' = <<e1>>
    <2>1. PICK r : /\ Goes(k, e1, r) /\ InStep(r)
                   /\ r.task = k.task /\ Len(r.attempt[t]) = id[2]
                   /\ LastOf(r, t).state = "SUCCEEDED"
                   /\ \A u \in Task : u # t => r.attempt[u] = k.attempt[u]
      <3>1. CanMove(k, id, "ATTEMPT_SUCCEEDED", "RUNNING", "SUCCEEDED", "none")
        BY <1>1, <1>4, <1>6, <1>12, AttemptMoveIn DEF CanMove
      <3>2. \E q : Goes(k, e1, q) /\ HasMoved(k, id, "ATTEMPT_SUCCEEDED", "SUCCEEDED", "none", q)
        BY <3>1, AttemptMoveGoes
      <3> QED BY <1>4, <3>2 DEF HasMoved
    <2>2. Leads(k, todo', r)
      BY <1>1, <1>10, <2>1, LeadsOne
    <2>3. Judged(r, t) /\ Len(r.attempt[t]) > 0
      BY <1>5, <2>1 DEF Judged
    <2>4. Arrived(r)'
      BY <1>9, <2>1, <2>3
    <2>5. InStep(k') /\ Leads(k', todo', r)
      BY <1>1, <2>2
    <2> QED BY <2>4, <2>5 DEF CourseInv
  <1>11. CASE todo' = <<e2>> \o BlockRun(t, "WORKER_FAILED")
    <2> SUFFICES ASSUME NEW w, w = BlockRun(t, "WORKER_FAILED") PROVE CourseInv'
      OBVIOUS
    <2>1. PICK q : /\ Goes(k, e2, q) /\ InStep(q) /\ q.epoch = k.epoch
                   /\ q.task = k.task /\ Len(q.attempt[t]) = id[2]
                   /\ LastOf(q, t).state = "FAILED"
                   /\ \A u \in Task : u # t => q.attempt[u] = k.attempt[u]
      <3>1. CanMove(k, id, "ATTEMPT_FAILED", "RUNNING", "FAILED", "WORKER_FAILED")
        BY <1>1, <1>4, <1>6, <1>12, AttemptMoveIn DEF CanMove
      <3>2. \E q : Goes(k, e2, q) /\ HasMoved(k, id, "ATTEMPT_FAILED", "FAILED", "WORKER_FAILED", q)
        BY <3>1, AttemptMoveGoes
      <3> QED BY <1>4, <3>2 DEF HasMoved
    <2>2. Fits(LastOf(q, t), "BLOCKED") /\ State(t) = "DISPATCHED"
      BY <1>5, <2>1 DEF Fits, Abandoned, State
    <2>3. w \in Seq(Event)
          /\ \E r : Leads(q, w, r) /\ r.attempt = q.attempt
                    /\ \A u \in Task : u # t => r.task[u] = q.task[u]
      BY <1>6, <2>1, <2>2, BlockRunLeads
    <2>4. PICK r : Leads(q, w, r) /\ r.attempt = q.attempt
                   /\ \A u \in Task : u # t => r.task[u] = q.task[u]
      BY <2>3
    <2>5. Leads(k, <<e2>> \o w, r)
      BY <1>1, <1>8, <2>1, <2>3, <2>4, LeadsMore
    <2>6. Judged(r, t) /\ Len(r.attempt[t]) > 0
      BY <1>5, <2>1, <2>4 DEF Judged, LastOf
    <2>7. Arrived(r)'
      BY <1>9, <2>1, <2>4, <2>6
    <2>8. InStep(k') /\ Leads(k', todo', r)
      BY <1>1, <1>11, <2>5
    <2> QED BY <2>7, <2>8 DEF CourseInv
  <1> QED BY <1>10, <1>11 DEF Accept, Later

\* Nothing is left of them ...
LEMMA AheadEnd ==
  ASSUME NEW E, NEW es \in Seq(E), NEW s, InStep(s)
  PROVE  Ahead(es, Len(es) + 1, s, s)
  <1>1. Len(es) \in Int /\ Len(es) + 1 \in Int /\ Len(es) < Len(es) + 1
    BY LenProperties
  <1>2. SubSeq(es, Len(es) + 1, Len(es)) = <<>>
    BY <1>1, SubSeqEmpty
  <1>3. Leads(s, <<>>, s)
    BY LeadsNowhere
  <1> QED BY <1>2, <1>3 DEF Ahead

\* ... or one more than after the next.
LEMMA AheadOne ==
  ASSUME NEW E, NEW es \in Seq(E), NEW m \in 1..Len(es), NEW s, NEW r, NEW q,
         InStep(s), InStep(r), Goes(s, es[m], r), Ahead(es, m + 1, r, q)
  PROVE  Ahead(es, m, s, q)
  <1>1. Len(es) \in Nat /\ es[m] \in E /\ Len(es) \in m..Len(es)
    BY ElementOfSeq, LenProperties
  <1>2. \A i \in (m + 1)..Len(es) : es[i] \in E
    BY <1>1, ElementOfSeq
  <1>3. SubSeq(es, m + 1, Len(es)) \in Seq(E)
    BY <1>1, <1>2, SubSeqProperties
  <1>4. SubSeq(es, m, Len(es)) = <<es[m]>> \o SubSeq(es, m + 1, Len(es))
    BY <1>1, SubSeqRecursiveFirst
  <1>5. Leads(s, <<es[m]>> \o SubSeq(es, m + 1, Len(es)), q)
    BY <1>1, <1>3, LeadsMore DEF Ahead
  <1> QED BY <1>4, <1>5 DEF Ahead

\* All of them.
LEMMA AheadAll ==
  ASSUME NEW E, NEW es \in Seq(E), NEW s, NEW r, Ahead(es, 1, s, r)
  PROVE  Leads(s, es, r)
  BY SubSeqFull DEF Ahead

\* Two events.
LEMMA LeadsTwo ==
  ASSUME NEW E, NEW a \in E, NEW b \in E, NEW s0, NEW s1, NEW s2,
         InStep(s0), InStep(s1), InStep(s2), Goes(s0, a, s1), Goes(s1, b, s2)
  PROVE  Leads(s0, <<a, b>>, s2)
  <1>0. SUFFICES ASSUME NEW es, es = <<a, b>>
                 PROVE  Leads(s0, es, s2)
    OBVIOUS
  <1>1. es \in Seq(E) /\ Len(es) = 2 /\ es[1] = a /\ es[2] = b
    BY <1>0
  <1>2. Ahead(es, Len(es) + 1, s2, s2)
    BY <1>1, AheadEnd
  <1>3. 2 \in 1..Len(es) /\ Ahead(es, 2 + 1, s2, s2) /\ Goes(s1, es[2], s2)
    BY <1>1, <1>2
  <1>4. Ahead(es, 2, s1, s2)
    BY <1>1, <1>3, AheadOne
  <1>5. 1 \in 1..Len(es) /\ Ahead(es, 1 + 1, s1, s2) /\ Goes(s0, es[1], s1)
    BY <1>1, <1>4
  <1>6. Ahead(es, 1, s0, s2)
    BY <1>1, <1>5, AheadOne
  <1> QED BY <1>1, <1>6, AheadAll

\* Four events.
LEMMA LeadsFour ==
  ASSUME NEW E, NEW a \in E, NEW b \in E, NEW c \in E, NEW d \in E,
         NEW s0, NEW s1, NEW s2, NEW s3, NEW s4,
         InStep(s0), InStep(s1), InStep(s2), InStep(s3), InStep(s4),
         Goes(s0, a, s1), Goes(s1, b, s2), Goes(s2, c, s3), Goes(s3, d, s4)
  PROVE  Leads(s0, <<a, b, c, d>>, s4)
  <1>0. SUFFICES ASSUME NEW es, es = <<a, b, c, d>>
                 PROVE  Leads(s0, es, s4)
    OBVIOUS
  <1>1. /\ es \in Seq(E) /\ Len(es) = 4
        /\ es[1] = a /\ es[2] = b /\ es[3] = c /\ es[4] = d
    BY <1>0
  <1>2. Ahead(es, Len(es) + 1, s4, s4)
    BY <1>1, AheadEnd
  <1>3. 4 \in 1..Len(es) /\ Ahead(es, 4 + 1, s4, s4) /\ Goes(s3, es[4], s4)
    BY <1>1, <1>2
  <1>4. Ahead(es, 4, s3, s4)
    BY <1>1, <1>3, AheadOne
  <1>5. 3 \in 1..Len(es) /\ Ahead(es, 3 + 1, s3, s4) /\ Goes(s2, es[3], s3)
    BY <1>1, <1>4
  <1>6. Ahead(es, 3, s2, s4)
    BY <1>1, <1>5, AheadOne
  <1>7. 2 \in 1..Len(es) /\ Ahead(es, 2 + 1, s2, s4) /\ Goes(s1, es[2], s2)
    BY <1>1, <1>6
  <1>8. Ahead(es, 2, s1, s4)
    BY <1>1, <1>7, AheadOne
  <1>9. 1 \in 1..Len(es) /\ Ahead(es, 1 + 1, s1, s4) /\ Goes(s0, es[1], s1)
    BY <1>1, <1>8
  <1>10. Ahead(es, 1, s0, s4)
    BY <1>1, <1>9, AheadOne
  <1> QED BY <1>1, <1>10, AheadAll

\* A reserved attempt is sent out.
LEMMA CourseDispatch ==
  ASSUME IInv, CourseInv, NEW t \in Task, Dispatch(t)
  PROVE  CourseInv'
  <1> SUFFICES ASSUME NEW id, id = IdOf(t, Latest(t)),
                      NEW e1, e1 = AttemptMove("DISPATCH_REQUESTED", id, "RESERVED",
                                               "DISPATCH_REQUESTED", "none"),
                      NEW e2, e2 = Ask("reserve", id)
               PROVE  CourseInv'
    OBVIOUS
  <1>1. /\ k' = k /\ fresh /\ todo = <<>> /\ InStep(k) /\ Arrived(k) /\ t \in left /\ t \in wave
        /\ pc = "dispatch" /\ pc' = "channel" /\ UNCHANGED <<wave, fresh>>
        /\ left' = left \ {t} /\ at' = id /\ todo' = <<e1, e2>>
    BY ArrivedNow DEF Dispatch, At, Goto, Later, journal, IInv, DType
  <1>2. Latest(t) > 0 /\ LastOf(k, t).state = "RESERVED" /\ k.task[t].state = "LEASED"
    BY <1>1 DEF Arrived, Waiting, Latest
  <1>3. Latest(t) \in DOMAIN k.attempt[t]
    BY <1>2, AttemptsKnown DEF IInv
  <1>4. id \in AnId /\ Known(id) /\ id[1] = t /\ id[2] = Latest(t)
    BY <1>3, AttemptsKnown DEF IInv, IdOf
  <1>5. Len(k.attempt[t]) = id[2] /\ LastOf(k, t).epoch = id[3] /\ id[2] \in Nat \ {0}
    BY <1>4, LatestNamed
  <1>6. /\ "none" \in Why /\ "DISPATCH_REQUESTED" \in AttemptState /\ "RESERVED" \in AttemptState
        /\ Fits([state |-> "DISPATCH_REQUESTED", why |-> "none"], k.task[id[1]].state)
        /\ Len(k.attempt[id[1]]) = id[2] /\ LastOf(k, id[1]).epoch = id[3]
        /\ LastOf(k, id[1]).state = "RESERVED"
    BY <1>2, <1>4, <1>5 DEF Why, AttemptState, Fits, Abandoned
  <1>7. \E r : /\ Goes(k, e1, r) /\ InStep(r) /\ r.task = k.task
               /\ Len(r.attempt[id[1]]) = id[2]
               /\ LastOf(r, id[1]).state = "DISPATCH_REQUESTED" /\ LastOf(r, id[1]).epoch = id[3]
               /\ \A u \in Task : u # id[1] => r.attempt[u] = k.attempt[u]
    <2>1. CanMove(k, id, "DISPATCH_REQUESTED", "RESERVED", "DISPATCH_REQUESTED", "none")
      BY <1>1, <1>4, <1>6, AttemptMoveIn DEF CanMove
    <2>2. \E r : Goes(k, e1, r) /\ HasMoved(k, id, "DISPATCH_REQUESTED", "DISPATCH_REQUESTED",
                                           "none", r)
      BY <2>1, AttemptMoveGoes
    <2> QED BY <2>2 DEF HasMoved
  <1>8. PICK r : /\ Goes(k, e1, r) /\ InStep(r) /\ r.task = k.task
                 /\ Len(r.attempt[t]) = id[2]
                 /\ LastOf(r, t).state = "DISPATCH_REQUESTED" /\ LastOf(r, t).epoch = id[3]
                 /\ \A u \in Task : u # t => r.attempt[u] = k.attempt[u]
    BY <1>4, <1>7
  <1>9. e1 \in Event /\ e2 \in Event /\ e2.subject = "effect"
    BY <1>4, <1>6, EventKinds DEF IInv, Ask
  <1>10. Leads(k, <<e1, e2>>, r)
    BY <1>1, <1>8, <1>9, QuietGoes, LeadsTwo
  <1>11. Arrived(r)'
    <2>1. \A u \in left' : Waiting(r, u)
      BY <1>1, <1>8 DEF Arrived, Waiting, LastOf, IInv, DType
    <2>2. \A u \in wave' \ left' : u # t => Working(r, u)
      BY <1>1, <1>8 DEF Arrived, Working, LastOf, IInv, DType
    <2>3. Handed(r, id)'
      BY <1>1, <1>4, <1>5, <1>8 DEF Handed
    <2>4. at'[1] = t
      BY <1>1, <1>4
    <2> QED BY <1>1, <2>1, <2>2, <2>3, <2>4 DEF Arrived, Handed
  <1>12. InStep(k') /\ Leads(k', todo', r)
    BY <1>1, <1>10
  <1> QED BY <1>11, <1>12 DEF CourseInv

\* A child effect was not applied: the attempt's outcome is unknown, its task and
\* the run are blocked.
LEMMA ChildLeads ==
  ASSUME InStep(k), NEW id \in AnId, id[2] = Len(k.attempt[id[1]]),
         LastOf(k, id[1]).state = "DISPATCH_REQUESTED", LastOf(k, id[1]).epoch = id[3],
         NEW status \in {"ABSENT", "UNKNOWN"}, NEW e \in Event, e.subject = "effect",
         NEW w, w = BlockUnknown(id, status)
  PROVE  \E r : Leads(k, <<e>> \o w, r)
  <1> SUFFICES ASSUME NEW t, t = id[1],
                      NEW why, why = IF status = "UNKNOWN" THEN "WORKER_OUTCOME_UNKNOWN"
                                     ELSE "INVARIANT_VIOLATION",
                      NEW e1, e1 = Observed(id, status),
                      NEW e2, e2 = AttemptMove("ATTEMPT_OUTCOME_UNKNOWN", id,
                                               "DISPATCH_REQUESTED", "OUTCOME_UNKNOWN", why),
                      NEW e3, e3 = TaskMove("TASK_BLOCKED", t, "LEASED", "BLOCKED", why),
                      NEW e4, e4 = RunMove("RUN_BLOCKED", "RUNNING", "BLOCKED", why)
               PROVE  \E r : Leads(k, <<e>> \o w, r)
    OBVIOUS
  <1>1. w = <<e1, e2, e3, e4>>
    BY DEF BlockUnknown
  <1>2. /\ why \in Why /\ t \in Task /\ id[2] \in Nat \ {0} /\ k.epoch \in Nat
        /\ "OUTCOME_UNKNOWN" \in AttemptState /\ "DISPATCH_REQUESTED" \in AttemptState
        /\ "BLOCKED" \in TaskState /\ "LEASED" \in TaskState
    BY DEF Why, AnId, AttemptState, TaskState, InStep, AnySnapshot
  <1>3. k.task[t].state = "LEASED"
    BY <1>2 DEF InStep, FitsIn, Fits
  <1>4. e1 \in Event /\ e2 \in Event /\ e3 \in Event /\ e4 \in Event
    BY <1>2 DEF Observed, AttemptMove, TaskMove, RunMove, Event, DispatchEvent, AttemptEvent,
                TaskEvent, RunEvent, RunStatus, AnId
  <1>5. Goes(k, e, k) /\ Goes(k, e1, k)
    BY QuietGoes DEF Observed
  <1>6. Fits([state |-> "OUTCOME_UNKNOWN", why |-> why], k.task[id[1]].state)
    BY <1>2, <1>3 DEF Fits, Abandoned
  <1>7. \E r : /\ Goes(k, e2, r) /\ InStep(r) /\ r.task = k.task /\ r.epoch = k.epoch
               /\ LastOf(r, id[1]).state = "OUTCOME_UNKNOWN"
    <2>1. CanMove(k, id, "ATTEMPT_OUTCOME_UNKNOWN", "DISPATCH_REQUESTED", "OUTCOME_UNKNOWN", why)
      BY <1>2, <1>6, AttemptMoveIn DEF CanMove
    <2>2. \E r : Goes(k, e2, r) /\ HasMoved(k, id, "ATTEMPT_OUTCOME_UNKNOWN",
                                           "OUTCOME_UNKNOWN", why, r)
      BY <2>1, AttemptMoveGoes
    <2> QED BY <2>2 DEF HasMoved
  <1>8. PICK r2 : /\ Goes(k, e2, r2) /\ InStep(r2) /\ r2.task = k.task /\ r2.epoch = k.epoch
                  /\ LastOf(r2, t).state = "OUTCOME_UNKNOWN"
    BY <1>7
  <1>9. Fits(LastOf(r2, t), "BLOCKED")
    BY <1>8 DEF Fits, Abandoned
  <1>10. PICK r3 : Goes(r2, e3, r3) /\ InStep(r3) /\ r3.epoch = k.epoch
    <2>1. r2.task[t].state = "LEASED" /\ <<"TASK_BLOCKED", "LEASED", "BLOCKED">> \in TaskMoves
      BY <1>3, <1>8, TaskMoveIn
    <2>2. CanMoveTask(r2, t, "TASK_BLOCKED", "LEASED", "BLOCKED", why)
      BY <1>2, <1>8, <1>9, <2>1 DEF CanMoveTask
    <2>3. \E r : Goes(r2, e3, r) /\ HasMovedTask(r2, t, "BLOCKED", r)
      BY <2>2, TaskMoveGoes
    <2> QED BY <1>8, <2>3 DEF HasMovedTask
  <1>11. PICK r4 : Goes(r3, e4, r4) /\ InStep(r4)
    BY <1>2, <1>10, RunMoveGoes
  <1>12. Leads(k, w, r4)
    BY <1>1, <1>4, <1>5, <1>8, <1>10, <1>11, LeadsFour
  <1>13. w \in Seq(Event)
    BY <1>1, <1>4
  <1>14. Leads(k, <<e>> \o w, r4)
    BY <1>5, <1>12, <1>13, LeadsMore
  <1> QED BY <1>14

\* What holds while the provider is asked for a child effect.
LEMMA ChildWaits ==
  ASSUME IInv, CourseInv, pc \in {"channel", "packet"}, todo = <<>>, fresh
  PROVE  /\ InStep(k) /\ Arrived(k) /\ at \in AnId /\ at[1] \in wave /\ at[1] \notin left
         /\ at[2] \in Nat \ {0} /\ Len(k.attempt[at[1]]) = at[2]
         /\ LastOf(k, at[1]).state = "DISPATCH_REQUESTED" /\ LastOf(k, at[1]).epoch = at[3]
         /\ k.task[at[1]].state = "LEASED"
  <1>1. InStep(k) /\ Arrived(k)
    BY ArrivedNow
  <1>2. Handed(k, at)
    BY <1>1 DEF Arrived
  <1>3. at \in AnId /\ at[1] \notin left /\ k.task[at[1]].state = "LEASED"
    BY DEF IInv, AtInv, Asking, Known, State
  <1> QED BY <1>1, <1>2, <1>3 DEF Handed

\* The provider did not carry it out, does not know, or does not say.
LEMMA CourseChildBlocked ==
  ASSUME IInv, CourseInv, pc \in {"channel", "packet"}, todo = <<>>, fresh,
         k' = k, pc' = "ending", NEW op \in {"reserve", "send"},
         \/ todo' = <<>>
         \/ \E status \in {"ABSENT", "UNKNOWN"} :
              todo' = <<Tell(op, at, status)>> \o BlockUnknown(at, status)
  PROVE  CourseInv'
  <1>1. InStep(k) /\ \A s : Arrived(s)'
    BY ChildWaits DEF Arrived
  <1>2. CASE todo' = <<>>
    BY <1>1, <1>2, CourseQuiet
  <1>3. ASSUME NEW status \in {"ABSENT", "UNKNOWN"},
               todo' = <<Tell(op, at, status)>> \o BlockUnknown(at, status)
        PROVE  CourseInv'
    <2> SUFFICES ASSUME NEW e, e = Tell(op, at, status), NEW w, w = BlockUnknown(at, status)
                 PROVE  CourseInv'
      OBVIOUS
    <2>1. e \in Event /\ e.subject = "effect"
      BY ChildWaits, EventKinds DEF IInv, Tell
    <2>2. \E r : Leads(k, <<e>> \o w, r)
      BY <1>1, <2>1, ChildWaits, ChildLeads
    <2>3. todo' = <<e>> \o w
      BY <1>3
    <2> QED BY <1>1, <2>2, <2>3 DEF CourseInv
  <1> QED BY <1>2, <1>3

\* The first child effect is answered.
LEMMA CourseChannel ==
  ASSUME IInv, CourseInv, ReserveChannel
  PROVE  CourseInv'
  <1>1. PICK status \in {"APPLIED", "ABSENT", "UNKNOWN", "none"} :
          /\ todo' = IF status = "none" THEN <<>>
                     ELSE <<Tell("reserve", at, status)>> \o
                          (IF status = "APPLIED" THEN <<Ask("send", at)>>
                           ELSE BlockUnknown(at, status))
          /\ pc' = IF status = "APPLIED" THEN "packet" ELSE "ending"
          /\ fresh' = fresh
    BY DEF ReserveChannel, Child, Later, Goto
  <1>2. /\ pc = "channel" /\ todo = <<>> /\ fresh /\ k' = k
        /\ UNCHANGED <<wave, left, at>>
    BY DEF ReserveChannel, At, journal
  <1>3. CASE status # "APPLIED"
    <2>1. \/ todo' = <<>>
          \/ \E x \in {"ABSENT", "UNKNOWN"} :
               todo' = <<Tell("reserve", at, x)>> \o BlockUnknown(at, x)
      BY <1>1, <1>3
    <2> QED BY <1>1, <1>2, <1>3, <2>1, CourseChildBlocked
  <1>4. CASE status = "APPLIED"
    <2> SUFFICES ASSUME NEW e1, e1 = Tell("reserve", at, "APPLIED"),
                        NEW e2, e2 = Ask("send", at), NEW w, w = <<e2>>
                 PROVE  CourseInv'
      OBVIOUS
    <2>1. todo' = <<e1>> \o w /\ pc' = "packet" /\ fresh' = fresh
      BY <1>1, <1>4
    <2>2. InStep(k) /\ Arrived(k) /\ at \in AnId
      BY <1>2, ChildWaits
    <2>3. e1 \in Event /\ e2 \in Event /\ e1.subject = "effect" /\ e2.subject = "effect"
      BY <2>2, EventKinds DEF IInv, Tell, Ask
    <2>4. Leads(k, w, k) /\ w \in Seq(Event)
      BY <2>2, <2>3, QuietGoes, LeadsOne
    <2>5. Leads(k, <<e1>> \o w, k)
      BY <2>2, <2>3, <2>4, QuietGoes, LeadsMore
    <2> SUFFICES ASSUME NEW s, s = k PROVE CourseInv'
      OBVIOUS
    <2>6. Arrived(s)'
      BY <1>2, <2>1, <2>2 DEF Arrived, Handed
    <2>7. InStep(k') /\ Leads(k', todo', s)
      BY <1>2, <2>1, <2>2, <2>5
    <2> QED BY <2>6, <2>7 DEF CourseInv
  <1> QED BY <1>3, <1>4

\* The second is answered: the task is dispatched.
LEMMA CoursePacket ==
  ASSUME IInv, CourseInv, SendTaskPacket
  PROVE  CourseInv'
  <1>1. PICK status \in {"APPLIED", "ABSENT", "UNKNOWN", "none"} :
          /\ todo' = IF status = "none" THEN <<>>
                     ELSE <<Tell("send", at, status)>> \o
                          (IF status = "APPLIED" THEN <<Observed(at, "APPLIED")>>
                           ELSE BlockUnknown(at, status))
          /\ pc' = IF status = "APPLIED" THEN "dispatch" ELSE "ending"
          /\ fresh' = fresh
    BY DEF SendTaskPacket, Child, Later, Goto
  <1>2. /\ pc = "packet" /\ todo = <<>> /\ fresh /\ k' = k
        /\ UNCHANGED <<wave, left, at>>
    BY DEF SendTaskPacket, At, journal
  <1>3. CASE status # "APPLIED"
    <2>1. \/ todo' = <<>>
          \/ \E x \in {"ABSENT", "UNKNOWN"} :
               todo' = <<Tell("send", at, x)>> \o BlockUnknown(at, x)
      BY <1>1, <1>3
    <2> QED BY <1>1, <1>2, <1>3, <2>1, CourseChildBlocked
  <1>4. CASE status = "APPLIED"
    <2> SUFFICES ASSUME NEW e1, e1 = Tell("send", at, "APPLIED"),
                        NEW e2, e2 = Observed(at, "APPLIED"), NEW w, w = <<e2>>,
                        NEW t, t = at[1], NEW n, n = at[2]
                 PROVE  CourseInv'
      OBVIOUS
    <2>1. todo' = <<e1>> \o w /\ pc' = "dispatch" /\ fresh' = fresh
      BY <1>1, <1>4
    <2>2. /\ InStep(k) /\ Arrived(k) /\ at \in AnId /\ t \in Task /\ t \notin left
          /\ n \in Nat \ {0} /\ Len(k.attempt[t]) = n
          /\ LastOf(k, t).state = "DISPATCH_REQUESTED" /\ LastOf(k, t).epoch = at[3]
          /\ k.task[t].state = "LEASED"
      BY <1>2, ChildWaits DEF AnId
    <2>3. /\ e1 \in Event /\ e2 \in Event /\ e1.subject = "effect" /\ e2 \in DispatchEvent
          /\ e2.epoch = k.epoch /\ e2.status = "APPLIED" /\ e2.task = t /\ e2.attempt = n
          /\ e2.reserved = at[3]
      BY <2>2, EventKinds DEF IInv, DType, AnySnapshot, Tell, Observed, AnId, DispatchEvent
    <2>4. PICK r : /\ Goes(k, e2, r) /\ InStep(r)
                   /\ Len(r.attempt[t]) = n /\ LastOf(r, t).state = "RUNNING"
                   /\ \A u \in Task : u # t =>
                        r.task[u] = k.task[u] /\ r.attempt[u] = k.attempt[u]
      <3>1. CanObserve(k, e2, t, n)
        BY <2>2, <2>3 DEF CanObserve
      <3> HIDE <2>2, <2>3
      <3> QED BY <3>1, ObservedGoes
    <2>5. Leads(k, w, r) /\ w \in Seq(Event)
      BY <2>2, <2>3, <2>4, LeadsOne
    <2>6. Leads(k, <<e1>> \o w, r)
      BY <2>2, <2>3, <2>5, QuietGoes, LeadsMore
    <2>7. Arrived(r)'
      <3>1. \A u \in left : Waiting(r, u)
        BY <1>2, <2>2, <2>4 DEF Arrived, Waiting, LastOf, IInv, DType
      <3>2. \A u \in wave \ left : Working(r, u)
        BY <1>2, <2>2, <2>4 DEF Arrived, Working, LastOf, IInv, DType
      <3> QED BY <1>2, <2>1, <3>1, <3>2 DEF Arrived
    <2>8. InStep(k') /\ Leads(k', todo', r)
      BY <1>2, <2>1, <2>2, <2>6
    <2> QED BY <2>7, <2>8 DEF CourseInv
  <1> QED BY <1>3, <1>4

\* It leads where the rest leads.
LEMMA LeadsMaybe ==
  ASSUME NEW c, NEW e, NEW w \in Seq(Event), NEW s, NEW r, NEW q,
         MayGo(c, s, e, r), Leads(r, w, q)
  PROVE  Leads(s, MaybeFirst(c, e, w), q)
  <1>1. CASE c
    <2>1. MaybeFirst(c, e, w) = <<e>> \o w
      BY <1>1 DEF MaybeFirst
    <2> QED BY <1>1, <2>1, LeadsMore DEF MayGo
  <1>2. CASE ~c
    <2>1. MaybeFirst(c, e, w) = w
      BY <1>2, ConcatEmptySeq DEF MaybeFirst
    <2> QED BY <1>2, <2>1 DEF MayGo
  <1> QED BY <1>1, <1>2 DEF MayGo

\* A reservation that was never sent is taken over by this epoch.
LEMMA CourseReclaim ==
  ASSUME IInv, CourseInv, NEW id \in Attempts, Reclaim(id)
  PROVE  CourseInv'
  <1> SUFFICES ASSUME NEW e1, NEW e2, NEW u, NEW w,
                      e1 = AttemptMove("ATTEMPT_RELEASED", id, "RESERVED", "TERMINATED",
                                       "LEASE_LOST"),
                      e2 = AttemptMove("ATTEMPT_RESERVED", id, "TERMINATED", "RESERVED", "none"),
                      u = IF ~Lost(id) THEN <<e1>> ELSE <<>>, w = <<e2>>
               PROVE  CourseInv'
    OBVIOUS
  <1>1. /\ pc = "reclaim" /\ pc' = pc /\ todo = <<>> /\ id \in Unsent /\ Reclaimable
        /\ k' = k /\ fresh /\ InStep(k)
    BY DEF Reclaim, At, journal, CourseInv
  <1>2. todo' = u \o w
    BY DEF Reclaim, Later
  <1>3. id[3] < k.epoch /\ Kept(id[1], id[2])
    BY <1>1 DEF Unsent, Stale, Kept, Lost, LostAt, S, Of
  <1>4. /\ id \in AnId /\ id[1] \in Task /\ id[2] = Latest(id[1]) /\ Known(id)
    BY <1>3, KeptIdle, AttemptsKnown DEF IInv
  <1>5. /\ k.task[id[1]].state = "LEASED" /\ Len(k.attempt[id[1]]) = id[2]
        /\ LastOf(k, id[1]).epoch = id[3]
        /\ Lost(id) => LastOf(k, id[1]).state = "TERMINATED"
        /\ ~Lost(id) => LastOf(k, id[1]).state = "RESERVED"
    BY <1>1, <1>4, LatestNamed DEF Reclaimable, Unsent, Lost, Of, State
  <1>6. /\ "RESERVED" \in AttemptState /\ "TERMINATED" \in AttemptState
        /\ "none" \in Why /\ "LEASE_LOST" \in Why
        /\ Fits([state |-> "TERMINATED", why |-> "LEASE_LOST"], k.task[id[1]].state)
        /\ Fits([state |-> "RESERVED", why |-> "none"], k.task[id[1]].state)
    BY <1>5 DEF AttemptState, Why, Fits, Abandoned
  <1>7. e1 \in Event /\ e2 \in Event
    BY <1>4, <1>6, EventKinds DEF IInv
  <1>8. \E r : /\ InStep(r) /\ r.task = k.task /\ r.epoch = k.epoch
               /\ Len(r.attempt[id[1]]) = id[2] /\ LastOf(r, id[1]).epoch = id[3]
               /\ LastOf(r, id[1]).state = "TERMINATED"
               /\ ~Lost(id) => Goes(k, e1, r)
               /\ Lost(id) => r = k
    <2>1. CASE Lost(id)
      BY <1>1, <1>5, <2>1
    <2>2. CASE ~Lost(id)
      <3>1. \E r : /\ Goes(k, e1, r) /\ InStep(r) /\ r.task = k.task /\ r.epoch = k.epoch
                   /\ Len(r.attempt[id[1]]) = id[2] /\ LastOf(r, id[1]).epoch = id[3]
                   /\ LastOf(r, id[1]).state = "TERMINATED"
        <4>1. CanMove(k, id, "ATTEMPT_RELEASED", "RESERVED", "TERMINATED", "LEASE_LOST")
          BY <1>1, <1>4, <1>5, <1>6, <2>2, AttemptMoveIn DEF CanMove
        <4>2. \E r : Goes(k, e1, r) /\ HasMoved(k, id, "ATTEMPT_RELEASED", "TERMINATED",
                                               "LEASE_LOST", r)
          BY <4>1, AttemptMoveGoes
        <4> QED BY <4>2 DEF HasMoved
      <3> QED BY <2>2, <3>1
    <2> QED BY <2>1, <2>2
  <1>9. PICK r : /\ InStep(r) /\ r.task = k.task /\ r.epoch = k.epoch
                 /\ Len(r.attempt[id[1]]) = id[2] /\ LastOf(r, id[1]).epoch = id[3]
                 /\ LastOf(r, id[1]).state = "TERMINATED"
                 /\ ~Lost(id) => Goes(k, e1, r)
                 /\ Lost(id) => r = k
    BY <1>8
  <1>10. PICK q : Goes(r, e2, q) /\ InStep(q)
    <2>1. Fits([state |-> "RESERVED", why |-> "none"], r.task[id[1]].state)
      BY <1>6, <1>9
    <2>2. \E q : Goes(r, e2, q) /\ InStep(q)
      <3>1. CanMove(r, id, "ATTEMPT_RESERVED", "TERMINATED", "RESERVED", "none")
        BY <1>3, <1>4, <1>6, <1>9, <2>1, AttemptMoveIn DEF CanMove
      <3>2. \E q : Goes(r, e2, q) /\ HasMoved(r, id, "ATTEMPT_RESERVED", "RESERVED", "none", q)
        BY <3>1, AttemptMoveGoes
      <3> QED BY <3>2 DEF HasMoved
    <2> QED BY <2>2
  <1>11. Leads(r, w, q) /\ w \in Seq(Event)
    BY <1>7, <1>9, <1>10, LeadsOne
  <1>12. Leads(k, u \o w, q)
    <2>1. ASSUME NEW c \in BOOLEAN, c = ~Lost(id) PROVE Leads(k, u \o w, q)
      <3>1. u \o w = MaybeFirst(c, e1, w)
        BY <2>1 DEF MaybeFirst
      <3>2. MayGo(c, k, e1, r)
        BY <1>1, <1>7, <1>9, <2>1 DEF MayGo
      <3>3. Leads(k, MaybeFirst(c, e1, w), q)
        BY <1>11, <3>2, LeadsMaybe
      <3> QED BY <3>1, <3>3
    <2> QED BY <2>1
  <1>13. Arrived(q)' /\ InStep(k')
    BY <1>1 DEF Arrived
  <1> QED BY <1>1, <1>2, <1>12, <1>13 DEF CourseInv

\* A task is reserved: it gets a new attempt, since none of the former ones is
\* left to be taken up again.
LEMMA CourseReserve ==
  ASSUME IInv, CourseInv, NEW t \in Task, ReserveTask(t)
  PROVE  CourseInv'
  <1> SUFFICES ASSUME NEW n, n = Latest(t) + 1, NEW e1, NEW e2, NEW e3, NEW u, NEW w,
                      e1 = TaskMove("TASK_READY", t, "APPROVED", "READY", "none"),
                      e2 = TaskMove("LEASE_ACQUIRED", t, "READY", "LEASED", "none"),
                      e3 = AttemptMove("ATTEMPT_RESERVED", <<t, n, k.epoch>>, "PLANNED",
                                       "RESERVED", "none"),
                      u = IF State(t) = "APPROVED" THEN <<e1>> ELSE <<>>, w = <<e2, e3>>
               PROVE  CourseInv'
    OBVIOUS
  <1>1. /\ pc \in {"wave", "reserve"} /\ pc' = "reserve" /\ todo = <<>> /\ fresh
        /\ State(t) \in {"APPROVED", "READY"} /\ wave' = wave \cup {t} /\ k' = k
        /\ fresh' = fresh
    BY DEF ReserveTask, At, Goto, Ready, journal
  <1>2. todo' = u \o w
    BY DEF ReserveTask, Later
  <1>3. InStep(k) /\ \A x \in wave : Waiting(k, x)
    BY <1>1, ArrivedNow DEF Arrived, IInv, StageInv
  <1>4. \A m \in DOMAIN k.attempt[t] :
          k.attempt[t][m].state \in Terminal /\ ~Abandoned(k.attempt[t][m])
    <2> SUFFICES ASSUME NEW m \in DOMAIN k.attempt[t]
                 PROVE  k.attempt[t][m].state \in Terminal /\ ~Abandoned(k.attempt[t][m])
      OBVIOUS
    <2>1. ~LostAt(t, m)
      BY <1>1 DEF IInv, AttemptInv, Kept, Waves
    <2>2. ~Abandoned(k.attempt[t][m])
      BY <2>1 DEF LostAt, Abandoned, S
    <2>3. CASE k.attempt[t][m].state \notin Terminal
      <3>1. m = Len(k.attempt[t]) /\ Len(k.attempt[t]) > 0
        BY <1>3, <2>3, AttemptsKnown DEF InStep, FitsIn, IInv
      <3>2. Fits(k.attempt[t][m], State(t)) /\ k.attempt[t][m] \in AnAttempt
        BY <1>3, <3>1, ElementOfSeq DEF InStep, FitsIn, LastOf, State, AnySnapshot
      <3> QED BY <1>1, <2>3, <3>2 DEF Fits, AnAttempt, AttemptState, Terminal
    <2> QED BY <2>2, <2>3
  <1>5. /\ n \in Nat \ {0} /\ Len(k.attempt[t]) + 1 = n /\ k.epoch \in Nat
        /\ Len(k.attempt[t]) > 0 =>
             LastOf(k, t).state \in Terminal /\ ~Abandoned(LastOf(k, t))
    <2>1. Len(k.attempt[t]) \in Nat /\ DOMAIN k.attempt[t] = 1..Len(k.attempt[t])
      BY <1>3, LenProperties DEF InStep, AnySnapshot
    <2>2. n = Len(k.attempt[t]) + 1 /\ k.epoch \in Nat
      BY <1>3 DEF Latest, InStep, AnySnapshot
    <2>3. Len(k.attempt[t]) > 0 => Len(k.attempt[t]) \in DOMAIN k.attempt[t]
      BY <2>1
    <2>4. Len(k.attempt[t]) > 0 =>
            LastOf(k, t).state \in Terminal /\ ~Abandoned(LastOf(k, t))
      BY <1>4, <2>3 DEF LastOf
    <2> QED BY <2>1, <2>2, <2>4
  <1>6. /\ "RESERVED" \in AttemptState /\ "APPROVED" \in TaskState /\ "READY" \in TaskState
        /\ "LEASED" \in TaskState /\ "none" \in Why
        /\ Len(k.attempt[t]) > 0 => Fits(LastOf(k, t), "READY") /\ Fits(LastOf(k, t), "LEASED")
    BY <1>5 DEF AttemptState, TaskState, Why, Fits, Terminal
  <1>7. /\ e1 \in Event /\ e2 \in Event /\ e3 \in AttemptEvent /\ e3 \in Event
        /\ e3.epoch = k.epoch /\ e3.type = "ATTEMPT_RESERVED" /\ e3.from = "PLANNED"
        /\ e3.to = "RESERVED" /\ e3.why = "none" /\ e3.task = t /\ e3.attempt = n
    BY <1>5, <1>6 DEF TaskMove, AttemptMove, Event, TaskEvent, AttemptEvent
  <1>8. \E r : /\ InStep(r) /\ r.attempt = k.attempt /\ r.epoch = k.epoch
               /\ r.task[t].state = "READY"
               /\ \A x \in Task : x # t => r.task[x] = k.task[x]
               /\ State(t) = "APPROVED" => Goes(k, e1, r)
               /\ State(t) # "APPROVED" => r = k
    <2>1. CASE State(t) # "APPROVED"
      BY <1>1, <1>3, <2>1 DEF State
    <2>2. CASE State(t) = "APPROVED"
      <3>1. \E r : /\ Goes(k, e1, r) /\ InStep(r) /\ r.attempt = k.attempt
                   /\ r.epoch = k.epoch /\ r.task[t].state = "READY"
                   /\ \A x \in Task : x # t => r.task[x] = k.task[x]
        <4>1. CanMoveTask(k, t, "TASK_READY", "APPROVED", "READY", "none")
          BY <1>3, <1>6, <2>2, TaskMoveIn DEF State, CanMoveTask
        <4>2. e1 = TaskMove("TASK_READY", t, "APPROVED", "READY", "none")
          OBVIOUS
        <4>3. \E r : Goes(k, e1, r) /\ HasMovedTask(k, t, "READY", r)
          BY <4>1, <4>2, TaskMoveGoes
        <4> QED BY <4>3 DEF HasMovedTask
      <3> QED BY <2>2, <3>1
    <2> QED BY <2>1, <2>2
  <1>9. PICK r : /\ InStep(r) /\ r.attempt = k.attempt /\ r.epoch = k.epoch
                 /\ r.task[t].state = "READY"
                 /\ \A x \in Task : x # t => r.task[x] = k.task[x]
                 /\ State(t) = "APPROVED" => Goes(k, e1, r)
                 /\ State(t) # "APPROVED" => r = k
    BY <1>8
  <1>10. PICK q : /\ Goes(r, e2, q) /\ InStep(q) /\ q.attempt = k.attempt
                  /\ q.epoch = k.epoch /\ q.task[t].state = "LEASED"
                  /\ \A x \in Task : x # t => q.task[x] = k.task[x]
    <2>1. Len(r.attempt[t]) > 0 => Fits(LastOf(r, t), "LEASED")
      BY <1>6, <1>9 DEF LastOf
    <2>2. \E q : /\ Goes(r, e2, q) /\ InStep(q) /\ q.attempt = r.attempt
                 /\ q.epoch = r.epoch /\ q.task[t].state = "LEASED"
                 /\ \A x \in Task : x # t => q.task[x] = r.task[x]
      <3>1. CanMoveTask(r, t, "LEASE_ACQUIRED", "READY", "LEASED", "none")
        BY <1>6, <1>9, <2>1, TaskMoveIn DEF CanMoveTask
      <3>2. \E q : Goes(r, e2, q) /\ HasMovedTask(r, t, "LEASED", q)
        BY <3>1, TaskMoveGoes
      <3> QED BY <3>2 DEF HasMovedTask
    <2> QED BY <1>9, <2>2
  <1>11. PICK p : /\ Goes(q, e3, p) /\ InStep(p) /\ p.task = q.task
                  /\ Len(p.attempt[t]) = n /\ LastOf(p, t).state = "RESERVED"
                  /\ \A x \in Task : x # t => p.attempt[x] = k.attempt[x]
    <2>1. /\ e3 \in AttemptEvent /\ e3.epoch = q.epoch /\ e3.type = "ATTEMPT_RESERVED"
          /\ e3.from = "PLANNED" /\ e3.to = "RESERVED" /\ e3.why = "none"
          /\ e3.task = t /\ e3.attempt = n /\ n \in Nat \ {0}
          /\ Len(q.attempt[t]) + 1 = n /\ q.task[t].state = "LEASED" /\ InStep(q)
      BY <1>5, <1>7, <1>10
    <2>2. \A m \in DOMAIN q.attempt[t] :
            q.attempt[t][m].state \in Terminal /\ ~Abandoned(q.attempt[t][m])
      BY <1>4, <1>10
    <2>3. \E p : /\ Goes(q, e3, p) /\ InStep(p) /\ p.task = q.task
                 /\ Len(p.attempt[t]) = n /\ LastOf(p, t).state = "RESERVED"
                 /\ \A x \in Task : x # t => p.attempt[x] = q.attempt[x]
      <3>1. CanAdd(q, e3, t, n)
        BY <2>1, <2>2 DEF CanAdd
      <3> HIDE <2>1, <2>2
      <3> QED BY <3>1, AttemptAdds
    <2> QED BY <1>10, <2>3
  <1>12. Leads(r, w, p) /\ w \in Seq(Event)
    BY <1>7, <1>9, <1>10, <1>11, LeadsTwo
  <1>13. Leads(k, u \o w, p)
    <2>1. ASSUME NEW c \in BOOLEAN, c = (State(t) = "APPROVED") PROVE Leads(k, u \o w, p)
      <3>1. u \o w = MaybeFirst(c, e1, w)
        BY <2>1 DEF MaybeFirst
      <3>2. MayGo(c, k, e1, r)
        BY <1>3, <1>7, <1>9, <2>1 DEF MayGo
      <3>3. Leads(k, MaybeFirst(c, e1, w), p)
        BY <1>12, <3>2, LeadsMaybe
      <3> QED BY <3>1, <3>3
    <2> QED BY <2>1
  <1>14. Arrived(p)'
    <2>1. Waiting(p, t)
      BY <1>5, <1>10, <1>11 DEF Waiting
    <2>2. \A x \in wave : x # t => Waiting(p, x)
      BY <1>3, <1>10, <1>11 DEF Waiting, LastOf, IInv, DType
    <2> QED BY <1>1, <2>1, <2>2 DEF Arrived
  <1> QED BY <1>1, <1>2, <1>3, <1>13, <1>14 DEF CourseInv

\* The start is over; a task whose worktree is absent is tried again.
LEMMA CourseAcquired ==
  ASSUME IInv, CourseInv, Acquired
  PROVE  CourseInv'
  <1>1. /\ k' = k /\ pc' = "wave" /\ todo = <<>> /\ InStep(k) /\ \A s : Arrived(s)'
    BY DEF Acquired, Reclaimed, At, Goto, journal, CourseInv, Arrived
  <1>2. CASE todo' = <<>>
    BY <1>1, <1>2, CourseQuiet
  <1>3. ASSUME NEW id \in AbsentPreparations, k.status = "BLOCKED", todo' = RequeueSteps(id)
        PROVE  CourseInv'
    <2> SUFFICES ASSUME NEW e1, NEW e2, NEW e3, NEW u, NEW v, NEW w,
                        e1 = AttemptMove("ATTEMPT_RELEASED", id, "RESERVED", "TERMINATED",
                                         "none"),
                        e2 = TaskMove("TASK_RETRY_SCHEDULED", id[1], "BLOCKED", "READY", "none"),
                        e3 = RunMove("RUN_RESUMED", "BLOCKED", "RUNNING", "none"),
                        u = IF Of(id).state = "RESERVED" THEN <<e1>> ELSE <<>>,
                        v = IF State(id[1]) = "BLOCKED" THEN <<e2>> ELSE <<>>, w = <<e3>>
                 PROVE  CourseInv'
      OBVIOUS
    <2>0. todo' = (u \o v) \o w
      BY <1>3 DEF RequeueSteps
    <2>1. /\ id \in AnId /\ Known(id) /\ id[1] \in Task /\ id[2] = Latest(id[1])
          /\ Of(id).state = S(id[1], id[2]) /\ Of(id).state \in {"RESERVED", "TERMINATED"}
          /\ State(id[1]) \in {"READY", "BLOCKED"}
      BY AttemptsKnown, KnownIs DEF AbsentPreparations, IInv
    <2>2. /\ Len(k.attempt[id[1]]) = id[2] /\ LastOf(k, id[1]).epoch = id[3]
          /\ LastOf(k, id[1]).state = Of(id).state /\ id[2] > 0
          /\ k.task[id[1]].state = State(id[1])
      BY <2>1, LatestNamed DEF State, AnId
    <2>4. /\ "RESERVED" \in AttemptState /\ "TERMINATED" \in AttemptState
          /\ "BLOCKED" \in TaskState /\ "READY" \in TaskState /\ "none" \in Why
          /\ Fits([state |-> "TERMINATED", why |-> "none"], k.task[id[1]].state)
      BY <2>1, <2>2 DEF AttemptState, TaskState, Why, Fits, Abandoned
    <2>5. e1 \in Event /\ e2 \in Event /\ e3 \in Event
      BY <2>1, <2>4, EventKinds DEF IInv
    <2>6. \E r : /\ InStep(r) /\ r.task = k.task /\ r.epoch = k.epoch
                 /\ r.status = k.status /\ LastOf(r, id[1]).state = "TERMINATED"
                 /\ Of(id).state = "RESERVED" => Goes(k, e1, r)
                 /\ Of(id).state # "RESERVED" => r = k
      <3>1. CASE Of(id).state # "RESERVED"
        BY <1>1, <2>1, <2>2, <3>1
      <3>2. CASE Of(id).state = "RESERVED"
        <4>1. \E r : /\ Goes(k, e1, r) /\ InStep(r) /\ r.task = k.task /\ r.epoch = k.epoch
                     /\ r.status = k.status /\ LastOf(r, id[1]).state = "TERMINATED"
          <5>1. CanMove(k, id, "ATTEMPT_RELEASED", "RESERVED", "TERMINATED", "none")
            BY <1>1, <2>1, <2>2, <2>4, <3>2, AttemptMoveIn DEF CanMove
          <5>2. \E r : Goes(k, e1, r) /\ HasMoved(k, id, "ATTEMPT_RELEASED", "TERMINATED",
                                                 "none", r)
            BY <5>1, AttemptMoveGoes
          <5> QED BY <5>2 DEF HasMoved
        <4> QED BY <3>2, <4>1
      <3> QED BY <3>1, <3>2
    <2>7. PICK r : /\ InStep(r) /\ r.task = k.task /\ r.epoch = k.epoch
                   /\ r.status = k.status /\ LastOf(r, id[1]).state = "TERMINATED"
                   /\ Of(id).state = "RESERVED" => Goes(k, e1, r)
                   /\ Of(id).state # "RESERVED" => r = k
      BY <2>6
    <2>8. \E q : /\ InStep(q) /\ q.epoch = k.epoch /\ q.status = k.status
                 /\ State(id[1]) = "BLOCKED" => Goes(r, e2, q)
                 /\ State(id[1]) # "BLOCKED" => q = r
      <3>1. CASE State(id[1]) # "BLOCKED"
        BY <2>7, <3>1
      <3>2. CASE State(id[1]) = "BLOCKED"
        <4>1. Fits(LastOf(r, id[1]), "READY") /\ r.task[id[1]].state = "BLOCKED"
          BY <2>2, <2>7, <3>2 DEF Fits
        <4>2. \E q : Goes(r, e2, q) /\ InStep(q) /\ q.epoch = r.epoch /\ q.status = r.status
          <5>1. CanMoveTask(r, id[1], "TASK_RETRY_SCHEDULED", "BLOCKED", "READY", "none")
            BY <2>1, <2>4, <2>7, <4>1, TaskMoveIn DEF CanMoveTask
          <5>2. \E q : Goes(r, e2, q) /\ HasMovedTask(r, id[1], "READY", q)
            BY <5>1, TaskMoveGoes
          <5> QED BY <5>2 DEF HasMovedTask
        <4> QED BY <2>7, <3>2, <4>2
      <3> QED BY <3>1, <3>2
    <2>9. PICK q : /\ InStep(q) /\ q.epoch = k.epoch /\ q.status = k.status
                   /\ State(id[1]) = "BLOCKED" => Goes(r, e2, q)
                   /\ State(id[1]) # "BLOCKED" => q = r
      BY <2>8
    <2>10. PICK p : Goes(q, e3, p) /\ InStep(p)
      BY <1>3, <2>4, <2>9, RunMoveGoes
    <2>11. Leads(q, w, p) /\ w \in Seq(Event)
      BY <2>5, <2>9, <2>10, LeadsOne
    <2>12. Leads(r, v, q) /\ v \in Seq(Event)
      <3>1. CASE State(id[1]) # "BLOCKED"
        <4>1. v = <<>> /\ q = r
          BY <2>9, <3>1
        <4> QED BY <2>7, <4>1, LeadsNowhere
      <3>2. CASE State(id[1]) = "BLOCKED"
        <4>1. v = <<e2>> /\ Goes(r, e2, q)
          BY <2>9, <3>2
        <4> QED BY <2>5, <2>7, <2>9, <4>1, LeadsOne
      <3> QED BY <3>1, <3>2
    <2>13. Leads(k, u, r) /\ u \in Seq(Event)
      <3>1. CASE Of(id).state # "RESERVED"
        <4>1. u = <<>> /\ r = k
          BY <2>7, <3>1
        <4> QED BY <1>1, <4>1, LeadsNowhere
      <3>2. CASE Of(id).state = "RESERVED"
        <4>1. u = <<e1>> /\ Goes(k, e1, r)
          BY <2>7, <3>2
        <4> QED BY <1>1, <2>5, <2>7, <4>1, LeadsOne
      <3> QED BY <3>1, <3>2
    <2>14. Leads(k, u \o v, q) /\ u \o v \in Seq(Event)
      BY <2>12, <2>13, LeadsJoin, ConcatProperties
    <2>15. Leads(k, (u \o v) \o w, p)
      BY <2>11, <2>14, LeadsJoin
    <2> QED BY <1>1, <2>0, <2>15 DEF CourseInv
  <1> QED BY <1>1, <1>2, <1>3 DEF Acquired, Conflicting, Later

\* The attempt moves while it is taken back.
LEMMA TakenAttempt ==
  ASSUME NEW id \in AnId, NEW s, NEW x, NEW a \in AttemptState, NEW b \in AttemptState,
         Taken(s, id, a, x), NEW type, <<type, a, b>> \in AttemptMoves,
         type \in {"CANCEL_REQUESTED", "ATTEMPT_TERMINATED"},
         Fits([state |-> b, why |-> "LEASE_LOST"], x),
         NEW e, e = AttemptMove(type, id, a, b, "LEASE_LOST")
  PROVE  \E r : Goes(s, e, r) /\ Taken(r, id, b, x)
  <1>1. /\ InStep(s) /\ s.epoch = k.epoch /\ Len(s.attempt[id[1]]) = id[2]
        /\ LastOf(s, id[1]).state = a /\ LastOf(s, id[1]).epoch = id[3]
        /\ s.task[id[1]].state = x /\ "LEASE_LOST" \in Why
        /\ Fits([state |-> b, why |-> "LEASE_LOST"], s.task[id[1]].state)
    BY DEF Taken, Why
  <1>2. type # "ATTEMPT_RESERVED"
    OBVIOUS
  <1>3. \E r : /\ Goes(s, e, r) /\ InStep(r) /\ r.task = s.task /\ r.epoch = s.epoch
               /\ Len(r.attempt[id[1]]) = id[2] /\ LastOf(r, id[1]).epoch = id[3]
               /\ LastOf(r, id[1]).state = b /\ LastOf(r, id[1]).why = "LEASE_LOST"
    <2>1. CanMove(s, id, type, a, b, "LEASE_LOST")
      BY <1>1, <1>2 DEF CanMove
    <2>2. \E r : Goes(s, e, r) /\ HasMoved(s, id, type, b, "LEASE_LOST", r)
      BY <2>1, AttemptMoveGoes
    <2> QED BY <1>2, <2>2 DEF HasMoved
  <1> QED BY <1>1, <1>3 DEF Taken

\* Its task moves.
LEMMA TakenTask ==
  ASSUME NEW id \in AnId, NEW s, NEW x, NEW y \in TaskState,
         Taken(s, id, "TERMINATED", x), NEW type, <<type, x, y>> \in TaskMoves,
         type \in {"TASK_BLOCKED", "TASK_RETRY_SCHEDULED", "LEASE_ACQUIRED"},
         y \in {"BLOCKED", "READY", "LEASED"}, NEW why \in Why,
         NEW e, e = TaskMove(type, id[1], x, y, why)
  PROVE  \E r : Goes(s, e, r) /\ Taken(r, id, "TERMINATED", y)
  <1>1. /\ InStep(s) /\ s.epoch = k.epoch /\ Len(s.attempt[id[1]]) = id[2]
        /\ LastOf(s, id[1]).state = "TERMINATED" /\ LastOf(s, id[1]).epoch = id[3]
        /\ LastOf(s, id[1]).why = "LEASE_LOST"
        /\ s.task[id[1]].state = x /\ id[1] \in Task
    BY DEF Taken, AnId
  <1>2. Fits(LastOf(s, id[1]), y)
    BY <1>1 DEF Fits, Abandoned
  <1>3. \E r : /\ Goes(s, e, r) /\ InStep(r) /\ r.attempt = s.attempt /\ r.epoch = s.epoch
               /\ r.task[id[1]].state = y
    <2>1. CanMoveTask(s, id[1], type, x, y, why)
      BY <1>1, <1>2 DEF CanMoveTask
    <2>2. \E r : Goes(s, e, r) /\ HasMovedTask(s, id[1], y, r)
      BY <2>1, TaskMoveGoes
    <2> QED BY <2>2 DEF HasMovedTask
  <1> QED BY <1>1, <1>3 DEF Taken, LastOf

\* An attempt is taken back, from any of the steps on that are not taken yet.
LEMMA TakenLeads ==
  ASSUME DType, NEW id \in AnId, id[3] < k.epoch, NEW es, es = TakeBackSteps(id)
  PROVE  TakesAhead(id, es)
  <1> SUFFICES ASSUME NEW e1, NEW e2, NEW e3, NEW e4, NEW e5, NEW e6,
                      StepsBack(id, e1, e2, e3, e4, e5, e6)
               PROVE  TakesAhead(id, es)
    BY DEF StepsBack
  <1> USE DEF StepsBack
  <1>1. /\ "RUNNING" \in AttemptState /\ "CANCEL_REQUESTED" \in AttemptState
        /\ "TERMINATED" \in AttemptState /\ "RESERVED" \in AttemptState
        /\ "DISPATCHED" \in TaskState /\ "BLOCKED" \in TaskState /\ "READY" \in TaskState
        /\ "LEASED" \in TaskState /\ "none" \in Why /\ "LEASE_LOST" \in Why
        /\ id[1] \in Task
    BY DEF AttemptState, TaskState, Why, AnId
  <1>2. /\ e1 \in Event /\ e2 \in Event /\ e3 \in Event
        /\ e4 \in Event /\ e5 \in Event /\ e6 \in Event
    BY <1>1, EventKinds
  <1>3. es = <<e1, e2, e3, e4, e5, e6>>
    BY DEF TakeBackSteps
  <1>4. /\ es \in Seq(Event) /\ Len(es) = 6
        /\ es[1] = e1 /\ es[2] = e2 /\ es[3] = e3 /\ es[4] = e4 /\ es[5] = e5 /\ es[6] = e6
    BY <1>2, <1>3
  <1>5. ASSUME NEW m \in 1..6, NEW s, NEW r, NEW q, Goes(s, es[m], r),
               InStep(s), InStep(r), Ahead(es, m + 1, r, q)
        PROVE  Ahead(es, m, s, q)
    <2>1. m \in 1..Len(es)
      BY <1>4
    <2> QED BY <1>4, <1>5, <2>1, AheadOne
  <1>6. ASSUME NEW s, Taken(s, id, "TERMINATED", "LEASED")
        PROVE  \E q : Ahead(es, 6, s, q)
    <2>1. /\ InStep(s) /\ s.epoch = k.epoch /\ Len(s.attempt[id[1]]) = id[2]
          /\ LastOf(s, id[1]).state = "TERMINATED" /\ LastOf(s, id[1]).epoch = id[3]
          /\ Fits([state |-> "RESERVED", why |-> "none"], s.task[id[1]].state)
      BY <1>6 DEF Taken, Fits, Abandoned
    <2>2. \E r : Goes(s, e6, r) /\ InStep(r)
      <3>1. CanMove(s, id, "ATTEMPT_RESERVED", "TERMINATED", "RESERVED", "none")
        BY <1>1, <2>1, AttemptMoveIn DEF CanMove
      <3>2. \E r : Goes(s, e6, r) /\ HasMoved(s, id, "ATTEMPT_RESERVED", "RESERVED", "none", r)
        BY <3>1, AttemptMoveGoes
      <3> QED BY <3>2 DEF HasMoved
    <2>3. PICK r : Goes(s, e6, r) /\ InStep(r)
      BY <2>2
    <2>4. Ahead(es, Len(es) + 1, r, r)
      BY <1>4, <2>3, AheadEnd
    <2>5. 6 \in 1..6 /\ Ahead(es, 6 + 1, r, r) /\ Goes(s, es[6], r)
      BY <1>4, <2>3, <2>4
    <2> QED BY <1>5, <2>1, <2>3, <2>5
  <1>7. ASSUME NEW s, Taken(s, id, "TERMINATED", "READY")
        PROVE  \E q : Ahead(es, 5, s, q)
    <2>1. PICK r : Goes(s, e5, r) /\ Taken(r, id, "TERMINATED", "LEASED")
      BY <1>1, <1>7, TaskMoveIn, TakenTask
    <2>2. PICK q : Ahead(es, 6, r, q)
      BY <1>6, <2>1
    <2>3. 5 \in 1..6 /\ Ahead(es, 5 + 1, r, q) /\ Goes(s, es[5], r) /\ InStep(s) /\ InStep(r)
      BY <1>4, <1>7, <2>1, <2>2 DEF Taken
    <2> QED BY <1>5, <2>3
  <1>8. ASSUME NEW s, Taken(s, id, "TERMINATED", "BLOCKED")
        PROVE  \E q : Ahead(es, 4, s, q)
    <2>1. PICK r : Goes(s, e4, r) /\ Taken(r, id, "TERMINATED", "READY")
      BY <1>1, <1>8, TaskMoveIn, TakenTask
    <2>2. PICK q : Ahead(es, 5, r, q)
      BY <1>7, <2>1
    <2>3. 4 \in 1..6 /\ Ahead(es, 4 + 1, r, q) /\ Goes(s, es[4], r) /\ InStep(s) /\ InStep(r)
      BY <1>4, <1>8, <2>1, <2>2 DEF Taken
    <2> QED BY <1>5, <2>3
  <1>9. ASSUME NEW s, Taken(s, id, "TERMINATED", "DISPATCHED")
        PROVE  \E q : Ahead(es, 3, s, q)
    <2>1. PICK r : Goes(s, e3, r) /\ Taken(r, id, "TERMINATED", "BLOCKED")
      BY <1>1, <1>9, TaskMoveIn, TakenTask
    <2>2. PICK q : Ahead(es, 4, r, q)
      BY <1>8, <2>1
    <2>3. 3 \in 1..6 /\ Ahead(es, 3 + 1, r, q) /\ Goes(s, es[3], r) /\ InStep(s) /\ InStep(r)
      BY <1>4, <1>9, <2>1, <2>2 DEF Taken
    <2> QED BY <1>5, <2>3
  <1>10. ASSUME NEW s, Taken(s, id, "CANCEL_REQUESTED", "DISPATCHED")
         PROVE  \E q : Ahead(es, 2, s, q)
    <2>0. Fits([state |-> "TERMINATED", why |-> "LEASE_LOST"], "DISPATCHED")
      BY DEF Fits
    <2>1. PICK r : Goes(s, e2, r) /\ Taken(r, id, "TERMINATED", "DISPATCHED")
      BY <1>1, <1>10, <2>0, AttemptMoveIn, TakenAttempt
    <2>2. PICK q : Ahead(es, 3, r, q)
      BY <1>9, <2>1
    <2>3. 2 \in 1..6 /\ Ahead(es, 2 + 1, r, q) /\ Goes(s, es[2], r) /\ InStep(s) /\ InStep(r)
      BY <1>4, <1>10, <2>1, <2>2 DEF Taken
    <2> QED BY <1>5, <2>3
  <1>11. ASSUME NEW s, Taken(s, id, "RUNNING", "DISPATCHED")
         PROVE  \E q : Ahead(es, 1, s, q)
    <2>0. Fits([state |-> "CANCEL_REQUESTED", why |-> "LEASE_LOST"], "DISPATCHED")
      BY DEF Fits, Abandoned
    <2>1. PICK r : Goes(s, e1, r) /\ Taken(r, id, "CANCEL_REQUESTED", "DISPATCHED")
      BY <1>1, <1>11, <2>0, AttemptMoveIn, TakenAttempt
    <2>2. PICK q : Ahead(es, 2, r, q)
      BY <1>10, <2>1
    <2>3. 1 \in 1..6 /\ Ahead(es, 1 + 1, r, q) /\ Goes(s, es[1], r) /\ InStep(s) /\ InStep(r)
      BY <1>4, <1>11, <2>1, <2>2 DEF Taken
    <2> QED BY <1>5, <2>3
  <1> QED BY <1>4, <1>6, <1>7, <1>8, <1>9, <1>10, <1>11 DEF TakesAhead

\* A cancelled turn is taken back if its worktree is untouched.
LEMMA CourseRecheck ==
  ASSUME IInv, CourseInv, Recheck
  PROVE  CourseInv'
  <1>1. /\ pc = "recheck" /\ todo = <<>> /\ k' = k /\ InStep(k)
        /\ pc' \in {"takeback", "ending"} /\ \A s : Arrived(s)'
    BY DEF Recheck, At, Goto, journal, CourseInv, Arrived
  <1>2. CASE todo' = <<>>
    BY <1>1, <1>2, CourseQuiet
  <1> SUFFICES ASSUME NEW id, id = at, NEW es, es = TakeBackSteps(id),
                      NEW m, m = StepsTaken(id), todo' = SubSeq(es, m + 1, 6)
               PROVE  CourseInv'
    BY <1>1, <1>2 DEF Recheck, Later
  <1>3. /\ id \in AnId /\ Known(id) /\ id[2] = Latest(id[1]) /\ id[3] < k.epoch
        /\ S(id[1], id[2]) \in {"RUNNING", "CANCEL_REQUESTED"} \/ LostAt(id[1], id[2])
    BY <1>1 DEF IInv, AtInv, Known
  <1>4. /\ Len(k.attempt[id[1]]) = id[2] /\ LastOf(k, id[1]).epoch = id[3]
        /\ LastOf(k, id[1]) = Of(id) /\ k.task[id[1]].state = State(id[1]) /\ id[2] > 0
        /\ Of(id).state \in {"RUNNING", "CANCEL_REQUESTED"} \/ Lost(id)
    BY <1>3, LatestNamed DEF State, Of, S, LostAt, Lost, AnId
  <1>5. Fits(Of(id), State(id[1]))
    BY <1>1, <1>3, <1>4 DEF InStep, FitsIn, AnId
  <1>6. /\ es \in Seq(Event) /\ Len(es) = 6
        /\ \E q : Ahead(es, m + 1, k, q)
    <2>0. /\ es \in Seq(Event) /\ Len(es) = 6
          /\ Taken(k, id, "RUNNING", "DISPATCHED") => \E q : Ahead(es, 1, k, q)
          /\ Taken(k, id, "CANCEL_REQUESTED", "DISPATCHED") => \E q : Ahead(es, 2, k, q)
          /\ Taken(k, id, "TERMINATED", "DISPATCHED") => \E q : Ahead(es, 3, k, q)
          /\ Taken(k, id, "TERMINATED", "BLOCKED") => \E q : Ahead(es, 4, k, q)
          /\ Taken(k, id, "TERMINATED", "READY") => \E q : Ahead(es, 5, k, q)
          /\ Taken(k, id, "TERMINATED", "LEASED") => \E q : Ahead(es, 6, k, q)
      BY <1>3, TakenLeads DEF IInv, TakesAhead
    <2>1. CASE Of(id).state = "RUNNING"
      <3>1. Taken(k, id, "RUNNING", "DISPATCHED") /\ m = 0
        BY <1>1, <1>4, <1>5, <2>1 DEF Taken, Fits, StepsTaken, Lost
      <3> QED BY <2>0, <3>1
    <2>2. CASE Of(id).state = "CANCEL_REQUESTED"
      <3>1. Taken(k, id, "CANCEL_REQUESTED", "DISPATCHED") /\ m = 1
        BY <1>1, <1>4, <1>5, <2>2 DEF Taken, Fits, StepsTaken, Lost
      <3> QED BY <2>0, <3>1
    <2>3. CASE Lost(id)
      <3>1. /\ State(id[1]) \in {"DISPATCHED", "BLOCKED", "READY", "LEASED"}
            /\ Of(id).state = "TERMINATED"
            /\ \A x : State(id[1]) = x => Taken(k, id, "TERMINATED", x)
        BY <1>1, <1>4, <1>5, <2>3 DEF Taken, Fits, Abandoned, Lost
      <3>2. CASE State(id[1]) = "DISPATCHED"
        <4>1. m = 2
          BY <2>3, <3>1, <3>2 DEF StepsTaken
        <4> QED BY <2>0, <3>1, <3>2, <4>1
      <3>3. CASE State(id[1]) = "BLOCKED"
        <4>1. m = 3
          BY <2>3, <3>1, <3>3 DEF StepsTaken
        <4> QED BY <2>0, <3>1, <3>3, <4>1
      <3>4. CASE State(id[1]) = "READY"
        <4>1. m = 4
          BY <2>3, <3>1, <3>4 DEF StepsTaken
        <4> QED BY <2>0, <3>1, <3>4, <4>1
      <3>5. CASE State(id[1]) = "LEASED"
        <4>1. m = 5
          BY <2>3, <3>1, <3>5 DEF StepsTaken
        <4> QED BY <2>0, <3>1, <3>5, <4>1
      <3> QED BY <3>1, <3>2, <3>3, <3>4, <3>5
    <2> QED BY <1>4, <2>0, <2>1, <2>2, <2>3
  <1>7. PICK q : Ahead(es, m + 1, k, q)
    BY <1>6
  <1>8. Leads(k, SubSeq(es, m + 1, 6), q)
    BY <1>6, <1>7 DEF Ahead
  <1> QED BY <1>1, <1>8 DEF CourseInv

\* A snapshot with other tasks.
LEMMA RecordTask ==
  ASSUME NEW s \in AnySnapshot, NEW X \in [Task -> [state : TaskState, why : Why]],
         NEW r, r = [s EXCEPT !.task = X]
  PROVE  r \in AnySnapshot /\ r.task = X /\ r.attempt = s.attempt /\ r.epoch = s.epoch
  BY DEF AnySnapshot

\* Of two sets of tasks the second stays.
LEMMA TaskTwice ==
  ASSUME NEW s \in AnySnapshot, NEW X, NEW Y
  PROVE  [[s EXCEPT !.task = X] EXCEPT !.task = Y] = [s EXCEPT !.task = Y]
  BY DEF AnySnapshot

\* A function with one more value set.
LEMMA OneMore ==
  ASSUME NEW D \in SUBSET Task, NEW t \in Task, NEW b, NEW A, NEW X, NEW Y,
         X = [u \in Task |-> IF u \in D THEN b ELSE A[u]],
         Y = [u \in Task |-> IF u \in D \cup {t} THEN b ELSE A[u]]
  PROVE  [X EXCEPT ![t] = b] = Y
  OBVIOUS

\* One more task moves.
LEMMA MovedOnce ==
  ASSUME NEW s \in AnySnapshot, NEW D \in SUBSET Task, NEW t \in Task, NEW x,
         NEW p, p = MovedTo(s, D, x)
  PROVE  OneMoved(p, t, x) = MovedTo(s, D \cup {t}, x)
  <1>0. PICK A, b : A = s.task /\ b = [state |-> x, why |-> "none"]
    OBVIOUS
  <1>1. PICK X : X = [u \in Task |-> IF u \in D THEN b ELSE A[u]]
    OBVIOUS
  <1>2. PICK Y : Y = [u \in Task |-> IF u \in D \cup {t} THEN b ELSE A[u]]
    OBVIOUS
  <1>3. p = [s EXCEPT !.task = X] /\ MovedTo(s, D \cup {t}, x) = [s EXCEPT !.task = Y]
    BY <1>0, <1>1, <1>2, Zenon DEF MovedTo
  <1>4. [X EXCEPT ![t] = b] = Y
    BY <1>1, <1>2, OneMore, Zenon
  <1>5. [s EXCEPT !.task = X].task = X
    BY DEF AnySnapshot
  <1>6. [[s EXCEPT !.task = X] EXCEPT !.task = Y] = [s EXCEPT !.task = Y]
    BY TaskTwice, Zenon
  <1>7. OneMoved(p, t, x) = [p EXCEPT !.task = [p.task EXCEPT ![t] = b]]
    BY <1>0, Zenon DEF OneMoved
  <1> QED BY <1>3, <1>4, <1>5, <1>6, <1>7, Zenon

\* They may all move.
LEMMA MovedInStep ==
  ASSUME NEW s, InStep(s), NEW D \in SUBSET Won(s), NEW x \in TaskState
  PROVE  /\ InStep(MovedTo(s, D, x)) /\ MovedTo(s, D, x).attempt = s.attempt
         /\ MovedTo(s, D, x).epoch = s.epoch
         /\ \A u \in D : MovedTo(s, D, x).task[u].state = x
  <1> SUFFICES ASSUME NEW r, r = MovedTo(s, D, x), NEW b, b = [state |-> x, why |-> "none"],
                      NEW X, X = [u \in Task |-> IF u \in D THEN b ELSE s.task[u]]
               PROVE  /\ InStep(r) /\ r.attempt = s.attempt /\ r.epoch = s.epoch
                      /\ \A u \in D : r.task[u].state = x
    OBVIOUS
  <1>1. s \in AnySnapshot /\ b \in [state : TaskState, why : Why]
    BY DEF InStep, Why
  <1>0. D \in SUBSET Task /\ \A t \in D : Len(s.attempt[t]) > 0 /\ LastOf(s, t).state = "SUCCEEDED"
    BY DEF Won
  <1>2. X \in [Task -> [state : TaskState, why : Why]] /\ r = [s EXCEPT !.task = X]
    BY <1>1 DEF AnySnapshot, MovedTo
  <1>3. r \in AnySnapshot
    BY <1>1, <1>2, RecordTask
  <1>4. r.attempt = s.attempt /\ r.epoch = s.epoch /\ r.task = X
    BY <1>1, <1>2, RecordTask
  <1>5. ASSUME NEW u \in Task PROVE FitsIn(r, u)
    <2>1. FitsIn(s, u)
      BY DEF InStep
    <2>2. Len(r.attempt[u]) > 0 => Fits(LastOf(r, u), r.task[u].state)
      <3>1. CASE u \in D
        BY <1>0, <1>4, <3>1 DEF LastOf, Fits, Abandoned
      <3>2. CASE u \notin D
        BY <1>4, <2>1, <3>2 DEF LastOf, FitsIn
      <3> QED BY <3>1, <3>2
    <2> QED BY <1>4, <2>1, <2>2 DEF FitsIn
  <1>6. \A u \in D : r.task[u].state = x
    <2>1. \A u \in D : X[u] = b
      BY <1>0, Zenon
    <2>2. b.state = x
      OBVIOUS
    <2> QED BY <1>4, <2>1, <2>2, Zenon
  <1> QED BY <1>3, <1>4, <1>5, <1>6 DEF InStep

\* One more of them moves.
LEMMA MovedOn ==
  ASSUME NEW s, InStep(s), s.epoch = k.epoch, NEW D \in SUBSET Task, NEW t \in Task, t \notin D,
         NEW type, NEW from, NEW to, <<type, from, to>> \in TaskMoves,
         to \in {"STAGED", "PROMOTED", "VERIFIED"}, s.task[t].state = from,
         NEW e, e = TaskMove(type, t, from, to, "none")
  PROVE  Goes(MovedTo(s, D, to), e, MovedTo(s, D \cup {t}, to))
  <1> SUFFICES ASSUME NEW p, p = MovedTo(s, D, to), NEW q, q = MovedTo(s, D \cup {t}, to)
               PROVE  Goes(p, e, q)
    OBVIOUS
  <1>1. s \in AnySnapshot
    BY DEF InStep
  <1>2. /\ e.subject = "task" /\ e.type = type /\ e.from = from /\ e.to = to /\ e.task = t
        /\ e.epoch = k.epoch
    BY DEF TaskMove
  <1>3. p.task[t].state = from /\ p.epoch = k.epoch
    BY <1>1 DEF MovedTo, AnySnapshot
  <1>4. TakesIn(p, e) /\ AfterIn(p, e) = TaskFold(p, e)
    BY <1>2, <1>3 DEF TakesIn, AfterIn, Accepts, Fold, TaskAccepts
  <1>5. TaskFold(p, e) = OneMoved(p, t, to)
    BY <1>2 DEF TaskFold, OneMoved
  <1>6. OneMoved(p, t, to) = q
    BY <1>1, MovedOnce
  <1> QED BY <1>4, <1>5, <1>6 DEF Goes

\* They move one after the other.
LEMMA MovedLeads ==
  ASSUME NEW s, InStep(s), s.epoch = k.epoch, NEW n \in Nat, NEW o \in [1..n -> Won(s)],
         IsInjective(o), NEW type, NEW from, NEW to, <<type, from, to>> \in TaskMoves,
         to \in {"STAGED", "PROMOTED", "VERIFIED"},
         \A i \in 1..n : s.task[o[i]].state = from
  PROVE  \E r : AllMoved(s, type, o, n, from, to, r)
  <1> SUFFICES ASSUME NEW es, es = [i \in 1..n |-> TaskMove(type, o[i], from, to, "none")]
               PROVE  \E r : /\ Leads(s, es, r) /\ InStep(r)
                             /\ r.epoch = s.epoch /\ r.attempt = s.attempt
                             /\ \A i \in 1..n : r.task[o[i]].state = to
    BY DEF AllMove, AllMoved
  <1>1. PICK D \in [1..(n + 1) -> SUBSET Won(s)] :
          /\ D[1] = {} /\ \A i \in 1..n : D[i + 1] = D[i] \cup {o[i]} /\ o[i] \notin D[i]
          /\ \A i \in 1..n : o[i] \in D[n + 1]
    <2> DEFINE D == [i \in 1..(n + 1) |-> {o[j] : j \in 1..(i - 1)}]
    <2>1. \A i \in 1..(n + 1) : \A j \in 1..(i - 1) : j \in 1..n
      OBVIOUS
    <2>2. D \in [1..(n + 1) -> SUBSET Won(s)]
      BY <2>1
    <2>3. D[1] = {}
      OBVIOUS
    <2>4. ASSUME NEW i \in 1..n PROVE D[i + 1] = D[i] \cup {o[i]} /\ o[i] \notin D[i]
      <3>1. 1..((i + 1) - 1) = 1..(i - 1) \cup {i}
        OBVIOUS
      <3>2. i \in 1..(n + 1) /\ i + 1 \in 1..(n + 1)
        OBVIOUS
      <3> QED BY <2>1, <3>1, <3>2 DEF IsInjective
    <2>5. \A i \in 1..n : o[i] \in D[n + 1]
      OBVIOUS
    <2> HIDE DEF D
    <2> QED BY <2>2, <2>3, <2>4, <2>5
  <1>2. Won(s) \in SUBSET Task
    BY DEF Won
  <1>3. PICK f : f = [i \in 1..(n + 1) |-> MovedTo(s, D[i], to)]
    OBVIOUS
  <1>4. \A i \in 1..(n + 1) : f[i] = MovedTo(s, D[i], to)
    BY <1>3
  <1>5. ASSUME NEW i \in 1..(n + 1)
        PROVE  /\ InStep(f[i]) /\ f[i].attempt = s.attempt /\ f[i].epoch = s.epoch
               /\ f[i] \in AnySnapshot /\ \A u \in D[i] : f[i].task[u].state = to
    <2>1. to \in TaskState
      BY DEF TaskState
    <2>2. f[i] = MovedTo(s, D[i], to)
      BY <1>4
    <2>3. PICK T \in SUBSET Won(s), x \in TaskState : T = D[i] /\ x = to
      BY <2>1
    <2>4. /\ InStep(MovedTo(s, T, x)) /\ MovedTo(s, T, x).attempt = s.attempt
          /\ MovedTo(s, T, x).epoch = s.epoch
          /\ \A u \in T : MovedTo(s, T, x).task[u].state = x
      BY MovedInStep
    <2> QED BY <2>2, <2>3, <2>4 DEF InStep
  <1>6. ASSUME NEW i \in 1..n
        PROVE  Goes(f[i], es[i], f[i + 1])
    <2>1. /\ D[i + 1] = D[i] \cup {o[i]} /\ o[i] \notin D[i] /\ o[i] \in Task
          /\ i \in 1..(n + 1) /\ i + 1 \in 1..(n + 1)
      BY <1>1, <1>2
    <2>2. f[i] = MovedTo(s, D[i], to) /\ f[i + 1] = MovedTo(s, D[i + 1], to) /\ D[i] \in SUBSET Task
      BY <1>2, <1>4, <2>1
    <2>3. es[i] = TaskMove(type, o[i], from, to, "none") /\ s.task[o[i]].state = from
      OBVIOUS
    <2>4. Goes(MovedTo(s, D[i], to), es[i], MovedTo(s, D[i] \cup {o[i]}, to))
      BY <2>1, <2>2, <2>3, MovedOn
    <2> QED BY <2>1, <2>2, <2>4
  <1>7. f[1] = s
    <2>1. s \in AnySnapshot
      BY DEF InStep
    <2>2. MovedTo(s, {}, to) = s
      BY <2>1 DEF MovedTo, AnySnapshot
    <2>3. f[1] = MovedTo(s, D[1], to)
      BY <1>4
    <2> QED BY <1>1, <2>2, <2>3
  <1>8. Len(es) = n
    OBVIOUS
  <1>9. \A i \in 1..(n + 1) : f[i] \in AnySnapshot
    BY <1>5 DEF InStep
  <1>10. f \in [1..(n + 1) -> AnySnapshot] /\ n + 1 \in 1..(n + 1)
    BY <1>3, <1>9
  <1>11. Leads(s, es, f[n + 1])
    BY <1>5, <1>6, <1>7, <1>8, <1>10 DEF Leads
  <1>12. \A i \in 1..n : f[n + 1].task[o[i]].state = to
    BY <1>1, <1>5, <1>10
  <1> QED BY <1>5, <1>10, <1>11, <1>12

\* The results of a wave are landed.
LEMMA CourseLand ==
  ASSUME IInv, CourseInv, Land
  PROVE  CourseInv'
  <1> SUFFICES ASSUME NEW o, o = SetToSeq(Successful), NEW n, n = Len(o), NEW u, NEW v, NEW w,
                      u = AllMove("RESULT_STAGED", o, n, "DISPATCHED", "STAGED"),
                      v = AllMove("PROMOTION_OBSERVED", o, n, "STAGED", "PROMOTED"),
                      w = AllMove("TASK_VERIFIED", o, n, "PROMOTED", "VERIFIED")
               PROVE  CourseInv'
    OBVIOUS
  <1>1. todo' = (u \o v) \o w
    BY DEF Land, Later, AllMove
  <1>2. /\ pc = "accept" /\ pc' \in {"wave", "ending"} /\ todo = <<>> /\ fresh /\ left = {}
        /\ k' = k
    BY DEF Land, At, Goto, journal
  <1>3. InStep(k) /\ (\A t \in wave : Judged(k, t)) /\ \A s : Arrived(s)'
    BY <1>2, ArrivedNow DEF Arrived
  <1>4. \A t \in Successful : t \in Won(k) /\ k.task[t].state = "DISPATCHED"
    BY <1>3 DEF Judged, Successful, LastOf, Latest, Won, IInv, DType
  <1>5. /\ n \in Nat /\ o \in [1..n -> Won(k)] /\ IsInjective(o)
        /\ \A i \in 1..n : k.task[o[i]].state = "DISPATCHED"
    <2>1. Successful \in SUBSET Task
      BY DEF Successful, IInv, DType
    <2>2. o \in Seq(Task) /\ IsInjective(o) /\ \A i \in 1..Len(o) : o[i] \in Successful
      BY <2>1, TasksInOrder
    <2>3. n \in Nat /\ DOMAIN o = 1..n /\ o = [i \in 1..n |-> o[i]]
      BY <2>2, LenProperties
    <2>4. \A i \in 1..n : o[i] \in Won(k)
      BY <1>4, <2>2
    <2>5. o \in [1..n -> Won(k)]
      BY <2>3, <2>4, Zenon
    <2> QED BY <1>4, <2>2, <2>3, <2>5
  <1> HIDE DEF Successful
  <1>6. \E p : AllMoved(k, "RESULT_STAGED", o, n, "DISPATCHED", "STAGED", p)
    <2>1. n \in Nat /\ o \in [1..n -> Won(k)] /\ IsInjective(o)
      BY <1>5
    <2>2. /\ <<"RESULT_STAGED", "DISPATCHED", "STAGED">> \in TaskMoves /\ k.epoch = k.epoch
          /\ \A i \in 1..n : k.task[o[i]].state = "DISPATCHED"
      BY <1>5, TaskMoveIn
    <2> QED BY <1>3, <2>1, <2>2, MovedLeads
  <1>7. PICK p : /\ Leads(k, u, p) /\ InStep(p) /\ p.epoch = k.epoch /\ p.attempt = k.attempt
                 /\ \A i \in 1..n : p.task[o[i]].state = "STAGED"
    BY <1>6 DEF AllMoved
  <1>8. Won(p) = Won(k)
    BY <1>7 DEF Won, LastOf
  <1>9. PICK q : /\ Leads(p, v, q) /\ InStep(q) /\ q.epoch = p.epoch /\ q.attempt = p.attempt
                 /\ \A i \in 1..n : q.task[o[i]].state = "PROMOTED"
    <2>1. n \in Nat /\ o \in [1..n -> Won(p)] /\ IsInjective(o)
      BY <1>5, <1>8
    <2>2. <<"PROMOTION_OBSERVED", "STAGED", "PROMOTED">> \in TaskMoves
      BY TaskMoveIn
    <2>3. \E q : AllMoved(p, "PROMOTION_OBSERVED", o, n, "STAGED", "PROMOTED", q)
      BY <1>7, <2>1, <2>2, MovedLeads
    <2> QED BY <2>3 DEF AllMoved
  <1>10. Won(q) = Won(k)
    BY <1>7, <1>9 DEF Won, LastOf
  <1>11. PICK r : Leads(q, w, r)
    <2>1. n \in Nat /\ o \in [1..n -> Won(q)] /\ IsInjective(o) /\ q.epoch = k.epoch
      BY <1>5, <1>7, <1>9, <1>10
    <2>2. <<"TASK_VERIFIED", "PROMOTED", "VERIFIED">> \in TaskMoves
      BY TaskMoveIn
    <2>3. \E r : AllMoved(q, "TASK_VERIFIED", o, n, "PROMOTED", "VERIFIED", r)
      BY <1>9, <2>1, <2>2, MovedLeads
    <2> QED BY <2>3 DEF AllMoved
  <1>12. \E E : u \in Seq(E) /\ v \in Seq(E) /\ w \in Seq(E)
    <2> DEFINE E == {TaskMove("RESULT_STAGED", o[i], "DISPATCHED", "STAGED", "none") : i \in 1..n}
                    \cup {TaskMove("PROMOTION_OBSERVED", o[i], "STAGED", "PROMOTED", "none") :
                            i \in 1..n}
                    \cup {TaskMove("TASK_VERIFIED", o[i], "PROMOTED", "VERIFIED", "none") :
                            i \in 1..n}
    <2>1. u \in [1..n -> E] /\ v \in [1..n -> E] /\ w \in [1..n -> E]
      BY DEF AllMove
    <2> HIDE DEF E
    <2>2. u \in Seq(E) /\ v \in Seq(E) /\ w \in Seq(E)
      <3>1. n \in Nat
        BY <1>5
      <3> QED BY <2>1, <3>1, SeqDef
    <2> QED BY <2>2
  <1>13. PICK E : u \in Seq(E) /\ v \in Seq(E) /\ w \in Seq(E)
    BY <1>12
  <1> SUFFICES ASSUME NEW a, a = u, NEW b, b = v, NEW c, c = w
               PROVE  CourseInv'
    OBVIOUS
  <1>14. Leads(k, a \o b, q) /\ a \o b \in Seq(E)
    BY <1>7, <1>9, <1>13, LeadsJoin, ConcatProperties
  <1>15. Leads(k, (a \o b) \o c, r)
    BY <1>11, <1>13, <1>14, LeadsJoin
  <1> QED BY <1>1, <1>2, <1>3, <1>15 DEF CourseInv

\* Nothing has been done at first.
LEMMA CourseInit ==
  ASSUME Init
  PROVE  CourseInv
  <1>1. /\ \A t \in Task : k.attempt[t] = <<>> /\ k.task[t].state = "APPROVED"
        /\ fresh = FALSE
    BY DEF Init
  <1>2. k \in AnySnapshot
    BY IInvInit DEF IInv, DType
  <1>3. ASSUME NEW t \in Task PROVE FitsIn(k, t)
    <2>1. Len(k.attempt[t]) = 0 /\ DOMAIN k.attempt[t] = {}
      BY <1>1
    <2> QED BY <2>1 DEF FitsIn
  <1> QED BY <1>1, <1>2, <1>3 DEF CourseInv, InStep

\* Every step keeps the course.
LEMMA CourseNext ==
  ASSUME IInv, CourseInv, Next
  PROVE  CourseInv'
  <1>1. CASE Start
    BY <1>1, CourseStart
  <1>2. CASE Coordinator
    <2>1. CASE AppendNext
      BY <2>1, CourseAppend
    <2>2. CASE GivesUp \/ GoesOn
      BY <2>2, CourseStop
    <2>3. CASE \/ Cancel \/ \E p \in pending : ReconcileApplied(p) \/ ReconcileRetry(p)
               \/ \E id \in Attempts : TakeBack(id)
      BY <2>3, CourseEffect
    <2>4. CASE ReserveResumed \/ Reserved \/ Prepared \/ Collect
      BY <2>4, CourseWave
    <2>5. CASE Recheck \/ Acquired \/ \E id \in Attempts : Reclaim(id)
      BY <2>5, CourseRecheck, CourseAcquired, CourseReclaim
    <2>6. CASE \E t \in Task : ReserveTask(t) \/ Prepare(t) \/ Dispatch(t) \/ Accept(t)
      BY <2>6, CourseReserve, CoursePrepare, CourseDispatch, CourseAccept
    <2>7. CASE ReserveChannel \/ SendTaskPacket \/ Land
      BY <2>7, CourseChannel, CoursePacket, CourseLand
    <2> QED
      BY <1>2, <2>1, <2>2, <2>3, <2>4, <2>5, <2>6, <2>7, Zenon
        DEF Coordinator, RecoverAbsent, GivesUp, GoesOn
  <1>3. CASE ResumeCommand
    BY <1>3, CourseResume
  <1>4. CASE Environment
    <2>1. CASE Crash
      BY <2>1, CourseStop DEF GivesUp
    <2>2. CASE \E id \in live : WorkerWrites(id) \/ WorkerEnds(id)
      BY <2>2, CourseFrame DEF WorkerWrites, WorkerEnds, journal, process
    <2> QED BY <1>4, <2>1, <2>2 DEF Environment
  <1> QED BY <1>1, <1>2, <1>3, <1>4 DEF Next

\* In every state the attempts fit their tasks, and the events that the
\* coordinator still has to append lead, each in turn accepted by the kernel or a
\* RUN_BLOCKED of a run that is blocked, to the snapshot it counts on.
THEOREM CourseAlways == Spec => [](IInv /\ CourseInv)
  <1>1. Init => IInv /\ CourseInv
    BY IInvInit, CourseInit
  <1>2. IInv /\ CourseInv /\ [Next]_vars => IInv' /\ CourseInv'
    <2>1. ASSUME IInv, CourseInv, UNCHANGED vars PROVE CourseInv'
      BY <2>1, CourseFrame DEF vars, journal, process
    <2> QED BY <2>1, IInvNext, IInvStutter, CourseNext
  <1> QED BY <1>1, <1>2, PTL DEF Spec

\* A task and its attempts stay in step through every stop between two of the
\* events that move them (fold_attempt and fold_task of state_kernel.py, and the
\* order in which coordinator.py and production.py append).
THEOREM AlignedAlways == Spec => []Aligned
  <1>1. CourseInv => Aligned
    <2> SUFFICES ASSUME InStep(k), NEW t \in Task, NEW n \in DOMAIN k.attempt[t],
                        NEW s, s = k.attempt[t][n].state
                 PROVE  /\ s \notin Terminal => n = Latest(t)
                        /\ s \in {"RUNNING", "CANCEL_REQUESTED"} => State(t) = "DISPATCHED"
                        /\ s = "DISPATCH_REQUESTED" => State(t) = "LEASED"
                        /\ s = "RESERVED" => State(t) \in {"LEASED", "BLOCKED"}
                        /\ n = Latest(t) /\ State(t) \in {"STAGED", "PROMOTED", "VERIFIED"}
                             => s = "SUCCEEDED"
      BY Zenon DEF CourseInv, Aligned
    <2>1. FitsIn(k, t) /\ k.attempt[t] \in Seq(AnAttempt)
      BY DEF InStep, AnySnapshot
    <2>2. /\ s \notin Terminal => n = Latest(t)
          /\ n = Latest(t) => Fits(k.attempt[t][n], State(t))
      BY <2>1 DEF FitsIn, Latest, LastOf, State
    <2> QED BY <2>2 DEF Fits, Terminal
  <1> QED BY <1>1, CourseAlways, PTL

\* The only event of a coordinator that the kernel rejects is a RUN_BLOCKED of a
\* run that is blocked already (_append_payload appends before it folds).
THEOREM OnlyRunBlockedRejected ==
  Spec => [][broken = "no" /\ broken' = "kernel" =>
               Head(todo).type = "RUN_BLOCKED" /\ k.status # "RUNNING"]_vars
  <1>1. ASSUME IInv, CourseInv, [Next]_vars, broken = "no", broken' = "kernel"
        PROVE  Head(todo).type = "RUN_BLOCKED" /\ k.status # "RUNNING"
    <2>1. AppendNext
      BY <1>1 DEF Next, Coordinator, RecoverAbsent, ResumeCommand, Environment, vars, journal,
         Start, Conflict, Leave, ReconcileApplied, ReconcileRetry, ReconcileBlocked, Reconciled,
         TakeBack, TakeBackCancelled, TakeBackBlocked, Reclaim, Cancel, Recheck, TookBack,
         ReclaimBlocked,
         Reclaimed, Acquired, AcquireBlocked, ReserveResumed, Reserved, NothingToReserve,
         ReserveTask, Prepare, Dispatch, Accept, Prepared, ReserveChannel, SendTaskPacket,
         Child, Collect, CollectBlocked, Land, ResumeProof, ResumeRetry, ResumeRun, Resume,
         Crash, WorkerWrites, WorkerEnds
    <2>2. todo # <<>> /\ fresh /\ todo \in Seq(Event) /\ Head(todo) = todo[1]
      BY <1>1, <2>1 DEF AppendNext, IInv, DType
    <2>3. PICK r : Leads(k, todo, r)
      BY <1>1, <2>2 DEF CourseInv
    <2>4. PICK q : Goes(k, todo[1], q)
      BY <2>2, <2>3, LeadsHead
    <2>5. ~TakesIn(k, todo[1])
      BY <1>1, <2>1, <2>2, TakesJournal DEF AppendNext, Commit
    <2> QED BY <2>2, <2>4, <2>5 DEF Goes
  <1> QED BY <1>1, CourseAlways, PTL DEF Spec

------------------------------------------------------------------------------
(* One unknown outcome.                                                     *)

\* Where no start is under way, no outcome is unknown and no resume is incomplete.
LEMMA Calm ==
  ASSUME IInv, DoubtInv, pc \notin Unsettled \/ ~Hangs
  PROVE  ~AnyLapsed /\ recovery = NoRecovery
  <1>1. ~AnyLapsed
    BY DEF DoubtInv, HangInv
  <1>2. ASSUME recovery # NoRecovery PROVE FALSE
    <2>1. recovery.id \in AnId
      BY <1>2 DEF IInv, DType
    <2>2. Known(recovery.id) /\ Of(recovery.id).state = "OUTCOME_UNKNOWN"
      BY <2>1 DEF IInv, ResolvedInv
    <2> QED BY <1>1, <2>2, KnownIs DEF AnyLapsed, Lapsed
  <1> QED BY <1>1, <1>2

\* The effects are as they were, and no attempt moves.
LEMMA DoubtFrame ==
  ASSUME DoubtInv, UNCHANGED <<pending, doubted, done>>, k'.attempt = k.attempt,
         pc' \in Unsettled \/ pc \notin Unsettled \/ pending = {},
         UNCHANGED todo \/ \A i \in DOMAIN todo' : Plain(todo'[i]),
         AskInv', RecoveryInv'
  PROVE  DoubtInv'
  <1>1. /\ \A t, n : Lapsed(t, n)' <=> Lapsed(t, n)
        /\ (Hangs' <=> Hangs) /\ (AnyLapsed' <=> AnyLapsed)
    BY DEF Lapsed, S, Hangs, Withheld, AnyLapsed
  <1>2. HangInv'
    <2>1. pending = {} => ~Hangs
      BY DEF Hangs
    <2> QED BY <1>1, <2>1 DEF DoubtInv, HangInv
  <1>3. ChannelInv'
    BY DEF DoubtInv, ChannelInv, S
  <1>4. LapseInv' /\ AnswerInv'
    <2>1. CASE UNCHANGED todo
      <3>1. LapseInv'
        BY <1>1, <2>1 DEF DoubtInv, LapseInv, Doubts
      <3>2. AnswerInv'
        BY <2>1 DEF DoubtInv, AnswerInv
      <3> QED BY <3>1, <3>2
    <2>2. CASE \A i \in DOMAIN todo' : Plain(todo'[i])
      BY <2>2 DEF LapseInv, AnswerInv, Plain
    <2> QED BY <2>1, <2>2
  <1> QED BY <1>2, <1>3, <1>4 DEF DoubtInv

\* The steps that stop the coordinator, or go on without an event.
LEMMA DoubtQuiet ==
  ASSUME IInv, DoubtInv,
         GivesUp \/ GoesOn \/ ReserveResumed \/ Reserved \/ Prepared \/ Collect
  PROVE  DoubtInv'
  <1>1. /\ UNCHANGED <<k, pending, doubted, done, broken, recovery, fresh>> /\ todo' = <<>>
        /\ pc' \notin Asking
        /\ pc' \in Unsettled \/ pc \notin Unsettled \/ pending = {}
    BY GivesUpIs
       DEF GoesOn, Reconciled, TookBack, ReserveResumed, Reserved, Prepared, Collect,
           TakeBackCancelled, At, Goto, NothingPending, Asking, Unsettled, journal, resume, world
  <1>2. DOMAIN todo' = {}
    BY <1>1
  <1>3. AskInv' /\ RecoveryInv'
    BY <1>1 DEF AskInv, RecoveryInv, DoubtInv, Asking
  <1> QED BY <1>1, <1>2, <1>3, DoubtFrame

\* The steps that set out to append events of other kinds.
LEMMA DoubtEvents ==
  ASSUME IInv, DoubtInv, IInv',
         \/ Recheck \/ Acquired \/ Land
         \/ \E id \in Attempts : Reclaim(id)
         \/ \E t \in Task : ReserveTask(t) \/ Prepare(t) \/ Accept(t)
  PROVE  DoubtInv'
  <1>1. /\ UNCHANGED <<k, pending, doubted, done, broken, recovery>> /\ todo = <<>>
        /\ pc \notin Unsettled
        /\ pc' \in {"takeback", "reclaim", "wave", "reserve", "prepare", "accept", "ending"}
    BY DEF Recheck, Acquired, Reclaimed, Land, Reclaim, ReserveTask, Prepare, Accept, At,
           Goto, Unsettled, journal, resume, world
  <1>2. AskInv' /\ RecoveryInv'
    BY <1>1, Calm DEF AskInv, RecoveryInv, DoubtInv, Asking
  <1>3. CASE pc' # "ending"
    <2>1. ASSUME NEW i \in DOMAIN todo' PROVE Plain(todo'[i])
      <3>1. AttemptEventOK(i)' /\ EffectEventOK(i)'
        BY DEF IInv, TodoInv
      <3> QED BY <1>1, <1>3, <3>1
              DEF AttemptEventOK, EffectEventOK, Plain, Lapses, Answers, Asking
    <2> QED BY <1>1, <1>2, <2>1, DoubtFrame
  <1>4. ASSUME \A i \in DOMAIN todo' : todo'[i].subject \in {"run", "task"}
        PROVE  DoubtInv'
    <2>1. \A i \in DOMAIN todo' : Plain(todo'[i])
      BY <1>4 DEF Plain, Lapses, Answers
    <2> QED BY <1>1, <1>2, <2>1, DoubtFrame
  <1>5. CASE Recheck /\ pc' = "ending"
    <2>1. UNCHANGED todo
      BY <1>5 DEF Recheck, Goto
    <2> QED BY <1>1, <1>2, <2>1, DoubtFrame
  <1>6. CASE Land
    <2>1. \A i \in DOMAIN todo' : todo'[i].subject = "task"
      BY <1>6, LandEvents DEF Landed
    <2> QED BY <1>4, <2>1
  <1>7. ASSUME NEW t \in Task, Prepare(t), pc' = "ending"
        PROVE  DoubtInv'
    <2>1. PICK why \in Why : todo' = BlockRun(t, why)
      BY <1>1, <1>7, EventKinds DEF Prepare, Later, IInv, Unsettled
    <2>2. /\ DOMAIN todo' = 1..Len(todo') /\ Len(todo') \in {1, 2} /\ todo'[1].subject = "task"
          /\ Len(todo') = 2 => todo'[2].subject = "run"
      BY <2>1, BlockRunIs DEF IInv
    <2> QED BY <1>4, <2>2
  <1>8. pc' = "ending" =>
          \/ Recheck \/ Land
          \/ \E t \in Task : Prepare(t)
    BY DEF Acquired, Reclaim, ReserveTask, Accept, Goto, At
  <1> QED BY <1>3, <1>5, <1>6, <1>7, <1>8

\* A start, a resume, and what workers do.
LEMMA DoubtOutside ==
  ASSUME IInv, DoubtInv,
         \/ Start \/ ResumeCommand
         \/ \E id \in live : WorkerWrites(id) \/ WorkerEnds(id)
  PROVE  DoubtInv'
  <1>1. k \in AnySnapshot
    BY DEF IInv, DType
  <1>2. CASE Start
    <2>1. /\ UNCHANGED <<pending, doubted, done, broken>> /\ todo' = <<>> /\ pc' = "reconcile"
          /\ k' = [k EXCEPT !.epoch = k.epoch + 1]
      BY <1>2 DEF Start, FoldLease, world
    <2>2. k'.attempt = k.attempt /\ DOMAIN todo' = {}
      BY <1>1, <2>1 DEF AnySnapshot
    <2>3. AskInv' /\ RecoveryInv'
      BY <2>1 DEF AskInv, RecoveryInv, DoubtInv, Asking
    <2> QED BY <2>1, <2>2, <2>3, DoubtFrame DEF Unsettled
  <1>3. CASE ResumeCommand
    <2>1. UNCHANGED <<pending, doubted, done, broken, pc, todo, at>> /\ fresh' = FALSE
      BY <1>3 DEF ResumeCommand, ResumeProof, ResumeRetry, ResumeRun, Resume, world
    <2>2. k'.attempt = k.attempt
      <3>1. CASE \E id \in Attempts : ResumeProof(id)
        BY <3>1 DEF ResumeProof
      <3>2. ASSUME NEW e, k' = Fold(k, e), e.subject = "task"
            PROVE  k'.attempt = k.attempt
        BY <1>1, <3>2 DEF Fold, TaskFold, AnySnapshot
      <3>3. ASSUME NEW e, k' = Fold(k, e), e.subject = "run"
            PROVE  k'.attempt = k.attempt
        BY <1>1, <3>3 DEF Fold, RunFold, AnySnapshot
      <3>4. CASE ResumeRetry
        <4>1. PICK e : k' = Fold(k, e) /\ e.subject = "task"
          BY <3>4 DEF ResumeRetry, TaskMove
        <4> QED BY <3>2, <4>1
      <3>5. CASE ResumeRun
        <4>1. PICK e : k' = Fold(k, e) /\ e.subject = "run"
          BY <3>5 DEF ResumeRun, RunMove
        <4> QED BY <3>3, <4>1
      <3> QED BY <1>3, <3>1, <3>4, <3>5 DEF ResumeCommand
    <2>3. AskInv' /\ RecoveryInv'
      BY <2>1 DEF AskInv, RecoveryInv, DoubtInv
    <2> QED BY <2>1, <2>2, <2>3, DoubtFrame
  <1>4. CASE \E id \in live : WorkerWrites(id) \/ WorkerEnds(id)
    <2>1. UNCHANGED <<k, pending, doubted, done, broken, pc, todo, at, recovery, fresh>>
      BY <1>4 DEF WorkerWrites, WorkerEnds, journal, resume, process
    <2>2. AskInv' /\ RecoveryInv'
      BY <2>1 DEF AskInv, RecoveryInv, DoubtInv
    <2> QED BY <2>1, <2>2, DoubtFrame
  <1> QED BY <1>2, <1>3, <1>4

\* The coordinator asks for the cancellation of a turn.
LEMMA DoubtTakeBack ==
  ASSUME IInv, DoubtInv, NEW id \in Attempts, TakeBack(id)
  PROVE  DoubtInv'
  <1>1. /\ UNCHANGED <<k, pending, doubted, done, broken, recovery>> /\ pc = "takeback"
        /\ pc' = "cancel" /\ todo' = <<Ask("cancel", id)>>
    BY DEF TakeBack, At, Goto, Later, journal, resume, world
  <1>2. todo' # <<>> /\ \A i \in DOMAIN todo' : Plain(todo'[i])
    BY <1>1 DEF Plain, Lapses, Answers, Ask
  <1>3. AskInv' /\ RecoveryInv'
    BY <1>1, <1>2, Calm DEF AskInv, RecoveryInv, DoubtInv, Unsettled
  <1> QED BY <1>1, <1>2, <1>3, DoubtFrame DEF Unsettled

\* It dispatches a task: no effect of a dispatch of this epoch has been carried out
\* for an attempt that is reserved.
LEMMA DoubtDispatch ==
  ASSUME IInv, CourseInv, DoubtInv, NEW t \in Task, Dispatch(t)
  PROVE  DoubtInv'
  <1> SUFFICES ASSUME NEW n, n = Latest(t), NEW id, id = IdOf(t, n), NEW e1, NEW e2,
                      e1 = AttemptMove("DISPATCH_REQUESTED", id, "RESERVED",
                                       "DISPATCH_REQUESTED", "none"),
                      e2 = Ask("reserve", id)
               PROVE  DoubtInv'
    OBVIOUS
  <1>1. /\ UNCHANGED <<k, pending, doubted, done, broken, recovery>> /\ pc = "dispatch"
        /\ pc' = "channel" /\ todo' = <<e1, e2>> /\ at' = id /\ t \in left /\ fresh /\ todo = <<>>
    BY DEF Dispatch, At, Goto, Later, journal, resume, world
  <1>2. todo' # <<>> /\ \A i \in DOMAIN todo' : Plain(todo'[i])
    <2>1. Plain(e1) /\ Plain(e2)
      BY DEF Plain, Lapses, Answers, Ask, AttemptMove
    <2>2. DOMAIN todo' = {1, 2} /\ todo'[1] = e1 /\ todo'[2] = e2
      BY <1>1
    <2> QED BY <2>1, <2>2
  <1>3. n \in DOMAIN k.attempt[t] /\ S(t, n) = "RESERVED"
    <2>1. Waiting(k, t)
      BY <1>1, ArrivedNow DEF Arrived
    <2>2. n > 0 /\ S(t, n) = "RESERVED"
      BY <2>1 DEF Waiting, LastOf, S, Latest
    <2> QED BY <2>2, AttemptsKnown DEF IInv
  <1>4. /\ id \in AnId /\ Known(id) /\ Of(id).state = "RESERVED" /\ id[1] = t /\ id[2] = n
        /\ id[3] = k.attempt[t][n].epoch /\ ~(id[3] < k.epoch)
    <2>1. id \in AnId /\ Known(id) /\ id[1] = t /\ id[2] = n /\ id[3] = k.attempt[t][n].epoch
      BY <1>3, AttemptsKnown DEF IInv, IdOf
    <2>2. ~(k.attempt[t][n].epoch < k.epoch)
      BY <1>1, <1>3 DEF IInv, AttemptInv, Kept, Waves
    <2> QED BY <1>3, <2>1, <2>2 DEF Of, S
  <1>5. <<id, "send">> \notin done
    <2>1. ~CalledOff(id)
      BY <1>4 DEF IInv, CancelInv, CalledOff
    <2>2. Of(id).state \notin Outcomes
      BY <1>4 DEF Outcomes
    <2> QED BY <1>4, <2>1, <2>2 DEF IInv, SentInv, Sent
  <1>6. <<id, "reserve">> \notin done
    BY <1>3, <1>4 DEF DoubtInv, ChannelInv
  <1>7. AskInv' /\ RecoveryInv'
    BY <1>1, <1>2, <1>5, <1>6, Calm DEF AskInv, RecoveryInv, DoubtInv, Unsettled
  <1> QED BY <1>1, <1>2, <1>7, DoubtFrame DEF Unsettled

\* The coordinator learns of an effect, while no outcome is unknown.
LEMMA DoubtCalm ==
  ASSUME DoubtInv, ~AnyLapsed, recovery = NoRecovery,
         UNCHANGED <<k, pending, doubted, broken, recovery>>,
         LapseInv', AnswerInv', AskInv', ChannelInv'
  PROVE  DoubtInv'
  <1>1. HangInv'
    BY DEF DoubtInv, HangInv, AnyLapsed, Lapsed, S
  <1>2. RecoveryInv'
    BY DEF DoubtInv, RecoveryInv
  <1> QED BY <1>1, <1>2 DEF DoubtInv

\* A start settles the open effect: it is not one that nobody can settle.
LEMMA DoubtReconcile ==
  ASSUME IInv, DoubtInv, ~late', NEW p \in pending,
         ReconcileApplied(p) \/ ReconcileRetry(p)
  PROVE  DoubtInv'
  <1>1. /\ UNCHANGED <<k, pending, doubted, broken, recovery>> /\ pc' = "reconcile"
        /\ todo' = <<Tell(p[2], p[1], "APPLIED")>> /\ (p[2] # "cancel" => p \notin doubted)
        /\ p \in done \/ p[2] = "cancel"
        /\ done' = done \/ (done' = done \cup {p} /\ p[2] = "cancel")
    BY DEF ReconcileApplied, ReconcileRetry, At, Later, journal, resume, world
  <1>2. ~Hangs
    BY <1>1 DEF IInv, EffectInv, Hangs, Withheld
  <1>3. p \in AnEffect /\ p = <<p[1], p[2]>>
    BY DEF IInv, DType, AnEffect
  <1>4. LapseInv' /\ AnswerInv'
    <2> SUFFICES ASSUME NEW e, e = Tell(p[2], p[1], "APPLIED"), todo' = <<e>>
                 PROVE  LapseInv' /\ AnswerInv'
      BY <1>1
    <2>1. DOMAIN todo' = {1} /\ todo'[1] = e
      OBVIOUS
    <2>2. e.subject = "effect" /\ e.status = "APPLIED" /\ Part(e) = p /\ e.op = p[2]
      BY <1>3 DEF Tell, Part
    <2>3. LapseInv'
      BY <2>1, <2>2 DEF LapseInv, Lapses
    <2>4. AnswerInv'
      BY <1>1, <2>1, <2>2 DEF AnswerInv
    <2> QED BY <2>3, <2>4
  <1>5. AskInv'
    BY <1>1 DEF AskInv, Asking
  <1>6. ChannelInv'
    <2>1. \A id \in AnId : <<id, "reserve">> \in done' => <<id, "reserve">> \in done
      BY <1>1, <1>3
    <2> QED BY <1>1, <2>1 DEF DoubtInv, ChannelInv, S
  <1> QED BY <1>1, <1>2, <1>4, <1>5, <1>6, Calm, DoubtCalm

\* The provider answers a cancellation.
LEMMA DoubtCancel ==
  ASSUME IInv, DoubtInv, Cancel
  PROVE  DoubtInv'
  <1>1. PICK status \in {"APPLIED", "ABSENT", "UNKNOWN", "none"}, happens \in BOOLEAN :
          /\ done' = IF happens THEN done \cup {<<at, "cancel">>} ELSE done
          /\ todo' = IF status = "none" THEN <<>> ELSE <<Tell("cancel", at, status)>>
          /\ pc' = IF status = "APPLIED" THEN "recheck" ELSE "ending"
    BY DEF Cancel, Later, Goto
  <1>2. /\ pc = "cancel" /\ todo = <<>>
        /\ UNCHANGED <<k, pending, doubted, broken, recovery>>
    BY DEF Cancel, At, journal, resume
  <1>3. pending = {<<at, "cancel">>} /\ doubted = {}
    BY <1>2 DEF DoubtInv, AskInv, Asking, OpOf
  <1>4. ~AnyLapsed /\ recovery = NoRecovery
    BY <1>2, Calm DEF Unsettled
  <1>5. LapseInv' /\ AnswerInv'
    <2>1. CASE status = "none"
      <3>1. DOMAIN todo' = {}
        BY <1>1, <2>1
      <3> QED BY <3>1 DEF LapseInv, AnswerInv
    <2>2. CASE status # "none"
      <3> SUFFICES ASSUME NEW e, e = Tell("cancel", at, status), todo' = <<e>>
                   PROVE  LapseInv' /\ AnswerInv'
        BY <1>1, <2>2
      <3>1. DOMAIN todo' = {1} /\ todo'[1] = e
        OBVIOUS
      <3>2. e.subject = "effect" /\ e.op = "cancel" /\ Part(e) = <<at, "cancel">>
        BY DEF Tell, Part
      <3>3. LapseInv'
        BY <3>1, <3>2 DEF LapseInv, Lapses
      <3>4. AnswerInv'
        BY <1>2, <1>3, <3>1, <3>2 DEF AnswerInv
      <3> QED BY <3>3, <3>4
    <2> QED BY <2>1, <2>2
  <1>6. AskInv'
    BY <1>1 DEF AskInv, Asking
  <1>7. ChannelInv'
    <2>1. \A id \in AnId : <<id, "reserve">> \in done' => <<id, "reserve">> \in done
      BY <1>1
    <2> QED BY <1>2, <2>1 DEF DoubtInv, ChannelInv, S
  <1> QED BY <1>2, <1>4, <1>5, <1>6, <1>7, DoubtCalm

\* What the coordinator appends when a child effect was not applied, or when it was.
LEMMA ChildEvents ==
  ASSUME NEW op, NEW status \in {"APPLIED", "ABSENT", "UNKNOWN"},
         Tell(op, at, status) \in Event, NEW e2 \in Event, Plain(e2), NEW u, u = <<e2>>,
         todo' = <<Tell(op, at, status)>> \o
                   (IF status = "APPLIED" THEN u ELSE BlockUnknown(at, status))
  PROVE  /\ todo' # <<>> /\ 1 \in DOMAIN todo' /\ todo'[1] = Tell(op, at, status)
         /\ \A i \in DOMAIN todo' :
              /\ Answers(todo'[i]) => i = 1
              /\ Lapses(todo'[i]) => i = 3 /\ status # "APPLIED"
  <1> SUFFICES ASSUME NEW e1, e1 = Tell(op, at, status)
               PROVE  /\ todo' # <<>> /\ 1 \in DOMAIN todo' /\ todo'[1] = e1
                      /\ \A i \in DOMAIN todo' :
                           /\ Answers(todo'[i]) => i = 1
                           /\ Lapses(todo'[i]) => i = 3 /\ status # "APPLIED"
    OBVIOUS
  <1>1. ~Lapses(e1)
    BY DEF Lapses, Tell
  <1>2. CASE status = "APPLIED"
    <2>1. todo' = <<e1>> \o u /\ e1 \in Event /\ e2 \in Event
      BY <1>2
    <2>2. ASSUME NEW s, s = <<e1>> \o u
          PROVE  Len(s) = 2 /\ DOMAIN s = {1, 2} /\ s[1] = e1 /\ s[2] = e2
      BY <2>1, <2>2, Prefixed1
    <2>3. Len(todo') = 2 /\ DOMAIN todo' = {1, 2} /\ todo'[1] = e1 /\ todo'[2] = e2
      BY <2>1, <2>2
    <2> QED BY <1>1, <2>3 DEF Plain
  <1>3. CASE status # "APPLIED"
    <2> SUFFICES ASSUME NEW why, NEW f2, NEW f3, NEW f4, NEW f5, NEW w,
                        why = IF status = "UNKNOWN" THEN "WORKER_OUTCOME_UNKNOWN"
                              ELSE "INVARIANT_VIOLATION",
                        f2 = Observed(at, status),
                        f3 = AttemptMove("ATTEMPT_OUTCOME_UNKNOWN", at, "DISPATCH_REQUESTED",
                                         "OUTCOME_UNKNOWN", why),
                        f4 = TaskMove("TASK_BLOCKED", at[1], "LEASED", "BLOCKED", why),
                        f5 = RunMove("RUN_BLOCKED", "RUNNING", "BLOCKED", why),
                        w = <<f2, f3, f4, f5>>
                 PROVE  /\ todo' # <<>> /\ 1 \in DOMAIN todo' /\ todo'[1] = e1
                        /\ \A i \in DOMAIN todo' :
                             /\ Answers(todo'[i]) => i = 1
                             /\ Lapses(todo'[i]) => i = 3 /\ status # "APPLIED"
      OBVIOUS
    <2>1. BlockUnknown(at, status) = w
      BY DEF BlockUnknown
    <2>2. PICK E : e1 \in E /\ f2 \in E /\ f3 \in E /\ f4 \in E /\ f5 \in E
      <3> WITNESS {e1, f2, f3, f4, f5}
      <3> QED OBVIOUS
    <2>3. /\ ~Answers(f2) /\ ~Answers(f3) /\ ~Answers(f4) /\ ~Answers(f5)
          /\ ~Lapses(f2) /\ ~Lapses(f4) /\ ~Lapses(f5)
      BY DEF Observed, AttemptMove, TaskMove, RunMove, Answers, Lapses
    <2>4. /\ Len(todo') = 5 /\ DOMAIN todo' = {1, 2, 3, 4, 5} /\ todo'[1] = e1
          /\ todo'[2] = f2 /\ todo'[3] = f3 /\ todo'[4] = f4 /\ todo'[5] = f5
      BY <1>3, <2>1, <2>2, Prefixed4
    <2> QED BY <1>1, <1>3, <2>3, <2>4
  <1> QED BY <1>2, <1>3

\* The provider answers a child effect of a dispatch.
LEMMA DoubtChild ==
  ASSUME IInv, DoubtInv, pc \in {"channel", "packet"}, todo = <<>>,
         UNCHANGED <<k, pending, doubted, broken, recovery, at>>,
         NEW op, op = OpOf[pc], NEW status \in {"APPLIED", "ABSENT", "UNKNOWN", "none"},
         NEW happens \in BOOLEAN, status = "ABSENT" => ~happens,
         NEW e2 \in Event, Plain(e2), NEW u, u = <<e2>>,
         done' = IF happens THEN done \cup {<<at, op>>} ELSE done,
         todo' = IF status = "none" THEN <<>>
                 ELSE <<Tell(op, at, status)>> \o
                        (IF status = "APPLIED" THEN u ELSE BlockUnknown(at, status)),
         \/ pc' = "packet" /\ pc = "channel" /\ status = "APPLIED"
         \/ pc' \in {"dispatch", "ending"}
  PROVE  DoubtInv'
  <1>1. /\ op \in {"reserve", "send"} /\ (pc = "channel" <=> op = "reserve")
        /\ pending = {<<at, op>>} /\ doubted = {} /\ <<at, op>> \notin done
    BY DEF DoubtInv, AskInv, Asking, OpOf
  <1>2. /\ at \in AnId /\ Known(at) /\ Of(at).state = "DISPATCH_REQUESTED"
        /\ at[2] \in DOMAIN k.attempt[at[1]] /\ S(at[1], at[2]) = "DISPATCH_REQUESTED"
        /\ at[3] = k.attempt[at[1]][at[2]].epoch /\ at[3] \in Nat
    BY DEF IInv, AtInv, Asking, Known, Of, S, AnId
  <1>3. ~AnyLapsed /\ recovery = NoRecovery
    BY Calm DEF Unsettled
  <1>4. ~AnyLapsed'
    BY <1>3 DEF AnyLapsed, Lapsed, S
  <1>5. (status # "none" => todo' # <<>>) /\ LapseInv' /\ AnswerInv'
    <2>1. CASE status = "none"
      <3>1. DOMAIN todo' = {}
        BY <2>1
      <3> QED BY <2>1, <3>1 DEF LapseInv, AnswerInv
    <2>2. CASE status # "none"
      <3>1. Tell(op, at, status) \in Event
        BY <1>1, <1>2, <2>2, EventKinds DEF IInv
      <3>2. /\ todo' # <<>> /\ 1 \in DOMAIN todo' /\ todo'[1] = Tell(op, at, status)
            /\ \A i \in DOMAIN todo' :
                 /\ Answers(todo'[i]) => i = 1
                 /\ Lapses(todo'[i]) => i = 3 /\ status # "APPLIED"
        BY <2>2, <3>1, ChildEvents
      <3> SUFFICES ASSUME NEW e1, e1 = Tell(op, at, status), NEW w, w = todo',
                          w # <<>>, 1 \in DOMAIN w, w[1] = e1,
                          \A i \in DOMAIN w :
                            /\ Answers(w[i]) => i = 1
                            /\ Lapses(w[i]) => i = 3 /\ status # "APPLIED"
                   PROVE  todo' # <<>> /\ LapseInv' /\ AnswerInv'
        BY <3>2
      <3>3. /\ e1.subject = "effect" /\ e1.status = status /\ e1.op = op /\ Part(e1) = <<at, op>>
            /\ status = "ABSENT" => <<at, op>> \notin done'
        BY <1>1 DEF Tell, Part
      <3>4. status # "APPLIED" => Doubts(e1)'
        BY <1>1, <2>2, <3>3 DEF Doubts, Answers, Part
      <3>5. LapseInv'
        BY <1>4, <3>4 DEF LapseInv
      <3>6. ASSUME NEW i \in DOMAIN todo', Answers(todo'[i])
            PROVE  /\ i = 1
                   /\ todo'[i].status = "ABSENT" /\ todo'[i].op # "cancel" =>
                        Part(todo'[i]) \notin done'
                   /\ todo'[i].status = "APPLIED" => Part(todo'[i]) \notin doubted'
                   /\ todo'[i].status = "UNKNOWN" => Part(todo'[i]) \in pending'
        <4>1. i = 1 /\ todo'[i] = e1
          BY <3>6
        <4>2. Part(e1) \notin doubted' /\ Part(e1) \in pending'
          BY <1>1, <3>3
        <4> QED BY <3>3, <4>1, <4>2
      <3>7. AnswerInv'
        BY <3>6 DEF AnswerInv, Answers, Part
      <3> QED BY <3>5, <3>7
    <2> QED BY <2>1, <2>2
  <1>6. AskInv'
    BY <1>1, <1>5 DEF DoubtInv, AskInv, Asking
  <1>7. ChannelInv'
    <2>1. \A id \in AnId : <<id, "reserve">> \in done' => <<id, "reserve">> \in done \/ id = at
      OBVIOUS
    <2> SUFFICES ASSUME NEW id \in AnId, <<id, "reserve">> \in done'
                 PROVE  /\ id[2] \in DOMAIN k.attempt[id[1]]
                        /\ ~(k.attempt[id[1]][id[2]].epoch < id[3])
                        /\ id[3] = k.attempt[id[1]][id[2]].epoch => S(id[1], id[2]) # "RESERVED"
      BY DEF ChannelInv, S
    <2>2. CASE <<id, "reserve">> \in done
      BY <2>2 DEF DoubtInv, ChannelInv
    <2>3. CASE id = at
      BY <1>2, <2>3
    <2> QED BY <2>1, <2>2, <2>3
  <1> QED BY <1>3, <1>5, <1>6, <1>7, DoubtCalm

\* The provider answers the reservation of a channel, or the task packet.
LEMMA DoubtAnswer ==
  ASSUME IInv, DoubtInv, ReserveChannel \/ SendTaskPacket
  PROVE  DoubtInv'
  <1>1. /\ pc \in {"channel", "packet"} /\ todo = <<>> /\ at \in AnId
        /\ UNCHANGED <<k, pending, doubted, broken, recovery, at>>
    BY DEF ReserveChannel, SendTaskPacket, At, journal, resume, IInv, AtInv, Asking, Known
  <1>2. CASE ReserveChannel
    <2> SUFFICES ASSUME NEW e2, e2 = Ask("send", at), NEW u, u = <<e2>>
                 PROVE  DoubtInv'
      OBVIOUS
    <2>1. e2 \in Event /\ Plain(e2)
      BY <1>1, EventKinds DEF IInv, Ask, Plain, Lapses, Answers
    <2>2. PICK status \in {"APPLIED", "ABSENT", "UNKNOWN", "none"}, happens \in BOOLEAN :
            /\ status = "ABSENT" => ~happens
            /\ done' = IF happens THEN done \cup {<<at, "reserve">>} ELSE done
            /\ todo' = IF status = "none" THEN <<>>
                       ELSE <<Tell("reserve", at, status)>> \o
                              (IF status = "APPLIED" THEN u ELSE BlockUnknown(at, status))
            /\ pc' = IF status = "APPLIED" THEN "packet" ELSE "ending"
      BY <1>2 DEF ReserveChannel, Child, Later, Goto
    <2>3. pc = "channel" /\ OpOf[pc] = "reserve"
      BY <1>2 DEF ReserveChannel, At, OpOf
    <2> QED BY <1>1, <2>1, <2>2, <2>3, DoubtChild
  <1>3. CASE SendTaskPacket
    <2> SUFFICES ASSUME NEW e2, e2 = Observed(at, "APPLIED"), NEW u, u = <<e2>>
                 PROVE  DoubtInv'
      OBVIOUS
    <2>1. e2 \in Event /\ Plain(e2)
      BY <1>1, EventKinds DEF IInv, Observed, Plain, Lapses, Answers
    <2>2. PICK status \in {"APPLIED", "ABSENT", "UNKNOWN", "none"}, happens \in BOOLEAN :
            /\ status = "ABSENT" => ~happens
            /\ done' = IF happens THEN done \cup {<<at, "send">>} ELSE done
            /\ todo' = IF status = "none" THEN <<>>
                       ELSE <<Tell("send", at, status)>> \o
                              (IF status = "APPLIED" THEN u ELSE BlockUnknown(at, status))
            /\ pc' = IF status = "APPLIED" THEN "dispatch" ELSE "ending"
      BY <1>3 DEF SendTaskPacket, Child, Later, Goto
    <2>3. pc = "packet" /\ OpOf[pc] = "send"
      BY <1>3 DEF SendTaskPacket, At, OpOf
    <2> QED BY <1>1, <2>1, <2>2, <2>3, DoubtChild
  <1> QED BY <1>2, <1>3

\* An attempt is reserved again only when it was terminated, and no other event than
\* its own makes an outcome unknown.
LEMMA AttemptTypes ==
  ASSUME NEW type, NEW from, NEW to, <<type, from, to>> \in AttemptMoves
  PROVE  /\ type = "ATTEMPT_RESERVED" /\ from # "PLANNED" => from = "TERMINATED"
         /\ to = "OUTCOME_UNKNOWN" => type = "ATTEMPT_OUTCOME_UNKNOWN"
  BY DEF AttemptMoves, Moves

\* What an appended event does to the unknown outcomes: none comes about but by its
\* own event, and an attempt that is reserved again is so under a new epoch.
LEMMA OutcomesAfter ==
  ASSUME IInv, ChannelInv, Took, NEW e, e = todo[1], KernelTakes(e), k' = KernelAfter(e)
  PROVE  /\ ChannelInv'
         /\ \A t \in Task : \A n \in DOMAIN k'.attempt[t] : Lapsed(t, n)' =>
              \/ n \in DOMAIN k.attempt[t] /\ Lapsed(t, n)
              \/ Lapses(e) /\ t = e.task /\ n = e.attempt
  <1>1. e \in Event /\ k \in AnySnapshot /\ UNCHANGED done
    BY Shift DEF IInv, DType, Took, world
  <1>2. ASSUME k'.attempt = k.attempt
        PROVE  /\ ChannelInv'
               /\ \A t \in Task : \A n \in DOMAIN k'.attempt[t] : Lapsed(t, n)' =>
                    n \in DOMAIN k.attempt[t] /\ Lapsed(t, n)
    BY <1>1, <1>2 DEF ChannelInv, Lapsed, S
  <1>3. CASE e \in EffectEvent
    BY <1>2, <1>3 DEF EffectEvent, KernelAfter
  <1>4. CASE e \in RunEvent
    BY <1>1, <1>2, <1>4, RunFolded DEF RunEvent, KernelTakes, KernelAfter
  <1>5. CASE e \in TaskEvent
    BY <1>1, <1>2, <1>5, TaskFolded DEF TaskEvent, KernelTakes, KernelAfter
  <1>6. CASE e \in DispatchEvent
    <2>1. e.subject = "dispatch" /\ e.task \in Task
      BY <1>6 DEF DispatchEvent
    <2>2. CASE e.status # "APPLIED"
      BY <1>2, <2>1, <2>2 DEF KernelAfter
    <2>3. CASE e.status = "APPLIED"
      <3>1. ObservedAccepts(k, e) /\ k' = ObservedFold(k, e)
        BY <2>1, <2>3 DEF KernelTakes, KernelAfter
      <3>2. /\ e.attempt \in DOMAIN k.attempt[e.task] /\ k' \in AnySnapshot
            /\ Len(k'.attempt[e.task]) = Len(k.attempt[e.task])
            /\ k'.attempt[e.task][e.attempt].state = "RUNNING"
            /\ k'.attempt[e.task][e.attempt].epoch = k.attempt[e.task][e.attempt].epoch
            /\ \A u \in Task : u # e.task => k'.attempt[u] = k.attempt[u]
            /\ \A m \in DOMAIN k.attempt[e.task] :
                 m # e.attempt => k'.attempt[e.task][m] = k.attempt[e.task][m]
        BY <1>1, <1>6, <3>1, ObservedFolded DEF Carried
      <3>3. DOMAIN k'.attempt[e.task] = DOMAIN k.attempt[e.task]
        BY <1>1, <2>1, <3>2, LenProperties DEF AnySnapshot
      <3>4. ASSUME NEW t \in Task, NEW n \in DOMAIN k'.attempt[t]
            PROVE  /\ n \in DOMAIN k.attempt[t]
                   /\ \/ k'.attempt[t][n] = k.attempt[t][n]
                      \/ /\ k'.attempt[t][n].state = "RUNNING"
                         /\ k'.attempt[t][n].epoch = k.attempt[t][n].epoch
        BY <3>2, <3>3, <3>4
      <3>5. \A t \in Task : DOMAIN k'.attempt[t] = DOMAIN k.attempt[t]
        BY <3>2, <3>3
      <3>6. ChannelInv'
        <4> SUFFICES ASSUME NEW id \in AnId, <<id, "reserve">> \in done'
                     PROVE  /\ id[2] \in DOMAIN k'.attempt[id[1]]
                            /\ ~(k'.attempt[id[1]][id[2]].epoch < id[3])
                            /\ id[3] = k'.attempt[id[1]][id[2]].epoch =>
                                 k'.attempt[id[1]][id[2]].state # "RESERVED"
          BY DEF ChannelInv, S
        <4>1. /\ id[2] \in DOMAIN k.attempt[id[1]] /\ id[1] \in Task
              /\ ~(k.attempt[id[1]][id[2]].epoch < id[3])
              /\ id[3] = k.attempt[id[1]][id[2]].epoch =>
                   k.attempt[id[1]][id[2]].state # "RESERVED"
          BY <1>1 DEF ChannelInv, S, AnId
        <4>2. id[2] \in DOMAIN k'.attempt[id[1]]
          BY <3>5, <4>1
        <4> QED BY <3>4, <4>1, <4>2
      <3>7. ASSUME NEW t \in Task, NEW n \in DOMAIN k'.attempt[t], Lapsed(t, n)'
            PROVE  n \in DOMAIN k.attempt[t] /\ Lapsed(t, n)
        BY <3>4, <3>7 DEF Lapsed, S
      <3> QED BY <3>6, <3>7
    <2> QED BY <2>2, <2>3
  <1>7. CASE e \in AttemptEvent
    <2>1. e.subject = "attempt" /\ Accepts(k, e) /\ k' = Fold(k, e) /\ AttemptTook(e)
      BY <1>7 DEF AttemptEvent, KernelTakes, KernelAfter, AttemptTook
    <2>2. AttemptFacts(e) /\ AttemptAccepts(k, e) /\ e.epoch = k.epoch
      BY <2>1, AttemptEventKnown DEF Accepts
    <2>3. /\ Moved(e) \/ Added(e)
          /\ \A u \in Task : \A m \in DOMAIN k.attempt[u] :
               /\ m \in DOMAIN k'.attempt[u]
               /\ u # e.task \/ m # e.attempt => k'.attempt[u][m] = k.attempt[u][m]
          /\ \A u \in Task : \A m \in DOMAIN k'.attempt[u] :
               \/ m \in DOMAIN k.attempt[u]
               \/ Added(e) /\ u = e.task /\ m = Latest(u)' /\ m = Latest(u) + 1
      BY <2>1, AttemptsAfter DEF IInv
    <2>4. ChannelInv'
      <3> SUFFICES ASSUME NEW id \in AnId, <<id, "reserve">> \in done'
                   PROVE  /\ id[2] \in DOMAIN k'.attempt[id[1]]
                          /\ ~(k'.attempt[id[1]][id[2]].epoch < id[3])
                          /\ id[3] = k'.attempt[id[1]][id[2]].epoch =>
                               k'.attempt[id[1]][id[2]].state # "RESERVED"
        BY DEF ChannelInv, S
      <3>1. /\ id[2] \in DOMAIN k.attempt[id[1]] /\ id[1] \in Task /\ id[3] \in Nat
            /\ ~(k.attempt[id[1]][id[2]].epoch < id[3])
            /\ id[3] = k.attempt[id[1]][id[2]].epoch =>
                 k.attempt[id[1]][id[2]].state # "RESERVED"
        BY <1>1 DEF ChannelInv, S, AnId
      <3>2. id[2] \in DOMAIN k'.attempt[id[1]]
        BY <2>3, <3>1
      <3>3. CASE id[1] # e.task \/ id[2] # e.attempt
        BY <2>3, <3>1, <3>2, <3>3
      <3>4. CASE id[1] = e.task /\ id[2] = e.attempt
        <4>1. Moved(e)
          BY <2>3, <3>1, <3>4 DEF Added
        <4>2. CASE e.type # "ATTEMPT_RESERVED"
          BY <2>2, <3>1, <3>2, <3>4, <4>1, <4>2 DEF Moved, AttemptFacts
        <4>3. CASE e.type = "ATTEMPT_RESERVED"
          <5>0. k.attempt[id[1]][id[2]] \in AnAttempt
            <6>1. k.attempt[id[1]] \in Seq(AnAttempt)
              BY <1>1, <3>1 DEF AnySnapshot
            <6> QED BY <3>1, <6>1, LenProperties, ElementOfSeq
          <5>1. e.from = "TERMINATED"
            <6>1. e.from = k.attempt[id[1]][id[2]].state
              BY <3>4, <4>1 DEF Moved, S
            <6>2. k.attempt[id[1]][id[2]].state \in AttemptState
              BY <5>0 DEF AnAttempt
            <6>3. "PLANNED" \notin AttemptState
              BY DEF AttemptState, Terminal
            <6> QED BY <2>2, <4>3, <6>1, <6>2, <6>3, AttemptTypes DEF AttemptAccepts
          <5>2. k.attempt[id[1]][id[2]].epoch < k.epoch
            BY <2>2, <3>1, <3>4, <4>3, <5>1 DEF AttemptAccepts, Reclaims
          <5>3. k'.attempt[id[1]][id[2]].epoch = k.epoch
            BY <3>4, <4>1, <4>3 DEF Moved
          <5>4. k.epoch \in Nat /\ k.attempt[id[1]][id[2]].epoch \in Nat
            BY <1>1, <5>0 DEF AnySnapshot, AnAttempt
          <5> QED BY <3>1, <3>2, <5>2, <5>3, <5>4
        <4> QED BY <4>2, <4>3
      <3> QED BY <3>3, <3>4
    <2>5. ASSUME NEW t \in Task, NEW n \in DOMAIN k'.attempt[t], Lapsed(t, n)'
          PROVE  \/ n \in DOMAIN k.attempt[t] /\ Lapsed(t, n)
                 \/ Lapses(e) /\ t = e.task /\ n = e.attempt
      <3>1. CASE n \in DOMAIN k.attempt[t] /\ (t # e.task \/ n # e.attempt)
        BY <2>3, <2>5, <3>1 DEF Lapsed, S
      <3>2. CASE n \in DOMAIN k.attempt[t] /\ t = e.task /\ n = e.attempt
        <4>1. e.to = "OUTCOME_UNKNOWN"
          BY <2>3, <2>5, <3>2 DEF Moved, Added, Lapsed, S
        <4>2. e.type = "ATTEMPT_OUTCOME_UNKNOWN"
          BY <2>2, <4>1, AttemptTypes DEF AttemptAccepts
        <4> QED BY <2>1, <3>2, <4>2 DEF Lapses
      <3>3. CASE n \notin DOMAIN k.attempt[t]
        <4>1. Added(e) /\ t = e.task /\ n = Latest(t) + 1
          BY <2>3, <3>3
        <4>2. k'.attempt[t][n].state = "RESERVED"
          BY <4>1 DEF Added, Latest
        <4> QED BY <2>5, <4>2 DEF Lapsed, S
      <3> QED BY <3>1, <3>2, <3>3
    <2> QED BY <2>4, <2>5
  <1> QED BY <1>1, <1>3, <1>4, <1>5, <1>6, <1>7 DEF Event

\* The answer to an effect: one that nobody can settle stays open, and so does one
\* whose answer is in doubt.
LEMMA HangsAfter ==
  ASSUME IInv, DoubtInv, NEW e, e = todo[1], 1 \in DOMAIN todo, Answers(e), EffectAfter(e),
         e \in EffectEvent, UNCHANGED done
  PROVE  (Hangs \/ Doubts(e) => Hangs') /\ doubted' \subseteq pending'
  <1> DEFINE q == Part(e)
  <1>1. /\ e.status \in {"APPLIED", "ABSENT", "UNKNOWN"}
        /\ e.status = "APPLIED" => q \in done /\ (e.op # "cancel" => q \notin doubted)
        /\ e.status = "ABSENT" /\ e.op # "cancel" => q \notin done
        /\ e.status = "UNKNOWN" => q \in pending
        /\ doubted \subseteq pending
    <2>1. EffectEventOK(1) /\ doubted \subseteq pending
      BY DEF IInv, TodoInv, DoubtInv, HangInv
    <2>2. /\ e.subject = "effect" /\ e.status \in {"APPLIED", "ABSENT", "UNKNOWN"}
          /\ e.status = "APPLIED" => q \in done
      BY <2>1 DEF Answers, EffectEventOK, Part, EffectEvent
    <2>3. /\ e.status = "ABSENT" /\ e.op # "cancel" => q \notin done
          /\ e.status = "APPLIED" /\ e.op # "cancel" => q \notin doubted
          /\ e.status = "UNKNOWN" => q \in pending
      BY DEF DoubtInv, AnswerInv
    <2> QED BY <2>1, <2>2, <2>3
  <1>2. /\ pending' = IF e.status = "APPLIED" THEN pending \ {q} ELSE pending
        /\ doubted' = IF e.status = "UNKNOWN" THEN doubted \cup {q} ELSE doubted \ {q}
    BY <1>1 DEF EffectAfter, Part
  <1>3. doubted' \subseteq pending'
    BY <1>1, <1>2
  <1>4. ASSUME NEW p \in pending, Withheld(p)
        PROVE  Hangs'
    <2>1. p # q => p \in pending' /\ (p \in doubted => p \in doubted')
      BY <1>2
    <2>2. p = q => p \in pending' /\ (e.status = "UNKNOWN" => p \in doubted')
                   /\ (e.status = "ABSENT" => p \notin done)
      <3>1. q[2] = e.op
        BY DEF Part
      <3> QED BY <1>1, <1>2, <1>4, <3>1 DEF Withheld
    <2>3. p \in pending' /\ (p \in doubted' \/ p \notin done')
      BY <1>1, <1>2, <1>4, <2>1, <2>2 DEF Withheld
    <2> QED BY <1>4, <2>3 DEF Hangs, Withheld
  <1>5. ASSUME Doubts(e)
        PROVE  Hangs'
    <2>1. q \in pending' /\ q[2] # "cancel" /\ (q \in doubted' \/ q \notin done')
      BY <1>2, <1>5 DEF Doubts, Part
    <2> QED BY <2>1 DEF Hangs, Withheld
  <1> QED BY <1>3, <1>4, <1>5 DEF Hangs

\* The event was the question: the effect is open now, and not answered.
LEMMA AskAfter ==
  ASSUME IInv, DoubtInv, Took, pc \in Asking, todo' = <<>>, EffectAfter(todo[1])
  PROVE  pending = {} /\ pending' = {<<at, OpOf[pc]>>} /\ doubted' = {}
  <1>1. Len(todo) = 1 /\ todo # <<>>
    BY Shift DEF IInv, Took
  <1>2. todo[1] = Ask(OpOf[pc], at) /\ pending = {}
    BY <1>1 DEF IInv, EffectInv
  <1>3. doubted = {}
    BY <1>2 DEF DoubtInv, HangInv
  <1> QED BY <1>2, <1>3 DEF EffectAfter, Ask

\* An event is appended.
LEMMA DoubtAppend ==
  ASSUME IInv, DoubtInv, AppendNext
  PROVE  DoubtInv'
  <1> DEFINE e == todo[1]
  <1>1. /\ Head(todo) = e /\ broken = "no" /\ todo # <<>> /\ recovery = NoRecovery
        /\ UNCHANGED <<recovery, done, at>>
    BY DEF AppendNext, IInv, StageInv, DoubtInv, RecoveryInv, resume, world
  <1>2. CASE broken' # "no"
    <2>1. /\ UNCHANGED <<k, pending, doubted>> /\ todo' = <<>> /\ pc' = "down"
          /\ broken' = "kernel"
      BY <1>1, <1>2 DEF AppendNext, Commit
    <2>2. AskInv' /\ RecoveryInv' /\ DOMAIN todo' = {}
      BY <1>1, <2>1 DEF AskInv, RecoveryInv, Asking
    <2> QED BY <1>1, <2>1, <2>2, DoubtFrame DEF Unsettled
  <1>3. CASE broken' = "no"
    <2>1. Took
      BY <1>1, <1>3 DEF AppendNext, Took
    <2>2. /\ KernelTakes(e) /\ k' = KernelAfter(e)
          /\ IF e.subject = "effect" THEN EffectAfter(e)
             ELSE UNCHANGED <<pending, doubted, cancelled>>
      BY <1>1, <1>3 DEF AppendNext, Commit
    <2>3. /\ e \in Event /\ 1 \in DOMAIN todo
          /\ \A i \in DOMAIN todo' : i + 1 \in DOMAIN todo /\ todo'[i] = todo[i + 1] /\ i + 1 # 1
      BY <2>1, Shift DEF IInv
    <2>4. /\ ChannelInv'
          /\ \A t \in Task : \A n \in DOMAIN k'.attempt[t] : Lapsed(t, n)' =>
               \/ n \in DOMAIN k.attempt[t] /\ Lapsed(t, n)
               \/ Lapses(e) /\ t = e.task /\ n = e.attempt
      BY <2>1, <2>2, OutcomesAfter DEF DoubtInv
    <2>5. RecoveryInv'
      BY <1>1, <1>3 DEF RecoveryInv
    <2>6. pc' \in Asking /\ todo' = <<>> => e.subject = "effect"
      BY <1>1, <2>1, Shift DEF IInv, EffectInv, Ask, Took
    <2>7. AskInv'
      BY <1>1, <2>1, <2>2, <2>6, AskAfter DEF DoubtInv, AskInv, Took
    <2>8. AnswerInv'
      BY <2>3 DEF DoubtInv, AnswerInv
    <2>9. /\ doubted' \subseteq pending'
          /\ e.subject # "effect" => (Hangs' <=> Hangs) /\ ~Doubts(e)
          /\ e.subject = "effect" => ~Lapses(e)
          /\ Hangs \/ Doubts(e) => Hangs'
      <3>1. CASE e.subject # "effect"
        BY <1>1, <2>2, <3>1 DEF Hangs, Withheld, Doubts, Answers, DoubtInv, HangInv
      <3>2. CASE e.subject = "effect"
        <4>1. e \in EffectEvent
          BY <2>3, <3>2 DEF Event, RunEvent, TaskEvent, AttemptEvent, DispatchEvent
        <4>2. CASE Answers(e)
          BY <1>1, <2>2, <2>3, <3>2, <4>1, <4>2, HangsAfter DEF Lapses
        <4>3. CASE ~Answers(e)
          <5>1. e.status = "ASKED" /\ Asks(1)
            BY <3>2, <4>3 DEF Answers, Asks
          <5>2. pc \in Asking /\ todo' = <<>>
            BY <2>1, <2>3, <5>1, Shift DEF IInv, EffectInv
          <5>3. pending = {} /\ doubted' = {}
            BY <2>1, <2>2, <3>2, <5>2, AskAfter
          <5> QED BY <3>2, <4>3, <5>3 DEF Hangs, Doubts, Lapses
        <4> QED BY <4>2, <4>3
      <3> QED BY <3>1, <3>2
    <2>10. ASSUME ~Lapses(e), AnyLapsed'
           PROVE  AnyLapsed
      BY <2>4, <2>10 DEF AnyLapsed
    <2>11. HangInv'
      <3>1. CASE ~Lapses(e)
        <4>1. AnyLapsed' => Hangs' /\ pc' \in Unsettled
          BY <2>1, <2>9, <2>10, <3>1 DEF DoubtInv, HangInv, Took
        <4>2. ASSUME NEW t \in Task, NEW u \in Task, NEW n \in DOMAIN k'.attempt[t],
                     NEW m \in DOMAIN k'.attempt[u], Lapsed(t, n)', Lapsed(u, m)'
              PROVE  t = u /\ n = m
          <5>1. /\ n \in DOMAIN k.attempt[t] /\ Lapsed(t, n)
                /\ m \in DOMAIN k.attempt[u] /\ Lapsed(u, m)
            BY <2>4, <3>1, <4>2
          <5> QED BY <5>1 DEF DoubtInv, HangInv
        <4> QED BY <2>9, <4>1, <4>2 DEF HangInv
      <3>2. CASE Lapses(e)
        <4>1. ~AnyLapsed /\ (Hangs \/ Doubts(e)) /\ e.subject = "attempt"
          BY <2>3, <3>2 DEF DoubtInv, LapseInv, Lapses
        <4>2. Hangs'
          BY <2>9, <4>1
        <4>3. pc = "ending"
          BY <2>3, <3>2 DEF IInv, TodoInv, AttemptEventOK, Lapses
        <4>4. ASSUME NEW t \in Task, NEW n \in DOMAIN k'.attempt[t], Lapsed(t, n)'
              PROVE  t = e.task /\ n = e.attempt
          BY <2>4, <4>1, <4>4 DEF AnyLapsed
        <4> QED BY <2>1, <2>9, <4>2, <4>3, <4>4 DEF HangInv, Unsettled, Took
      <3> QED BY <3>1, <3>2
    <2>12. LapseInv'
      <3> SUFFICES ASSUME NEW i \in DOMAIN todo', Lapses(todo'[i])
                   PROVE  /\ ~AnyLapsed'
                          /\ \A j \in DOMAIN todo' : Lapses(todo'[j]) => j = i
                          /\ Hangs'
        BY DEF LapseInv, Lapses
      <3>1. i + 1 \in DOMAIN todo /\ Lapses(todo[i + 1]) /\ i + 1 # 1
        BY <2>3
      <3>2. /\ ~AnyLapsed /\ \A j \in DOMAIN todo : Lapses(todo[j]) => j = i + 1
            /\ Hangs \/ Doubts(e)
        BY <3>1 DEF DoubtInv, LapseInv
      <3>3. ~AnyLapsed'
        BY <2>3, <2>10, <3>1, <3>2
      <3>4. Hangs'
        BY <2>9, <3>1, <3>2
      <3>5. ASSUME NEW j \in DOMAIN todo', Lapses(todo'[j])
            PROVE  j = i
        <4>1. j + 1 = i + 1
          BY <2>3, <3>2, <3>5
        <4>2. i \in Nat /\ j \in Nat
          BY <2>1, Shift DEF IInv
        <4> QED BY <4>1, <4>2
      <3> QED BY <3>3, <3>4, <3>5
    <2> QED BY <2>4, <2>5, <2>7, <2>8, <2>11, <2>12 DEF DoubtInv
  <1> QED BY <1>2, <1>3

\* Nothing is in doubt at first.
LEMMA DoubtInit ==
  ASSUME Init
  PROVE  DoubtInv
  <1>1. /\ \A t \in Task : k.attempt[t] = <<>>
        /\ pending = {} /\ doubted = {} /\ done = {} /\ todo = <<>> /\ pc = "down"
        /\ recovery = NoRecovery /\ broken = "no"
    BY DEF Init
  <1>2. DOMAIN todo = {} /\ \A t \in Task : DOMAIN k.attempt[t] = {}
    BY <1>1
  <1> QED BY <1>1, <1>2 DEF DoubtInv, HangInv, AnyLapsed, LapseInv, AnswerInv, AskInv, Asking,
         ChannelInv, RecoveryInv

\* Every step keeps it.
LEMMA DoubtNext ==
  ASSUME IInv, CourseInv, DoubtInv, Next, ~late'
  PROVE  DoubtInv'
  <1>1. CASE Start
    BY <1>1, DoubtOutside
  <1>2. CASE Coordinator
    <2>1. CASE AppendNext
      BY <2>1, DoubtAppend
    <2>2. CASE GivesUp \/ GoesOn \/ ReserveResumed \/ Reserved \/ Prepared \/ Collect
      BY <2>2, DoubtQuiet
    <2>3. CASE \E p \in pending : ReconcileApplied(p) \/ ReconcileRetry(p)
      BY <2>3, DoubtReconcile
    <2>4. CASE \/ Recheck \/ Acquired \/ Land
               \/ \E id \in Attempts : Reclaim(id)
               \/ \E t \in Task : ReserveTask(t) \/ Prepare(t) \/ Accept(t)
      BY <2>4, IInvNext, DoubtEvents
    <2>5. CASE Cancel \/ ReserveChannel \/ SendTaskPacket
      BY <2>5, DoubtCancel, DoubtAnswer
    <2>6. CASE \/ \E id \in Attempts : TakeBack(id)
               \/ \E t \in Task : Dispatch(t)
      BY <2>6, DoubtTakeBack, DoubtDispatch
    <2> QED
      BY <1>2, <2>1, <2>2, <2>3, <2>4, <2>5, <2>6, Zenon
        DEF Coordinator, RecoverAbsent, GivesUp, GoesOn
  <1>3. CASE ResumeCommand
    BY <1>3, DoubtOutside
  <1>4. CASE Environment
    BY <1>4, DoubtOutside, DoubtQuiet DEF Environment, GivesUp
  <1> QED BY <1>1, <1>2, <1>3, <1>4 DEF Next

\* No step takes it back that a start has settled an unknown effect.
LEMMA LateStays ==
  ASSUME [Next]_vars, ~late'
  PROVE  ~late
  <1>1. CASE UNCHANGED resume \/ UNCHANGED late
    BY <1>1 DEF resume
  <1>2. CASE \E p \in pending : ReconcileApplied(p)
    BY <1>2 DEF ReconcileApplied
  <1> QED BY <1>1, <1>2 DEF Next, Coordinator, RecoverAbsent, ResumeCommand, Environment, vars,
         Start, AppendNext, Conflict, Leave, ReconcileRetry, ReconcileBlocked, Reconciled,
         TakeBack, TakeBackCancelled, TakeBackBlocked, Reclaim, Cancel, Recheck, TookBack,
         ReclaimBlocked, Reclaimed, Acquired, AcquireBlocked, ReserveResumed, Reserved,
         NothingToReserve, ReserveTask, Prepare, Dispatch, Accept, Prepared, ReserveChannel,
         SendTaskPacket, Collect, CollectBlocked, Land, ResumeProof, ResumeRetry, ResumeRun,
         Resume, Crash, WorkerWrites, WorkerEnds

\* As long as no start has settled a child effect that the provider had answered
\* UNKNOWN to: where an outcome is unknown or about to be, an effect stays open that
\* no start can settle, so that none gets past its reconciliation.
THEOREM DoubtAlways == Spec => [](IInv /\ CourseInv /\ (~late => DoubtInv))
  <1>1. Init => DoubtInv
    BY DoubtInit
  <1>2. /\ IInv /\ CourseInv /\ (~late => DoubtInv) /\ [Next]_vars
        => (~late' => DoubtInv')
    <2>1. ASSUME DoubtInv, UNCHANGED vars PROVE DoubtInv'
      <3>1. /\ UNCHANGED <<k, pending, doubted, done, broken, pc, todo, at>>
            /\ UNCHANGED <<recovery, fresh>>
        BY <2>1 DEF vars, journal, resume, process, world
      <3>2. AskInv' /\ RecoveryInv'
        BY <2>1, <3>1 DEF AskInv, RecoveryInv, DoubtInv
      <3> QED BY <2>1, <3>1, <3>2, DoubtFrame
    <2> QED BY <2>1, DoubtNext, LateStays
  <1> QED BY <1>1, <1>2, CourseAlways, PTL DEF Spec

\* At most one dispatch has an unknown outcome that nobody has resolved, the case that
\* resume_unknown_dispatch of cli/wishctl.py is for, as long as no start has settled a
\* child effect that the provider had answered UNKNOWN to (~late, in OneUnknown).
THEOREM OneUnknownAlways == Spec => []OneUnknown
  <1>1. IInv /\ (~late => DoubtInv) => OneUnknown
    <2> SUFFICES ASSUME IInv, DoubtInv PROVE OneUnknown
      BY DEF OneUnknown
    <2>1. ASSUME NEW p \in Unknown, NEW q \in Unknown PROVE p = q
      <3>1. PICK t \in Task : \E n \in DOMAIN k.attempt[t] : p = IdOf(t, n)
        BY <2>1 DEF Unknown, Attempts
      <3>2. PICK n \in DOMAIN k.attempt[t] : p = IdOf(t, n)
        BY <3>1
      <3>3. PICK u \in Task : \E m \in DOMAIN k.attempt[u] : q = IdOf(u, m)
        BY <2>1 DEF Unknown, Attempts
      <3>4. PICK m \in DOMAIN k.attempt[u] : q = IdOf(u, m)
        BY <3>3
      <3>5. Lapsed(t, n) /\ Lapsed(u, m)
        BY <2>1, <3>2, <3>4 DEF Unknown, Of, IdOf, Lapsed, S
      <3>6. t = u /\ n = m
        BY <3>5 DEF DoubtInv, HangInv
      <3> QED BY <3>2, <3>4, <3>6
    <2>2. CASE Unknown = {}
      BY <2>2, FS_EmptySet DEF OneUnknown
    <2>3. ASSUME NEW p \in Unknown PROVE OneUnknown
      <3>1. Unknown = {p}
        BY <2>1, <2>3
      <3>2. Cardinality({p}) = 1
        BY FS_Singleton
      <3> QED BY <3>1, <3>2 DEF OneUnknown
    <2> QED BY <2>2, <2>3
  <1> QED BY <1>1, DoubtAlways, PTL

\* As long as that (~late, in RecoveriesFold) the coordinator appends nothing inside an
\* incomplete resume, however the two interleave: the journal it leaves is one that
\* advance_dispatch_recoveries folds.
THEOREM RecoveriesFoldAlways == Spec => []RecoveriesFold
  <1>1. (~late => DoubtInv) => RecoveriesFold
    BY DEF DoubtInv, RecoveryInv, RecoveriesFold
  <1> QED BY <1>1, DoubtAlways, PTL

------------------------------------------------------------------------------
(* Every event is folded.  A run that is blocked is not reclaimed, so that the *)
(* coordinator dispatches, and blocks the run for a child effect, only while   *)
(* the run is not blocked.                                                     *)

\* An event that may be left out before two others, or one.
LEMMA MaybeBeforeTwo ==
  ASSUME NEW c, NEW x, NEW y, NEW z, NEW s, s = (IF c THEN <<x>> ELSE <<>>) \o <<y, z>>
  PROVE  /\ c => DOMAIN s = {1, 2, 3} /\ Len(s) = 3 /\ s[1] = x /\ s[2] = y /\ s[3] = z
         /\ ~c => DOMAIN s = {1, 2} /\ Len(s) = 2 /\ s[1] = y /\ s[2] = z
  <1>1. ASSUME NEW E, E = {x, y, z}, NEW u, u = <<y, z>>, s = <<x>> \o u
        PROVE  DOMAIN s = {1, 2, 3} /\ Len(s) = 3 /\ s[1] = x /\ s[2] = y /\ s[3] = z
    <2>1. u \in Seq(E) /\ Len(u) = 2 /\ u[1] = y /\ u[2] = z /\ x \in E
      BY <1>1
    <2>2. s \in Seq(E) /\ Len(s) = Len(u) + 1 /\ s[1] = x /\ \A i \in 1..Len(u) : s[i + 1] = u[i]
      <3>1. s = <<x>> \o u
        BY <1>1
      <3> QED BY <2>1, <3>1, Prefixed
    <2>4. Len(s) = 3 /\ s[1 + 1] = u[1] /\ s[2 + 1] = u[2]
      BY <2>1, <2>2
    <2>3. DOMAIN s = 1..3
      BY <2>2, <2>4, LenProperties
    <2> QED BY <2>1, <2>2, <2>3, <2>4
  <1>2. CASE c
    <2>1. s = <<x>> \o <<y, z>>
      BY <1>2
    <2> QED BY <1>1, <1>2, <2>1
  <1>3. CASE ~c
    <2>1. s = <<y, z>>
      BY <1>3
    <2> QED BY <1>3, <2>1
  <1> QED BY <1>2, <1>3

\* The same before one.
LEMMA MaybeBeforeOne ==
  ASSUME NEW c, NEW x, NEW y, NEW s, s = (IF c THEN <<x>> ELSE <<>>) \o <<y>>
  PROVE  /\ c => DOMAIN s = {1, 2} /\ Len(s) = 2 /\ s[1] = x /\ s[2] = y
         /\ ~c => DOMAIN s = {1} /\ Len(s) = 1 /\ s[1] = y
  <1>1. ASSUME NEW E, E = {x, y}, NEW u, u = <<y>>, s = <<x>> \o u
        PROVE  DOMAIN s = {1, 2} /\ Len(s) = 2 /\ s[1] = x /\ s[2] = y
    BY <1>1, Prefixed1
  <1>2. CASE c
    <2>1. s = <<x>> \o <<y>>
      BY <1>2
    <2> QED BY <1>1, <1>2, <2>1
  <1>3. CASE ~c
    <2>1. s = <<y>>
      BY <1>3
    <2> QED BY <1>3, <2>1
  <1> QED BY <1>2, <1>3

\* What the attempts say where no attempt and no task moves.
LEMMA MovesNothing ==
  ASSUME k'.attempt = k.attempt, k'.task = k.task
  PROVE  /\ \A t : (Booked(t)' <=> Booked(t)) /\ (Astray(t)' <=> Astray(t))
                   /\ (Stuck(t)' <=> Stuck(t)) /\ State(t)' = State(t)
         /\ (Idle' <=> Idle) /\ (AnyLapsed' <=> AnyLapsed) /\ (Blocked' <=> Blocked)
  <1>1. /\ \A t : (Booked(t)' <=> Booked(t)) /\ (Astray(t)' <=> Astray(t))
                  /\ State(t)' = State(t)
        /\ (AnyLapsed' <=> AnyLapsed)
    BY DEF Booked, Astray, State, LostAt, S, AnyLapsed, Lapsed
  <1>2. \A t : Stuck(t)' <=> Stuck(t)
    BY <1>1 DEF Stuck
  <1> QED BY <1>1, <1>2 DEF Idle, Blocked

\* The same of an unchanged snapshot.
LEMMA FoldSame ==
  ASSUME UNCHANGED k
  PROVE  /\ \A t : (Booked(t)' <=> Booked(t)) /\ (Astray(t)' <=> Astray(t))
                   /\ (Stuck(t)' <=> Stuck(t)) /\ State(t)' = State(t)
         /\ (Idle' <=> Idle) /\ (AnyLapsed' <=> AnyLapsed) /\ (Blocked' <=> Blocked)
  <1>1. k'.attempt = k.attempt /\ k'.task = k.task
    OBVIOUS
  <1> QED BY <1>1, MovesNothing

\* Nothing is appended yet: what is left to show is about the events to come.
LEMMA FoldPlan ==
  ASSUME FoldInv, UNCHANGED k, broken' # "kernel",
         pc' \notin {"down", "ending"} => pc \notin {"down", "ending"},
         HoldInv', StatusInv', PlanInv'
  PROVE  FoldInv'
  <1>1. EpochInv' /\ ReasonInv'
    BY FoldSame DEF FoldInv, EpochInv, ReasonInv
  <1>2. StuckInv'
    BY FoldSame DEF FoldInv, StuckInv, S
  <1> QED BY <1>1, <1>2 DEF FoldInv

\* Events that move no task, no attempt and not the run.
LEMMA FoldSilent ==
  ASSUME FoldInv, UNCHANGED k, broken' # "kernel",
         \A i \in DOMAIN todo' : todo'[i].subject \in {"effect", "dispatch"},
         pc' \notin {"down", "ending"} => pc \notin {"down", "ending"},
         HoldInv', StatusInv'
  PROVE  FoldInv'
  <1>2. PlanInv'
    BY DEF PlanInv, LastOK, BooksOK, BlocksOK, StopsOK, BlockedOK, Blocks, Books, Stops
  <1> QED BY <1>2, FoldPlan

\* The wave is as it was.
LEMMA HoldSame ==
  ASSUME FoldInv, UNCHANGED k, pc' \in Waves \ {"wave"} => pc \in Waves \ {"wave"},
         wave \subseteq wave'
  PROVE  HoldInv'
  BY FoldSame DEF FoldInv, HoldInv

\* The steps that stop the coordinator, or go on without an event.
LEMMA FoldQuiet ==
  ASSUME IInv, FoldInv, GivesUp \/ GoesOn \/ Reserved \/ Prepared \/ Collect
  PROVE  FoldInv'
  <1>1. /\ UNCHANGED <<k, broken, fresh, wave>> /\ todo' = <<>>
        /\ pc' \notin {"down", "ending"} => pc \notin {"down", "ending"}
        /\ pc' \in Waves \ {"wave"} => pc \in Waves \ {"wave"}
    BY GivesUpIs
       DEF GoesOn, Reconciled, TookBack, Reserved, Prepared, Collect, Waves,
           TakeBackCancelled, At, Goto, journal
  <1>2. /\ pc' \in {"cancel", "recheck"} => k.status = "RUNNING"
        /\ pc' \in {"reserve", "prepare", "dispatch", "channel", "packet"} =>
             fresh /\ pc \in {"reserve", "prepare"}
    BY GivesUpIs
       DEF GoesOn, Reconciled, TookBack, Reserved, Prepared, Collect, Admitted,
           TakeBackCancelled, At, Goto
  <1>3. StatusInv'
    BY <1>1, <1>2 DEF FoldInv, StatusInv
  <1>4. broken' # "kernel" /\ DOMAIN todo' = {}
    BY <1>1 DEF FoldInv
  <1>5. HoldInv'
    BY <1>1, HoldSame
  <1> QED BY <1>1, <1>3, <1>4, <1>5, FoldSilent

\* It asks for an effect, or writes down what became of one.
LEMMA FoldEffect ==
  ASSUME IInv, FoldInv,
         \/ Cancel
         \/ \E p \in pending : ReconcileApplied(p) \/ ReconcileRetry(p)
         \/ \E id \in Attempts : TakeBack(id)
  PROVE  FoldInv'
  <1>1. /\ UNCHANGED <<k, broken, fresh, wave>>
        /\ pc' \in {"recheck", "ending", "reconcile", "cancel"}
        /\ pc \notin {"down", "ending"}
        /\ pc' = "cancel" => k.status = "RUNNING"
        /\ pc' = "recheck" => pc = "cancel" /\ fresh
    BY DEF Cancel, ReconcileApplied, ReconcileRetry, TakeBack, Admitted, At, Goto, journal
  <1>2. todo' = <<>> \/ \E e : todo' = <<e>> /\ e.subject = "effect"
    BY DEF Cancel, ReconcileApplied, ReconcileRetry, TakeBack, Later, Tell, Ask
  <1>3. \A i \in DOMAIN todo' : todo'[i].subject \in {"effect", "dispatch"}
    BY <1>2
  <1>4. StatusInv'
    BY <1>1 DEF FoldInv, StatusInv
  <1>5. broken' # "kernel" /\ HoldInv'
    BY <1>1, HoldSame DEF FoldInv, Waves
  <1> QED BY <1>1, <1>3, <1>4, <1>5, FoldSilent

\* While a start is under way and holds no reservation of a blocked task, a run that
\* is blocked has nothing that is reserved.
LEMMA BlockedIdle ==
  ASSUME DoubtInv, FoldInv, pc \notin Unsettled,
         \A t \in Task : \A n \in DOMAIN k.attempt[t] :
           S(t, n) = "RESERVED" /\ k.attempt[t][n].epoch < k.epoch => State(t) # "BLOCKED"
  PROVE  k.status = "RUNNING" \/ Idle
  <1>1. ~AnyLapsed /\ pc \notin {"down", "ending"}
    BY DEF DoubtInv, HangInv, Unsettled
  <1>2. ASSUME NEW t \in Task, Stuck(t) PROVE FALSE
    BY <1>1, <1>2 DEF Stuck, Booked, FoldInv, StuckInv
  <1> QED BY <1>1, <1>2 DEF FoldInv, ReasonInv, Blocked

\* In the wave loop what is reserved is the latest attempt of a leased task, under
\* this epoch, and nothing is lost.
LEMMA WaveBooked ==
  ASSUME IInv, CourseInv, FoldInv, pc \in Waves
  PROVE  /\ \A t \in Task : ~Astray(t)
         /\ \A t \in Task : \A n \in DOMAIN k.attempt[t] : S(t, n) = "RESERVED" =>
              /\ n = Latest(t) /\ State(t) = "LEASED" /\ k.attempt[t][n].epoch = k.epoch
  <1>1. \A t \in Task : ~Astray(t)
    BY DEF IInv, AttemptInv, Astray, Kept
  <1>2. ASSUME NEW t \in Task, NEW n \in DOMAIN k.attempt[t], S(t, n) = "RESERVED"
        PROVE  n = Latest(t) /\ State(t) = "LEASED" /\ k.attempt[t][n].epoch = k.epoch
    <2>1. n = Latest(t) /\ ~(k.attempt[t][n].epoch < k.epoch)
      BY <1>2 DEF IInv, AttemptInv, Held, Kept, Terminal
    <2>2. k.attempt[t][n].epoch <= k.epoch
      BY DEF FoldInv, EpochInv
    <2>3. k.attempt[t][n].epoch \in Nat /\ k.epoch \in Nat /\ Latest(t) \in Nat \ {0}
      BY <2>1, AttemptsKnown DEF IInv, DType, AnySnapshot
    <2>4. pc \notin {"down", "ending"}
      BY DEF Waves
    <2>5. State(t) # "BLOCKED"
      BY <1>2, <2>1, <2>4 DEF FoldInv, StuckInv
    <2>6. Fits(LastOf(k, t), State(t)) /\ LastOf(k, t).state = "RESERVED"
      BY <1>2, <2>1, <2>3 DEF CourseInv, InStep, FitsIn, LastOf, Latest, S, State
    <2> QED BY <2>1, <2>2, <2>3, <2>5, <2>6 DEF Fits
  <1> QED BY <1>1, <1>2

\* There a run that is blocked has nothing that is reserved.
LEMMA WaveIdle ==
  ASSUME IInv, CourseInv, DoubtInv, FoldInv, pc \in Waves
  PROVE  k.status = "RUNNING" \/ Idle
  <1>1. pc \notin Unsettled
    BY DEF Waves, Unsettled
  <1>2. \A t \in Task : \A n \in DOMAIN k.attempt[t] :
          S(t, n) = "RESERVED" => State(t) # "BLOCKED"
    BY WaveBooked
  <1> QED BY <1>1, <1>2, BlockedIdle

\* What was reserved by this epoch is handed out, all of it.
LEMMA FoldResumed ==
  ASSUME IInv, CourseInv, LoadInv, DoubtInv, FoldInv, ReserveResumed
  PROVE  FoldInv'
  <1>1. /\ UNCHANGED <<k, broken, fresh>> /\ todo' = <<>> /\ pc = "wave" /\ pc' = "prepare"
        /\ todo = <<>>
    BY DEF ReserveResumed, At, Goto, journal
  <1>2. PICK W \in SUBSET Resumable :
          /\ W # {} /\ Cardinality(W) <= MaxConcurrency
          /\ W # Resumable => Cardinality(W) = MaxConcurrency
          /\ wave' = W
    BY DEF ReserveResumed
  <1>3. Resumable \subseteq Load /\ Load \subseteq Task
    BY DEF Resumable, Load, Active
  <1>4. W = Resumable
    <2>1. IsFiniteSet(Resumable) /\ IsFiniteSet(Load) /\ IsFiniteSet(W)
      BY <1>2, <1>3, FS_Subset, DispatchAssumption
    <2>2. Cardinality(Resumable) <= Cardinality(Load) /\ Cardinality(W) <= Cardinality(Resumable)
      BY <1>2, <1>3, <2>1, FS_Subset
    <2>3. /\ Cardinality(Resumable) \in Nat /\ Cardinality(Load) \in Nat
          /\ Cardinality(W) \in Nat
      BY <2>1, FS_CardinalityType
    <2>4. Cardinality(Load) <= MaxConcurrency
      BY DEF LoadInv
    <2>5. Cardinality(W) = Cardinality(Resumable) => W = Resumable
      BY <1>2, <2>1, FS_Subset
    <2> QED BY <1>2, <2>2, <2>3, <2>4, <2>5, DispatchAssumption
  <1>5. pc \in Waves
    BY <1>1 DEF Waves
  <1>6. ASSUME NEW t \in Task, Booked(t) PROVE t \in Resumable
    <2>1. PICK n \in DOMAIN k.attempt[t] : S(t, n) = "RESERVED"
      BY <1>6 DEF Booked
    <2>2. n = Latest(t) /\ State(t) = "LEASED" /\ k.attempt[t][n].epoch = k.epoch
      BY <1>5, <2>1, WaveBooked
    <2>3. n \in Nat \ {0}
      BY AttemptsKnown DEF IInv
    <2> QED BY <2>1, <2>2, <2>3 DEF Resumable, S
  <1>7. HoldInv'
    BY <1>1, <1>2, <1>4, <1>6, FoldSame DEF HoldInv
  <1>8. k.status = "RUNNING"
    <2>1. PICK t \in Task : t \in Resumable
      BY <1>2, <1>4 DEF Resumable
    <2>2. Latest(t) \in DOMAIN k.attempt[t]
      BY <2>1, AttemptsKnown DEF IInv, Resumable
    <2>3. Booked(t)
      BY <2>1, <2>2 DEF Resumable, Booked, S
    <2> QED BY <1>5, <2>3, WaveIdle DEF Idle
  <1>9. StatusInv'
    BY <1>1, <1>8 DEF StatusInv
  <1> QED BY <1>1, <1>7, <1>9, FoldSilent DEF FoldInv

\* A task is reserved: one more is at work, if the manifest allows it.
LEMMA FoldReserve ==
  ASSUME IInv, CourseInv, DoubtInv, FoldInv, NEW t \in Task, ReserveTask(t)
  PROVE  FoldInv'
  <1> DEFINE x == TaskMove("TASK_READY", t, "APPROVED", "READY", "none")
             y == TaskMove("LEASE_ACQUIRED", t, "READY", "LEASED", "none")
             z == AttemptMove("ATTEMPT_RESERVED", <<t, Latest(t) + 1, k.epoch>>,
                              "PLANNED", "RESERVED", "none")
  <1>1. /\ UNCHANGED <<k, broken, fresh>> /\ fresh /\ todo = <<>> /\ pc \in {"wave", "reserve"}
        /\ pc' = "reserve" /\ wave' = wave \cup {t} /\ t \in Ready
        /\ pc = "wave" => Resumable = {}
        /\ todo' = (IF State(t) = "APPROVED" THEN <<x>> ELSE <<>>) \o <<y, z>>
    BY DEF ReserveTask, At, Goto, Later, journal
  <1>2. k.status = "RUNNING" /\ Cardinality(ActiveTask) < MaxConcurrency
    BY <1>1 DEF Ready
  <1>3. pc \in Waves /\ pc \notin {"down", "ending"}
    BY <1>1 DEF Waves
  <1>4. \/ /\ DOMAIN todo' = {1, 2, 3} /\ Len(todo') = 3
           /\ todo'[1] = x /\ todo'[2] = y /\ todo'[3] = z
        \/ DOMAIN todo' = {1, 2} /\ Len(todo') = 2 /\ todo'[1] = y /\ todo'[2] = z
    <2> DEFINE c == State(t) = "APPROVED"
    <2>1. todo' = (IF c THEN <<x>> ELSE <<>>) \o <<y, z>>
      BY <1>1
    <2> HIDE DEF c, x, y, z
    <2>2. /\ c => /\ DOMAIN todo' = {1, 2, 3} /\ Len(todo') = 3
                  /\ todo'[1] = x /\ todo'[2] = y /\ todo'[3] = z
          /\ ~c => DOMAIN todo' = {1, 2} /\ Len(todo') = 2 /\ todo'[1] = y /\ todo'[2] = z
      BY <2>1, MaybeBeforeTwo
    <2> QED BY <2>2
  <1>5. HoldInv'
    <2>1. CASE pc = "reserve"
      BY <1>1, <2>1, HoldSame DEF Waves
    <2>2. CASE pc = "wave"
      <3>1. ASSUME NEW u \in Task, Booked(u) PROVE FALSE
        <4>1. PICK n \in DOMAIN k.attempt[u] : S(u, n) = "RESERVED"
          BY <3>1 DEF Booked
        <4>2. n = Latest(u) /\ State(u) = "LEASED" /\ k.attempt[u][n].epoch = k.epoch
          BY <1>3, <4>1, WaveBooked
        <4>3. n \in Nat \ {0}
          BY AttemptsKnown DEF IInv
        <4> QED BY <1>1, <2>2, <4>1, <4>2, <4>3 DEF Resumable, S
      <3> QED BY <1>1, <3>1, FoldSame DEF HoldInv
    <2> QED BY <1>1, <2>1, <2>2
  <1>6. StatusInv'
    BY <1>1, <1>2 DEF StatusInv
  <1>7. PlanInv'
    <2>1. /\ x.subject = "task" /\ x.type = "TASK_READY"
          /\ y.subject = "task" /\ y.type = "LEASE_ACQUIRED" /\ y.task = t
          /\ z.subject = "attempt" /\ z.to = "RESERVED" /\ z.task = t
      BY DEF TaskMove, AttemptMove
    <2> HIDE DEF x, y, z
    <2>2. PICK m \in {2, 3} : /\ DOMAIN todo' = 1..m /\ Len(todo') = m /\ todo'[m] = z
                              /\ todo'[m - 1] = y /\ (m = 3 => todo'[1] = x)
      BY <1>4
    <2>3. TaskEventIs(m - 1, t, "LEASE_ACQUIRED")'
      BY <2>1, <2>2 DEF TaskEventIs
    <2>4. BooksOK(m)'
      BY <2>1, <2>2, <2>3 DEF BooksOK
    <2>5. \A i \in DOMAIN todo' : i # m => todo'[i].subject = "task" /\ ~Blocks(todo'[i])
      BY <2>1, <2>2 DEF Blocks
    <2> QED BY <1>1, <1>2, <2>1, <2>2, <2>4, <2>5
            DEF PlanInv, LastOK, BooksOK, BlocksOK, StopsOK, BlockedOK, Blocks, Books, Stops
  <1>8. broken' # "kernel"
    BY <1>1 DEF FoldInv
  <1> QED BY <1>1, <1>3, <1>5, <1>6, <1>7, <1>8, FoldPlan

\* What is appended of the events that take an attempt back.
LEMMA TakesBack ==
  ASSUME IInv, CourseInv, pc = "recheck", NEW id, id = at, NEW es, es = TakeBackSteps(id),
         NEW m, m = StepsTaken(id), todo' = SubSeq(es, m + 1, 6)
  PROVE  /\ BackTask(id[1]) /\ BackEvents(id[1], es) /\ BackLeft(es, m)
         /\ m \in 0..5 /\ (m = 5 => State(id[1]) = "LEASED") /\ id[1] \in Task
  <1>5. /\ id \in AnId /\ Known(id) /\ id[2] = Latest(id[1]) /\ id[3] < k.epoch
        /\ S(id[1], id[2]) \in {"RUNNING", "CANCEL_REQUESTED"} \/ LostAt(id[1], id[2])
    BY DEF IInv, AtInv, Known
  <1>6. /\ id[1] \in Task /\ id[2] \in DOMAIN k.attempt[id[1]] /\ InStep(k)
        /\ Len(k.attempt[id[1]]) = id[2] /\ LastOf(k, id[1]) = k.attempt[id[1]][id[2]]
        /\ Len(k.attempt[id[1]]) > 0 /\ k.task[id[1]].state = State(id[1])
    BY <1>5, LatestNamed DEF Known, State, AnId, CourseInv
  <1>7. /\ S(id[1], id[2]) \in {"RUNNING", "CANCEL_REQUESTED"} => State(id[1]) = "DISPATCHED"
        /\ LostAt(id[1], id[2]) => State(id[1]) \in {"DISPATCHED", "BLOCKED", "READY", "LEASED"}
    BY <1>6 DEF InStep, FitsIn, Fits, Abandoned, S, LostAt
  <1>8. ~Booked(id[1]) /\ (State(id[1]) \in Active \/ Astray(id[1]))
    <2>1. ASSUME NEW n \in DOMAIN k.attempt[id[1]], S(id[1], n) = "RESERVED" PROVE FALSE
      <3>1. n = Latest(id[1])
        BY <1>6, <2>1 DEF IInv, AttemptInv, Held, Terminal
      <3> QED BY <1>5, <2>1, <3>1 DEF LostAt
    <2> QED BY <1>5, <1>6, <1>7, <2>1 DEF Booked, Astray, Active
  <1>9. m \in 0..5 /\ (m = 5 => State(id[1]) = "LEASED")
    <2>1. Of(id).state = S(id[1], id[2]) /\ (Lost(id) <=> LostAt(id[1], id[2]))
      BY DEF Of, S, Lost, LostAt
    <2>2. CASE Of(id).state \in {"RUNNING", "CANCEL_REQUESTED"}
      BY <2>2 DEF StepsTaken, Lost
    <2>3. CASE Lost(id)
      BY <1>7, <2>1, <2>3 DEF StepsTaken, Lost
    <2> QED BY <1>5, <2>1, <2>2, <2>3
  <1>10. BackEvents(id[1], es)
    <2>1. es \in Seq(Event) /\ Len(es) = 6
      BY <1>5, TakenLeads DEF IInv, TakesAhead
    <2> QED BY <2>1 DEF BackEvents, TakeBackSteps, TaskMove, AttemptMove
  <1>11. BackLeft(es, m)
    <2>1. m \in 0..5 /\ es \in Seq(Event) /\ Len(es) = 6
      BY <1>9, <1>10 DEF BackEvents
    <2>2. LeftOfSix(todo', es, m)
      BY <2>1, StepsLeft
    <2>3. ASSUME NEW i \in DOMAIN todo' PROVE todo'[i] = es[m + i] /\ m + i \in 1..6
      <3>1. i + m = m + i
        BY <2>1, <2>2 DEF LeftOfSix
      <3> QED BY <2>2, <3>1 DEF LeftOfSix
    <2> QED BY <2>2, <2>3 DEF BackLeft, LeftOfSix
  <1> QED BY <1>6, <1>8, <1>9, <1>10, <1>11 DEF BackTask

\* An attempt is taken back, by a coordinator whose run is not blocked.
LEMMA FoldRecheck ==
  ASSUME IInv, CourseInv, FoldInv, Recheck
  PROVE  FoldInv'
  <1>1. /\ pc = "recheck" /\ todo = <<>> /\ fresh
        /\ UNCHANGED <<k, broken, fresh, wave>> /\ pc' \in {"takeback", "ending"}
        /\ pc' = "ending" => todo' = todo
    BY DEF Recheck, At, Goto, journal
  <1>2. k.status = "RUNNING"
    BY <1>1 DEF FoldInv, StatusInv
  <1>3. StatusInv' /\ HoldInv' /\ broken' # "kernel" /\ pc \notin {"down", "ending"}
    BY <1>1, <1>2, HoldSame DEF StatusInv, Waves, FoldInv
  <1>4. CASE todo' = <<>>
    <2>1. DOMAIN todo' = {}
      BY <1>4
    <2> QED BY <1>1, <1>3, <2>1, FoldSilent
  <1> SUFFICES ASSUME NEW id, id = at, NEW es, es = TakeBackSteps(id),
                      NEW m, m = StepsTaken(id), todo' = SubSeq(es, m + 1, 6)
               PROVE  FoldInv'
    BY <1>1, <1>4 DEF Recheck, Later
  <1>5. /\ BackTask(id[1]) /\ BackEvents(id[1], es) /\ BackLeft(es, m)
        /\ m \in 0..5 /\ (m = 5 => State(id[1]) = "LEASED")
    BY <1>1, TakesBack
  <1>6. ~Booked(id[1]) /\ m \in 0..5 /\ (m = 5 => State(id[1]) = "LEASED")
    BY <1>5 DEF BackTask
  <1>7. /\ \A l \in {1, 2, 3, 4, 5, 6} :
             /\ es[l].subject # "run" /\ (Books(es[l]) => l = 6 /\ es[l].task = id[1])
             /\ Blocks(es[l]) => es[l].task = id[1]
        /\ es[5].subject = "task" /\ es[5].type = "LEASE_ACQUIRED" /\ es[5].task = id[1]
        /\ es[6].subject = "attempt"
    BY <1>5 DEF BackEvents, Books, Blocks
  <1>8. /\ DOMAIN todo' = 1..(6 - m) /\ Len(todo') = 6 - m
        /\ \A i \in DOMAIN todo' : todo'[i] = es[m + i] /\ m + i \in {1, 2, 3, 4, 5, 6}
    BY <1>5 DEF BackLeft
  <1>13. ASSUME NEW i \in DOMAIN todo'
         PROVE  LastOK(i)' /\ BooksOK(i)' /\ BlocksOK(i)' /\ StopsOK(i)' /\ BlockedOK(i)'
    <2>1. /\ todo'[i].subject # "run"
          /\ Books(todo'[i]) => m + i = 6 /\ todo'[i].task = id[1]
          /\ Blocks(todo'[i]) => todo'[i].task = id[1]
      <3>1. PICK l \in {1, 2, 3, 4, 5, 6} : l = m + i /\ todo'[i] = es[l]
        BY <1>8
      <3>2. /\ es[l].subject # "run" /\ (Books(es[l]) => l = 6 /\ es[l].task = id[1])
            /\ Blocks(es[l]) => es[l].task = id[1]
        BY <1>7
      <3> QED BY <3>1, <3>2
    <2>2. i \in 1..(6 - m)
      BY <1>8
    <2>3. LastOK(i)'
      BY <1>6, <1>8, <2>1, <2>2 DEF LastOK
    <2>4. BlocksOK(i)'
      BY <1>1, <1>6, <2>1, FoldSame DEF BlocksOK
    <2>5. StopsOK(i)' /\ BlockedOK(i)'
      BY <1>1, <1>2, <2>1 DEF StopsOK, BlockedOK, Stops
    <2>6. BooksOK(i)'
      <3>1. CASE m = 5
        <4>1. ASSUME NEW j \in DOMAIN todo' PROVE todo'[j].subject = "attempt"
          <5>1. todo'[j] = es[m + j] /\ m + j \in {1, 2, 3, 4, 5, 6} /\ j \in 1..(6 - m)
            BY <1>8
          <5>2. m + j = 6
            BY <3>1, <5>1
          <5> QED BY <1>7, <5>1, <5>2
        <4>2. State(id[1])' = "LEASED"
          BY <1>1, <1>6, <3>1, FoldSame
        <4> QED BY <2>1, <4>1, <4>2 DEF BooksOK
      <3>2. CASE m < 5 /\ m + i = 6
        <4>1. i > 1 /\ i - 1 \in 1..(6 - m) /\ m + (i - 1) = 5
          BY <1>6, <2>2, <3>2
        <4>2. todo'[i - 1] = es[m + (i - 1)]
          BY <1>8, <4>1
        <4>3. todo'[i - 1] = es[5]
          BY <4>1, <4>2
        <4>4. TaskEventIs(i - 1, id[1], "LEASE_ACQUIRED")'
          BY <1>7, <4>3 DEF TaskEventIs
        <4> QED BY <2>1, <4>1, <4>4 DEF BooksOK
      <3>3. m = 5 \/ m < 5
        BY <1>6
      <3>4. CASE ~Books(todo'[i])
        BY <3>4 DEF BooksOK
      <3> QED BY <2>1, <3>1, <3>2, <3>3, <3>4
    <2> QED BY <2>3, <2>4, <2>5, <2>6
  <1>14. PlanInv'
    BY <1>13 DEF PlanInv
  <1> QED BY <1>1, <1>3, <1>14, FoldPlan

\* An attempt that was never sent is taken over: the run is not blocked then.
LEMMA FoldReclaim ==
  ASSUME IInv, CourseInv, DoubtInv, FoldInv, NEW id \in Attempts, Reclaim(id)
  PROVE  FoldInv'
  <1> DEFINE x == AttemptMove("ATTEMPT_RELEASED", id, "RESERVED", "TERMINATED", "LEASE_LOST")
             y == AttemptMove("ATTEMPT_RESERVED", id, "TERMINATED", "RESERVED", "none")
  <1>1. /\ pc = "reclaim" /\ UNCHANGED <<k, broken, fresh, wave, pc>>
        /\ \A u \in Unsent : State(u[1]) = "LEASED"
        /\ id \in Unsent
        /\ todo' = (IF Lost(id) THEN <<>> ELSE <<x>>) \o <<y>>
    BY DEF Reclaim, Reclaimable, At, Later, journal
  <1>2. \/ DOMAIN todo' = {1, 2} /\ Len(todo') = 2 /\ todo'[1] = x /\ todo'[2] = y
        \/ DOMAIN todo' = {1} /\ Len(todo') = 1 /\ todo'[1] = y
    <2> HIDE DEF x, y
    <2>1. todo' = (IF ~Lost(id) THEN <<x>> ELSE <<>>) \o <<y>>
      BY <1>1
    <2> QED BY <2>1, MaybeBeforeOne
  <1>3. /\ x.subject = "attempt" /\ x.to = "TERMINATED" /\ x.task = id[1]
        /\ y.subject = "attempt" /\ y.to = "RESERVED" /\ y.task = id[1]
    BY DEF AttemptMove
  <1> HIDE DEF x, y
  <1>4. id \in AnId /\ Known(id) /\ State(id[1]) = "LEASED"
    BY <1>1, AttemptsKnown DEF IInv
  <1>5. k.status = "RUNNING"
    <2>1. ASSUME NEW t \in Task, NEW n \in DOMAIN k.attempt[t],
                 S(t, n) = "RESERVED", k.attempt[t][n].epoch < k.epoch
          PROVE  State(t) # "BLOCKED"
      <3>1. IdOf(t, n) \in Unsent
        BY <2>1 DEF Unsent, Attempts, IdOf, Stale, Of, S
      <3>2. IdOf(t, n)[1] = t
        BY DEF IdOf
      <3> QED BY <1>1, <3>1, <3>2
    <2>2. pc \notin Unsettled
      BY <1>1 DEF Unsettled
    <2>3. Booked(id[1]) \/ Astray(id[1])
      <3>1. id[1] \in Task /\ id[2] \in DOMAIN k.attempt[id[1]]
        BY <1>4 DEF Known, AnId
      <3> QED BY <1>1, <3>1 DEF Unsent, Lost, Of, Booked, Astray, S, LostAt
    <2>4. id[1] \in Task
      BY <1>4 DEF AnId
    <2> QED BY <2>1, <2>2, <2>3, <2>4, BlockedIdle DEF Idle
  <1>7. PlanInv'
    <2>1. \A i \in DOMAIN todo' : todo'[i].subject = "attempt" /\ todo'[i].task = id[1]
      BY <1>2, <1>3
    <2>2. \A i \in DOMAIN todo' : Books(todo'[i]) => i = Len(todo')
      BY <1>2, <1>3 DEF Books
    <2>3. State(id[1])' = "LEASED" /\ k'.status = "RUNNING"
      BY <1>1, <1>4, <1>5 DEF State
    <2> QED BY <2>1, <2>2, <2>3
            DEF PlanInv, LastOK, BooksOK, BlocksOK, StopsOK, BlockedOK, Blocks, Stops
  <1>8. StatusInv' /\ HoldInv' /\ broken' # "kernel" /\ pc \notin {"down", "ending"}
    BY <1>1, <1>5, HoldSame DEF StatusInv, Waves, FoldInv
  <1> QED BY <1>1, <1>7, <1>8, FoldPlan

\* The start is over; a run that is blocked has nothing that is reserved then.
LEMMA FoldAcquired ==
  ASSUME IInv, DoubtInv, FoldInv, Acquired
  PROVE  FoldInv'
  <1>1. /\ pc = "reclaim" /\ pc' = "wave" /\ UNCHANGED <<k, broken, fresh>> /\ Unsent = {}
    BY DEF Acquired, Reclaimed, At, Goto, journal
  <1>2. StatusInv' /\ HoldInv' /\ broken' # "kernel" /\ pc \notin {"down", "ending"}
    BY <1>1 DEF StatusInv, HoldInv, FoldInv
  <1>3. CASE todo' = <<>>
    <2>1. DOMAIN todo' = {}
      BY <1>3
    <2> QED BY <1>1, <1>2, <2>1, FoldSilent
  <1>4. k.status = "RUNNING" \/ Idle
    <2>1. NothingKept
      BY <1>1, NothingUnsent DEF IInv
    <2>2. pc \notin Unsettled
      BY <1>1 DEF Unsettled
    <2> QED BY <2>1, <2>2, BlockedIdle DEF NothingKept, Kept
  <1>5. ASSUME NEW id \in AbsentPreparations, k.status = "BLOCKED", todo' = RequeueSteps(id)
        PROVE  FoldInv'
    <2> DEFINE y == TaskMove("TASK_RETRY_SCHEDULED", id[1], "BLOCKED", "READY", "none")
               z == RunMove("RUN_RESUMED", "BLOCKED", "RUNNING", "none")
    <2>1. Idle
      BY <1>4, <1>5
    <2>2. Of(id).state # "RESERVED"
      <3>1. id[1] \in Task /\ id[2] \in DOMAIN k.attempt[id[1]] /\ Of(id).state = S(id[1], id[2])
        BY AttemptsKnown, KnownIs DEF AbsentPreparations, IInv
      <3> QED BY <2>1, <3>1 DEF Idle, Booked
    <2>3. /\ y.subject = "task" /\ y.type = "TASK_RETRY_SCHEDULED"
          /\ z.subject = "run" /\ z.type = "RUN_RESUMED"
      BY DEF TaskMove, RunMove
    <2>4. \/ DOMAIN todo' = {1, 2} /\ Len(todo') = 2 /\ todo'[1] = y /\ todo'[2] = z
          \/ DOMAIN todo' = {1} /\ Len(todo') = 1 /\ todo'[1] = z
      <3>1. todo' = (<<>> \o (IF State(id[1]) = "BLOCKED" THEN <<y>> ELSE <<>>)) \o <<z>>
        BY <1>5, <2>2 DEF RequeueSteps
      <3> HIDE DEF y, z
      <3>2. <<>> \o (IF State(id[1]) = "BLOCKED" THEN <<y>> ELSE <<>>)
              = IF State(id[1]) = "BLOCKED" THEN <<y>> ELSE <<>>
        <4>1. (IF State(id[1]) = "BLOCKED" THEN <<y>> ELSE <<>>) \in Seq({y})
          OBVIOUS
        <4> QED BY <4>1, ConcatEmptySeq
      <3>3. todo' = (IF State(id[1]) = "BLOCKED" THEN <<y>> ELSE <<>>) \o <<z>>
        BY <3>1, <3>2
      <3> QED BY <3>3, MaybeBeforeOne
    <2> HIDE DEF y, z
    <2>6. Idle'
      BY <1>1, <2>1, FoldSame
    <2>7. \A i \in DOMAIN todo' :
            /\ todo'[i].subject # "attempt" /\ ~Blocks(todo'[i]) /\ ~Stops(todo'[i])
            /\ todo'[i].subject = "run" => i = Len(todo')
      BY <2>3, <2>4 DEF Blocks, Stops
    <2>8. PlanInv'
      BY <2>6, <2>7 DEF PlanInv, LastOK, BooksOK, BlocksOK, StopsOK, BlockedOK, Books
    <2> QED BY <1>1, <1>2, <2>8, FoldPlan
  <1> QED BY <1>3, <1>5 DEF Acquired, Reclaimed, At, Conflicting, Later

\* A worktree is created; or it is not, and the task's reservation blocks the run.
LEMMA FoldPrepare ==
  ASSUME IInv, CourseInv, FoldInv, NEW t \in Task, Prepare(t)
  PROVE  FoldInv'
  <1>1. /\ pc = "prepare" /\ todo = <<>> /\ fresh /\ UNCHANGED <<k, broken, fresh, wave>>
        /\ t \in wave /\ pc \notin {"down", "ending"}
    BY DEF Prepare, At, IInv, DType
  <1>2. k.status = "RUNNING" /\ broken' # "kernel"
    BY <1>1 DEF FoldInv, StatusInv
  <1>3. CASE pc' = pc /\ todo' = todo
    <2>1. DOMAIN todo' = {} /\ HoldInv' /\ StatusInv'
      BY <1>1, <1>2, <1>3, HoldSame DEF StatusInv
    <2> QED BY <1>1, <1>2, <1>3, <2>1, FoldSilent
  <1>4. CASE pc' = "ending"
    <2>1. PICK why \in Why : todo' = BlockRun(t, why)
      BY <1>1, <1>4, EventKinds DEF Prepare, Later, IInv
    <2>2. /\ DOMAIN todo' = 1..Len(todo') /\ Len(todo') \in {1, 2}
          /\ todo'[1].subject = "task" /\ todo'[1].task = t /\ todo'[1].type = "TASK_BLOCKED"
          /\ Len(todo') = 2 => todo'[2].subject = "run"
      BY <2>1, BlockRunIs DEF IInv
    <2>3. \A i \in DOMAIN todo' :
            \/ Blocks(todo'[i]) /\ todo'[i].subject = "task" /\ todo'[i].type = "TASK_BLOCKED"
            \/ todo'[i].subject = "run" /\ i = Len(todo')
      BY <2>2 DEF Blocks
    <2>4. Booked(t)
      <3>1. Waiting(k, t)
        BY <1>1, ArrivedNow DEF Arrived
      <3>2. Latest(t) \in DOMAIN k.attempt[t]
        BY <3>1, AttemptsKnown DEF Waiting, Latest, IInv
      <3> QED BY <3>1, <3>2 DEF Waiting, LastOf, Booked, S, Latest
    <2>5. WillBlock'
      <3>1. TaskEventIs(1, t, "TASK_BLOCKED")' /\ 1 \in DOMAIN todo' /\ Booked(t)'
        BY <1>1, <2>2, <2>4, FoldSame DEF TaskEventIs
      <3> QED BY <2>3, <3>1 DEF WillBlock
    <2>7. PlanInv'
      BY <1>1, <1>2, <1>4, <2>3, <2>5
         DEF PlanInv, LastOK, BooksOK, BlocksOK, StopsOK, BlockedOK, Books
    <2>8. StatusInv' /\ HoldInv'
      BY <1>4 DEF StatusInv, HoldInv, Waves
    <2> QED BY <1>1, <1>2, <1>4, <2>7, <2>8, FoldPlan
  <1> QED BY <1>3, <1>4 DEF Prepare

\* A task is dispatched while the run is not blocked.
LEMMA FoldDispatch ==
  ASSUME IInv, FoldInv, NEW t \in Task, Dispatch(t)
  PROVE  FoldInv'
  <1>1. /\ pc = "dispatch" /\ fresh /\ UNCHANGED <<k, broken, fresh, wave>> /\ pc' = "channel"
        /\ \E x, y : /\ todo' = <<x, y>> /\ x.subject = "attempt" /\ y.subject = "effect"
                     /\ x.to = "DISPATCH_REQUESTED"
    BY DEF Dispatch, At, Goto, Later, journal, AttemptMove, Ask
  <1>2. k.status = "RUNNING" /\ broken' # "kernel" /\ pc \notin {"down", "ending"}
    BY <1>1 DEF FoldInv, StatusInv
  <1>3. \A i \in DOMAIN todo' :
          \/ todo'[i].subject = "attempt" /\ todo'[i].to = "DISPATCH_REQUESTED"
          \/ todo'[i].subject = "effect"
    BY <1>1
  <1>5. PlanInv'
    BY <1>1, <1>2, <1>3
       DEF PlanInv, LastOK, BooksOK, BlocksOK, StopsOK, BlockedOK, Books, Blocks, Stops
  <1>6. StatusInv' /\ HoldInv'
    BY <1>1, <1>2, HoldSame DEF StatusInv, Waves
  <1> QED BY <1>1, <1>2, <1>5, <1>6, FoldPlan

\* A result is accepted: no other attempt is reserved, and the run may be blocked.
LEMMA FoldAccept ==
  ASSUME IInv, CourseInv, FoldInv, NEW t \in Task, Accept(t)
  PROVE  FoldInv'
  <1>1. /\ pc = "accept" /\ todo = <<>> /\ fresh /\ UNCHANGED <<k, broken, fresh, wave, pc>>
    BY DEF Accept, At, journal
  <1>2. pc \in Waves /\ pc \notin {"down", "ending"} /\ broken' # "kernel"
    BY <1>1 DEF Waves, FoldInv
  <1>3. Idle
    <2>1. ASSUME NEW u \in Task, Booked(u) PROVE FALSE
      <3>1. PICK n \in DOMAIN k.attempt[u] : S(u, n) = "RESERVED"
        BY <2>1 DEF Booked
      <3>2. n = Latest(u)
        BY <1>2, <3>1, WaveBooked
      <3>3. u \in wave
        BY <1>1, <1>2, <2>1 DEF FoldInv, HoldInv
      <3>4. Working(k, u) \/ Judged(k, u)
        BY <1>1, <3>3, ArrivedNow DEF Arrived
      <3> QED BY <3>1, <3>2, <3>4 DEF Working, Judged, LastOf, S, Latest
    <2> QED BY <1>2, <2>1, WaveBooked DEF Idle
  <1>4. Idle' /\ \A u \in Task : ~Booked(u)'
    BY <1>1, <1>3, FoldSame DEF Idle
  <1>5. Judges'
    <2> SUFFICES ASSUME NEW x, NEW y,
                        x = AttemptMove("ATTEMPT_SUCCEEDED", IdOf(t, Latest(t)), "RUNNING",
                                        "SUCCEEDED", "none"),
                        y = AttemptMove("ATTEMPT_FAILED", IdOf(t, Latest(t)), "RUNNING",
                                        "FAILED", "WORKER_FAILED")
                 PROVE  Judges'
      OBVIOUS
    <2>1. /\ x.subject = "attempt" /\ x.to = "SUCCEEDED" /\ y.subject = "attempt"
          /\ y.to = "FAILED"
      BY DEF AttemptMove
    <2>2. CASE todo' = <<x>>
      BY <2>1, <2>2 DEF Judges
    <2>3. ASSUME NEW u, u = BlockRun(t, "WORKER_FAILED"), todo' = <<y>> \o u
          PROVE  Judges'
      <3>1. /\ u \in Seq(Event) /\ Len(u) \in {1, 2} /\ DOMAIN u = 1..Len(u)
            /\ u[1].subject = "task" /\ u[1].task = t /\ u[1].type = "TASK_BLOCKED"
            /\ Len(u) = 2 => u[2].subject = "run" /\ k.status = "RUNNING"
        BY <2>3, BlockRunIs, EventKinds DEF IInv
      <3>2. PICK E : y \in E /\ u \in Seq(E)
        <4>1. u \in Seq(Event \cup {y}) /\ y \in Event \cup {y}
          BY <3>1
        <4> QED BY <4>1
      <3>3. /\ todo' \in Seq(E) /\ Len(todo') = Len(u) + 1 /\ todo'[1] = y
            /\ \A i \in 1..Len(u) : todo'[i + 1] = u[i]
        <4>1. todo' = <<y>> \o u
          BY <2>3
        <4> QED BY <3>2, <4>1, Prefixed
      <3>4. DOMAIN todo' = 1..(Len(u) + 1)
        BY <3>3, LenProperties
      <3>5. todo'[1 + 1] = u[1] /\ (Len(u) = 2 => todo'[2 + 1] = u[2])
        BY <3>1, <3>3
      <3> QED BY <1>1, <2>1, <3>1, <3>3, <3>4, <3>5 DEF Blocks, Judges
    <2> QED BY <2>2, <2>3 DEF Accept, Later
  <1>6. WillBlock'
    BY <1>4, <1>5 DEF WillBlock, Judges
  <1>8. ASSUME NEW i \in DOMAIN todo'
        PROVE  LastOK(i)' /\ BooksOK(i)' /\ BlocksOK(i)' /\ StopsOK(i)' /\ BlockedOK(i)'
    <2>1. /\ ~Books(todo'[i])
          /\ todo'[i].subject = "run" => i = Len(todo') /\ k.status = "RUNNING"
          /\ Blocks(todo'[i]) => todo'[i].task \in Task
      BY <1>1, <1>5 DEF Books, Blocks, Judges
    <2>2. LastOK(i)' /\ BooksOK(i)' /\ BlocksOK(i)'
      BY <1>4, <2>1 DEF LastOK, BooksOK, BlocksOK
    <2>3. StopsOK(i)'
      BY <1>1, <1>6, <2>1 DEF StopsOK, Stops
    <2>4. BlockedOK(i)'
      BY <1>4, <1>5 DEF BlockedOK, Blocks, Judges
    <2> QED BY <2>2, <2>3, <2>4
  <1>9. PlanInv'
    BY <1>8 DEF PlanInv
  <1>10. StatusInv' /\ HoldInv'
    BY <1>1, HoldSame DEF StatusInv
  <1> QED BY <1>1, <1>2, <1>10, <1>9, FoldPlan

\* Results are landed.
LEMMA FoldLand ==
  ASSUME IInv, FoldInv, Land
  PROVE  FoldInv'
  <1>1. /\ pc = "accept" /\ UNCHANGED <<k, broken, fresh>> /\ pc' \in {"wave", "ending"}
    BY DEF Land, At, Goto, journal
  <1>2. \A i \in DOMAIN todo' :
          /\ todo'[i].subject = "task"
          /\ todo'[i].type \in {"RESULT_STAGED", "PROMOTION_OBSERVED", "TASK_VERIFIED"}
    BY LandEvents DEF Landed
  <1>4. PlanInv'
    BY <1>2 DEF PlanInv, LastOK, BooksOK, BlocksOK, StopsOK, BlockedOK, Books, Blocks, Stops
  <1>5. StatusInv' /\ HoldInv' /\ broken' # "kernel" /\ pc \notin {"down", "ending"}
    BY <1>1 DEF StatusInv, HoldInv, Waves, FoldInv
  <1> QED BY <1>1, <1>4, <1>5, FoldPlan

\* What the coordinator appends when a child effect was not applied.
LEMMA UnknownEvents ==
  ASSUME NEW op, NEW status, todo' = <<Tell(op, at, status)>> \o BlockUnknown(at, status)
  PROVE  Doubting'
  <1> SUFFICES ASSUME NEW why, NEW e1, NEW f2, NEW f3, NEW f4, NEW f5, NEW w,
                      why = IF status = "UNKNOWN" THEN "WORKER_OUTCOME_UNKNOWN"
                            ELSE "INVARIANT_VIOLATION",
                      e1 = Tell(op, at, status), f2 = Observed(at, status),
                      f3 = AttemptMove("ATTEMPT_OUTCOME_UNKNOWN", at, "DISPATCH_REQUESTED",
                                       "OUTCOME_UNKNOWN", why),
                      f4 = TaskMove("TASK_BLOCKED", at[1], "LEASED", "BLOCKED", why),
                      f5 = RunMove("RUN_BLOCKED", "RUNNING", "BLOCKED", why),
                      w = <<f2, f3, f4, f5>>
               PROVE  Doubting'
    OBVIOUS
  <1>1. BlockUnknown(at, status) = w
    BY DEF BlockUnknown
  <1>2. PICK E : e1 \in E /\ f2 \in E /\ f3 \in E /\ f4 \in E /\ f5 \in E
    <2> WITNESS {e1, f2, f3, f4, f5}
    <2> QED OBVIOUS
  <1>3. /\ e1.subject = "effect" /\ f2.subject = "dispatch" /\ f5.subject = "run"
        /\ Lapses(f3) /\ f3.to = "OUTCOME_UNKNOWN" /\ Blocks(f4)
    BY DEF Tell, Observed, AttemptMove, TaskMove, RunMove, Lapses, Blocks
  <1>4. ASSUME NEW s, s = <<e1>> \o w
        PROVE  /\ Len(s) = 5 /\ DOMAIN s = {1, 2, 3, 4, 5} /\ s[1] = e1
               /\ s[2] = f2 /\ s[3] = f3 /\ s[4] = f4 /\ s[5] = f5
    BY <1>2, <1>4, Prefixed4
  <1>5. todo' = <<e1>> \o w
    BY <1>1
  <1>6. /\ Len(todo') = 5 /\ DOMAIN todo' = {1, 2, 3, 4, 5} /\ todo'[1] = e1
        /\ todo'[2] = f2 /\ todo'[3] = f3 /\ todo'[4] = f4 /\ todo'[5] = f5
    BY <1>4, <1>5
  <1> QED BY <1>3, <1>6 DEF Doubting

\* The answer to a child effect, and an effect or a dispatch after it.
LEMMA AnswerSilent ==
  ASSUME NEW e1, NEW e2, e1.subject = "effect", e2.subject \in {"effect", "dispatch"},
         NEW u, u = <<e2>>, NEW s, s = <<e1>> \o u
  PROVE  \A i \in DOMAIN s : s[i].subject \in {"effect", "dispatch"}
  <1>1. PICK E : e1 \in E /\ e2 \in E
    <2> WITNESS {e1, e2}
    <2> QED OBVIOUS
  <1>2. DOMAIN s = {1, 2} /\ s[1] = e1 /\ s[2] = e2
    BY <1>1, Prefixed1
  <1> QED BY <1>2

\* The provider answers a child effect of a dispatch: the outcome is unknown when
\* it was not applied, and the run is blocked for it.
LEMMA FoldChild ==
  ASSUME IInv, FoldInv, pc \in {"channel", "packet"}, fresh,
         UNCHANGED <<k, broken, wave, fresh>>,
         \/ todo' = <<>> /\ pc' = "ending"
         \/ /\ pc' \in {"packet", "dispatch"}
            /\ \A i \in DOMAIN todo' : todo'[i].subject \in {"effect", "dispatch"}
         \/ /\ pc' = "ending"
            /\ \E op, status : todo' = <<Tell(op, at, status)>> \o BlockUnknown(at, status)
  PROVE  FoldInv'
  <1>1. k.status = "RUNNING" /\ broken' # "kernel" /\ pc \notin {"down", "ending"}
    BY DEF FoldInv, StatusInv
  <1>2. StatusInv' /\ HoldInv'
    <2>1. pc \in Waves \ {"wave"}
      BY DEF Waves
    <2> QED BY <1>1, <2>1, HoldSame DEF StatusInv
  <1>3. CASE todo' = <<>>
    <2>1. DOMAIN todo' = {}
      BY <1>3
    <2> QED BY <1>1, <1>2, <2>1, FoldSilent
  <1>4. CASE \A i \in DOMAIN todo' : todo'[i].subject \in {"effect", "dispatch"}
    BY <1>1, <1>2, <1>4, FoldSilent
  <1>5. ASSUME NEW op, NEW status, pc' = "ending",
               todo' = <<Tell(op, at, status)>> \o BlockUnknown(at, status)
        PROVE  FoldInv'
    <2>1. /\ \A i \in DOMAIN todo' :
               \/ todo'[i].subject \in {"effect", "dispatch"}
               \/ Lapses(todo'[i]) /\ todo'[i].to = "OUTCOME_UNKNOWN"
               \/ Blocks(todo'[i])
               \/ todo'[i].subject = "run" /\ i = Len(todo')
          /\ \E i \in DOMAIN todo' : Lapses(todo'[i])
      BY <1>5, UnknownEvents DEF Doubting
    <2>2. WillBlock'
      BY <2>1 DEF WillBlock, Lapses
    <2>4. PlanInv'
      BY <1>1, <1>5, <2>1, <2>2
         DEF PlanInv, LastOK, BooksOK, BlocksOK, StopsOK, BlockedOK, Books, Blocks, Lapses
    <2> QED BY <1>1, <1>2, <1>5, <2>4, FoldPlan
  <1> QED BY <1>3, <1>4, <1>5

\* The provider answers the reservation of a channel, or the task packet.
LEMMA FoldAnswer ==
  ASSUME IInv, FoldInv, ReserveChannel \/ SendTaskPacket
  PROVE  FoldInv'
  <1>1. /\ pc \in {"channel", "packet"} /\ fresh
        /\ UNCHANGED <<k, broken, wave, fresh>>
    BY DEF ReserveChannel, SendTaskPacket, Child, Goto, At, journal
  <1>2. ASSUME NEW op, NEW e2, e2.subject \in {"effect", "dispatch"}, NEW u, u = <<e2>>,
               NEW status, NEW next \in {"packet", "dispatch"},
               todo' = IF status = "none" THEN <<>>
                       ELSE <<Tell(op, at, status)>> \o
                              (IF status = "APPLIED" THEN u ELSE BlockUnknown(at, status)),
               pc' = IF status = "APPLIED" THEN next ELSE "ending"
        PROVE  FoldInv'
    <2>1. CASE status = "none"
      BY <1>1, <1>2, <2>1, FoldChild
    <2>2. CASE status = "APPLIED"
      <3>1. todo' = <<Tell(op, at, status)>> \o u /\ Tell(op, at, status).subject = "effect"
        BY <1>2, <2>2 DEF Tell
      <3>2. ASSUME NEW e1, e1 = Tell(op, at, status)
            PROVE  \A i \in DOMAIN todo' : todo'[i].subject \in {"effect", "dispatch"}
        <4>1. todo' = <<e1>> \o u /\ e1.subject = "effect"
          BY <3>1, <3>2
        <4> QED BY <1>2, <4>1, AnswerSilent
      <3> QED BY <1>1, <1>2, <2>2, <3>2, FoldChild
    <2>3. CASE status \notin {"none", "APPLIED"}
      <3>1. todo' = <<Tell(op, at, status)>> \o BlockUnknown(at, status) /\ pc' = "ending"
        BY <1>2, <2>3
      <3> QED BY <1>1, <3>1, FoldChild
    <2> QED BY <2>1, <2>2, <2>3
  <1>3. CASE ReserveChannel
    <2> SUFFICES ASSUME NEW e2, e2 = Ask("send", at), NEW u, u = <<e2>>
                 PROVE  FoldInv'
      OBVIOUS
    <2>1. e2.subject = "effect"
      BY DEF Ask
    <2>2. PICK status :
            /\ todo' = IF status = "none" THEN <<>>
                       ELSE <<Tell("reserve", at, status)>> \o
                              (IF status = "APPLIED" THEN u ELSE BlockUnknown(at, status))
            /\ pc' = IF status = "APPLIED" THEN "packet" ELSE "ending"
      BY <1>3 DEF ReserveChannel, Child, Later, Goto
    <2> QED BY <1>2, <2>1, <2>2
  <1>4. CASE SendTaskPacket
    <2> SUFFICES ASSUME NEW e2, e2 = Observed(at, "APPLIED"), NEW u, u = <<e2>>
                 PROVE  FoldInv'
      OBVIOUS
    <2>1. e2.subject = "dispatch"
      BY DEF Observed
    <2>2. PICK status :
            /\ todo' = IF status = "none" THEN <<>>
                       ELSE <<Tell("send", at, status)>> \o
                              (IF status = "APPLIED" THEN u ELSE BlockUnknown(at, status))
            /\ pc' = IF status = "APPLIED" THEN "dispatch" ELSE "ending"
      BY <1>4 DEF SendTaskPacket, Child, Later, Goto
    <2> QED BY <1>2, <2>1, <2>2
  <1> QED BY <1>3, <1>4

\* The coordinator starts: what is reserved is of an epoch that is over.
LEMMA FoldStart ==
  ASSUME IInv, FoldInv, Start
  PROVE  FoldInv'
  <1>1. /\ k' = [k EXCEPT !.epoch = k.epoch + 1] /\ k \in AnySnapshot
        /\ pc' = "reconcile" /\ todo' = <<>> /\ UNCHANGED broken
    BY DEF Start, FoldLease, IInv, DType
  <1>2. /\ k'.attempt = k.attempt /\ k'.task = k.task /\ k'.status = k.status
        /\ k'.epoch = k.epoch + 1 /\ k.epoch \in Nat
    BY <1>1 DEF AnySnapshot
  <1>3. DOMAIN todo' = {}
    BY <1>1
  <1>5. \A t \in Task : \A n \in DOMAIN k'.attempt[t] : k'.attempt[t][n].epoch < k'.epoch
    <2>1. ASSUME NEW t \in Task, NEW n \in DOMAIN k.attempt[t]
          PROVE  k.attempt[t][n].epoch < k.epoch + 1
      <3>1. k.attempt[t][n].epoch \in Nat
        BY AttemptsKnown DEF IInv
      <3>2. k.attempt[t][n].epoch <= k.epoch
        BY DEF FoldInv, EpochInv
      <3> QED BY <1>2, <3>1, <3>2
    <2> QED BY <1>2, <2>1
  <1>6. EpochInv' /\ StuckInv'
    <2>1. ASSUME NEW t \in Task, NEW n \in DOMAIN k'.attempt[t]
          PROVE  k'.attempt[t][n].epoch <= k'.epoch
      <3>1. k'.attempt[t][n].epoch \in Nat /\ k'.epoch \in Nat
        BY <1>2, AttemptsKnown DEF IInv
      <3> QED BY <1>5, <3>1
    <2> QED BY <1>5, <2>1 DEF EpochInv, StuckInv
  <1>7. HoldInv' /\ StatusInv' /\ ReasonInv' /\ PlanInv' /\ broken' # "kernel"
    BY <1>1, <1>2, <1>3, MovesNothing
       DEF HoldInv, StatusInv, ReasonInv, PlanInv, Waves, FoldInv
  <1> QED BY <1>6, <1>7 DEF FoldInv

\* The events that block a task or reserve an attempt name a task.
LEMMA TasksNamed ==
  ASSUME DType, NEW i \in DOMAIN todo
  PROVE  Books(todo[i]) \/ Blocks(todo[i]) => todo[i].task \in Task
  <1>1. todo[i] \in Event
    BY ElementOfSeq, LenProperties DEF DType
  <1> QED BY <1>1 DEF Books, Blocks, Event, RunEvent, TaskEvent, AttemptEvent, EffectEvent,
                      DispatchEvent

\* The resume command: no attempt moves, and no task but from BLOCKED to READY.
LEMMA FoldResumeFrame ==
  ASSUME IInv, FoldInv, UNCHANGED <<pc, todo, wave, broken>>, fresh' = FALSE,
         k'.attempt = k.attempt, k'.epoch = k.epoch, ReasonInv',
         \A t \in Task : State(t)' = State(t) \/ (State(t) = "BLOCKED" /\ State(t)' = "READY")
  PROVE  FoldInv'
  <1>1. \A t : (Booked(t)' <=> Booked(t)) /\ (Astray(t)' <=> Astray(t))
    BY DEF Booked, Astray, LostAt, S
  <1>3. EpochInv' /\ StatusInv' /\ broken' # "kernel"
    BY DEF FoldInv, EpochInv, StatusInv
  <1>4. HoldInv'
    BY <1>1 DEF FoldInv, HoldInv
  <1>5. StuckInv'
    <2> SUFFICES ASSUME NEW t \in Task, NEW n \in DOMAIN k.attempt[t], S(t, n) = "RESERVED",
                        pc \notin {"down", "ending"}
                 PROVE  k.attempt[t][n].epoch < k.epoch \/ State(t)' # "BLOCKED"
      BY DEF StuckInv, S
    <2> QED BY DEF FoldInv, StuckInv
  <1>6. ASSUME NEW i \in DOMAIN todo'
        PROVE  LastOK(i)' /\ BooksOK(i)' /\ BlocksOK(i)' /\ StopsOK(i)' /\ BlockedOK(i)'
    <2>1. i \in DOMAIN todo /\ LastOK(i) /\ BooksOK(i) /\ BlocksOK(i)
      BY DEF FoldInv, PlanInv
    <2>2. LastOK(i)' /\ BlocksOK(i)' /\ StopsOK(i)' /\ BlockedOK(i)'
      BY <1>1, <2>1 DEF LastOK, BlocksOK, StopsOK, BlockedOK
    <2>3. BooksOK(i)'
      <3>1. Books(todo[i]) => todo[i].task \in Task
        BY <2>1, TasksNamed DEF IInv
      <3> QED BY <2>1, <3>1 DEF BooksOK, TaskEventIs
    <2> QED BY <2>1, <2>2, <2>3
  <1>7. PlanInv'
    BY <1>6 DEF PlanInv
  <1> QED BY <1>3, <1>4, <1>5, <1>7 DEF FoldInv

\* The resume command moves no attempt, and no task but from BLOCKED to READY.
LEMMA ResumeMoves ==
  ASSUME IInv, ResumeCommand
  PROVE  /\ k'.attempt = k.attempt /\ k'.epoch = k.epoch /\ UNCHANGED todo
         /\ \A t \in Task :
              State(t)' = State(t) \/ (State(t) = "BLOCKED" /\ State(t)' = "READY")
         /\ ResumeRun => k'.status = "RUNNING"
  <1>1. UNCHANGED todo /\ k.epoch \in Nat
    BY DEF ResumeCommand, ResumeProof, ResumeRetry, ResumeRun, Resume, IInv, DType, AnySnapshot
  <1>2. ASSUME NEW id \in AnId, NEW e, recovery.step = "proof",
               e = TaskMove("TASK_RETRY_SCHEDULED", id[1], "BLOCKED", "READY", "none"),
               Accepts(k, e), k' = Fold(k, e)
        PROVE  /\ k'.attempt = k.attempt /\ k'.epoch = k.epoch
               /\ \A t \in Task :
                    State(t)' = State(t) \/ (State(t) = "BLOCKED" /\ State(t)' = "READY")
    <2>1. e \in TaskEvent
      BY <1>1, <1>2 DEF TaskMove, TaskEvent, TaskState, Why, AnId
    <2>2. e.task = id[1] /\ e.from = "BLOCKED" /\ e.to = "READY"
      BY <1>2 DEF TaskMove
    <2> QED BY <1>2, <2>1, <2>2, TaskFolded DEF IInv, DType, State
  <1>3. ASSUME NEW e, e = RunMove("RUN_RESUMED", "BLOCKED", "RUNNING", "none"),
               Accepts(k, e), k' = Fold(k, e)
        PROVE  /\ k'.attempt = k.attempt /\ k'.epoch = k.epoch /\ k'.task = k.task
               /\ k'.status = "RUNNING"
    <2>1. e \in RunEvent
      BY <1>1, <1>3 DEF RunMove, RunEvent, RunStatus, Why
    <2>2. e.subject = "run" /\ e.type = "RUN_RESUMED" /\ ~IsPhase(e) /\ e.to = "RUNNING"
      BY <1>3 DEF RunMove, IsPhase, PhaseMoves
    <2>3. k'.status = "RUNNING"
      BY <1>3, <2>2 DEF Fold, RunFold, IInv, DType, AnySnapshot
    <2> QED BY <1>3, <2>1, <2>3, RunFolded DEF IInv, DType
  <1>4. CASE \E id \in Attempts : ResumeProof(id)
    <2>1. UNCHANGED k /\ ~ResumeRun
      BY <1>4 DEF ResumeProof, ResumeRun, NoRecovery
    <2> QED BY <1>1, <2>1, FoldSame
  <1>5. CASE ResumeRetry
    <2>1. ~ResumeRun
      BY <1>5 DEF ResumeRetry, ResumeRun
    <2>2. recovery.id \in AnId
      BY <1>5 DEF ResumeRetry, IInv, DType, NoRecovery
    <2> QED BY <1>1, <1>2, <1>5, <2>1, <2>2 DEF ResumeRetry
  <1>6. CASE ResumeRun
    BY <1>1, <1>3, <1>6, MovesNothing DEF ResumeRun
  <1> QED BY <1>4, <1>5, <1>6 DEF ResumeCommand

\* A resume settles an unknown outcome: that is why the run is blocked.
LEMMA FoldResume ==
  ASSUME IInv, FoldInv, ResumeCommand
  PROVE  FoldInv'
  <1>1. UNCHANGED <<broken, pc, todo, wave>> /\ fresh' = FALSE
    BY DEF ResumeCommand, ResumeProof, ResumeRetry, ResumeRun, Resume
  <1>2. ASSUME NEW id \in Attempts, ResumeProof(id) PROVE ReasonInv'
    <2>1. UNCHANGED k
      BY <1>2 DEF ResumeProof
    <2> QED BY <2>1, FoldSame DEF FoldInv, ReasonInv
  <1>3. ASSUME ResumeRetry PROVE ReasonInv'
    <2>1. Known(recovery.id) /\ Of(recovery.id).state = "OUTCOME_UNKNOWN"
      BY <1>3 DEF ResumeRetry, IInv, ResolvedInv, DType, NoRecovery
    <2>2. AnyLapsed
      BY <2>1, KnownIs DEF AnyLapsed, Lapsed, S
    <2> QED BY <2>2, ResumeMoves DEF AnyLapsed, Lapsed, S, ReasonInv, Blocked
  <1>4. ASSUME ResumeRun PROVE ReasonInv'
    BY <1>4, ResumeMoves DEF ReasonInv
  <1>5. ReasonInv'
    BY <1>2, <1>3, <1>4 DEF ResumeCommand
  <1> QED BY <1>1, <1>5, ResumeMoves, FoldResumeFrame

\* What the workers do, and what is left alone, changes nothing of it.
LEMMA FoldStill ==
  ASSUME FoldInv, UNCHANGED <<k, broken, pc, fresh, todo, wave>>
  PROVE  FoldInv'
  <1>2. HoldInv' /\ StatusInv' /\ broken' # "kernel"
    BY HoldSame DEF FoldInv, StatusInv
  <1>3. ASSUME NEW i \in DOMAIN todo'
        PROVE  LastOK(i)' /\ BooksOK(i)' /\ BlocksOK(i)' /\ StopsOK(i)' /\ BlockedOK(i)'
    <2>1. i \in DOMAIN todo /\ LastOK(i) /\ BooksOK(i) /\ BlocksOK(i) /\ StopsOK(i)
          /\ BlockedOK(i)
      BY DEF FoldInv, PlanInv
    <2>2. WillBlock => WillBlock'
      BY FoldSame DEF WillBlock, TaskEventIs
    <2>3. LastOK(i)' /\ BlocksOK(i)' /\ StopsOK(i)' /\ BlockedOK(i)'
      BY <2>1, <2>2, FoldSame DEF LastOK, BlocksOK, StopsOK, BlockedOK
    <2>4. BooksOK(i)'
      BY <2>1 DEF BooksOK, TaskEventIs, State
    <2> QED BY <2>3, <2>4
  <1>4. PlanInv'
    BY <1>3 DEF PlanInv
  <1> QED BY <1>2, <1>4, FoldPlan

\* The run will still be blocked for such a reason, by an event that is left.
LEMMA WillBlockShift ==
  ASSUME IInv, FoldInv, Took, NEW e, e = todo[1], Keeps(e), WillBlock, e.subject # "run"
  PROVE  WillBlock'
  <1>1. \A j \in DOMAIN todo : j = 1 \/ (j - 1 \in DOMAIN todo' /\ todo'[j - 1] = todo[j])
    BY Shift DEF IInv
  <1>2. \A i \in DOMAIN todo' : i + 1 \in DOMAIN todo /\ todo'[i] = todo[i + 1]
    BY Shift DEF IInv
  <1>3. 1 \in DOMAIN todo
    BY Shift DEF IInv
  <1>4. CASE AnyLapsed
    BY <1>4 DEF Keeps, WillBlock
  <1>5. CASE \E i \in DOMAIN todo : Lapses(todo[i])
    <2>1. PICK i \in DOMAIN todo : Lapses(todo[i])
      BY <1>5
    <2>2. CASE i = 1
      BY <2>1, <2>2 DEF Keeps, WillBlock
    <2>3. CASE i # 1
      BY <1>1, <2>1, <2>3 DEF WillBlock
    <2> QED BY <2>2, <2>3
  <1>6. ASSUME \A i \in DOMAIN todo : todo[i].subject = "run" \/ Blocks(todo[i]),
               NEW t \in Task, Booked(t),
               State(t) = "BLOCKED" \/ \E i \in DOMAIN todo : TaskEventIs(i, t, "TASK_BLOCKED")
        PROVE  WillBlock'
    <2>1. Blocks(e)
      BY <1>3, <1>6
    <2>2. Booked(t)'
      BY <1>6, <2>1 DEF Keeps
    <2>3. \A i \in DOMAIN todo' : todo'[i].subject = "run" \/ Blocks(todo'[i])
      BY <1>2, <1>6
    <2>4. State(t)' = "BLOCKED" \/ \E i \in DOMAIN todo' : TaskEventIs(i, t, "TASK_BLOCKED")'
      BY <1>1, <1>6, <2>1 DEF Keeps, TaskEventIs
    <2> QED BY <2>2, <2>3, <2>4 DEF WillBlock, TaskEventIs
  <1>7. CASE /\ Idle
             /\ \A i \in DOMAIN todo :
                  todo[i].subject = "attempt" => todo[i].to \notin {"RESERVED", "TERMINATED"}
    <2>1. Idle'
      BY <1>3, <1>7 DEF Keeps
    <2> QED BY <1>2, <1>7, <2>1 DEF WillBlock
  <1> QED BY <1>4, <1>5, <1>6, <1>7 DEF WillBlock

\* What is left to append is still what it was to be.
LEMMA PlanShift ==
  ASSUME IInv, FoldInv, Took, NEW e, e = todo[1], Keeps(e), e.subject # "run"
  PROVE  PlanInv'
  <1>1. /\ \A i \in DOMAIN todo' : i + 1 \in DOMAIN todo /\ todo'[i] = todo[i + 1]
        /\ \A i \in DOMAIN todo : i > 1 => i - 1 \in DOMAIN todo' /\ todo'[i - 1] = todo[i]
    BY Shift DEF IInv
  <1>4. PICK n \in Nat : n = Len(todo') /\ n + 1 = Len(todo) /\ 1 \in DOMAIN todo
                         /\ DOMAIN todo' = 1..n /\ DOMAIN todo = 1..(n + 1)
    <2>1. /\ Len(todo) \in Nat /\ Len(todo) >= 1 /\ Len(todo') = Len(todo) - 1
          /\ DOMAIN todo' = 1..Len(todo') /\ DOMAIN todo = 1..Len(todo)
      BY Shift DEF IInv
    <2>2. Len(todo') \in Nat /\ Len(todo) = Len(todo') + 1
      BY <2>1
    <2> QED BY <2>1, <2>2
  <1>2. UNCHANGED <<pc, fresh>>
    BY DEF Took
  <1>3. ASSUME NEW i \in DOMAIN todo'
        PROVE  LastOK(i)' /\ BooksOK(i)' /\ BlocksOK(i)' /\ StopsOK(i)' /\ BlockedOK(i)'
    <2>1. /\ i + 1 \in DOMAIN todo /\ todo'[i] = todo[i + 1]
          /\ LastOK(i + 1) /\ BooksOK(i + 1) /\ BlocksOK(i + 1) /\ StopsOK(i + 1)
          /\ BlockedOK(i + 1) /\ BlockedOK(1)
      BY <1>1, <1>4 DEF FoldInv, PlanInv
    <2>2. LastOK(i)'
      BY <1>4, <2>1 DEF LastOK
    <2>3. ~Books(e)
      <3>1. LastOK(1) /\ 1 # Len(todo)
        BY <1>4 DEF FoldInv, PlanInv
      <3> QED BY <3>1 DEF LastOK
    <2>4. BlocksOK(i)'
      <3>1. Blocks(todo[i + 1]) => todo[i + 1].task \in Task
        BY <2>1, TasksNamed DEF IInv
      <3> QED BY <1>2, <2>1, <2>3, <3>1 DEF BlocksOK, Keeps
    <2>5. StopsOK(i)'
      BY <1>2, <2>1, WillBlockShift DEF StopsOK, Keeps
    <2>6. BlockedOK(i)'
      <3>1. ASSUME fresh, k.status # "RUNNING", Idle
            PROVE  Idle'
        <4>1. e.subject = "attempt" => e.to \notin {"RESERVED", "TERMINATED"}
          BY <2>1, <3>1 DEF BlockedOK
        <4> QED BY <3>1, <4>1 DEF Keeps
      <3>2. k'.status = k.status
        BY DEF Keeps
      <3> QED BY <1>2, <2>1, <3>1, <3>2 DEF BlockedOK
    <2>7. ASSUME Books(todo[i + 1]), NEW t \in Task, t = todo[i + 1].task
          PROVE  \/ i > 1 /\ TaskEventIs(i - 1, t, "LEASE_ACQUIRED")'
                 \/ State(t)' = "LEASED" /\ \A j \in DOMAIN todo' : todo'[j].subject = "attempt"
      <3>1. CASE TaskEventIs(i, t, "LEASE_ACQUIRED") /\ i > 1
        <4>1. i - 1 \in DOMAIN todo' /\ todo'[i - 1] = todo[i]
          <5>1. i \in DOMAIN todo
            BY <1>4
          <5> QED BY <1>1, <3>1, <5>1
        <4> QED BY <3>1, <4>1 DEF TaskEventIs
      <3>2. CASE TaskEventIs(i, t, "LEASE_ACQUIRED") /\ i = 1
        <4>1. State(t)' = "LEASED"
          BY <3>2 DEF Keeps, Brings, TaskEventIs
        <4>2. Len(todo') = 1
          <5>1. i + 1 = n + 1
            BY <1>4, <2>1, <2>7 DEF LastOK
          <5> QED BY <1>4, <3>2, <5>1
        <4>3. \A j \in DOMAIN todo' : j = i
          BY <1>4, <3>2, <4>2
        <4> QED BY <2>1, <2>7, <4>1, <4>3 DEF Books
      <3>3. CASE State(t) = "LEASED" /\ \A j \in DOMAIN todo : todo[j].subject = "attempt"
        BY <1>1, <1>4, <3>3 DEF Keeps
      <3>4. (i + 1) - 1 = i /\ (i > 1 \/ i = 1)
        BY <1>4
      <3> QED BY <2>1, <2>7, <3>1, <3>2, <3>3, <3>4 DEF BooksOK
    <2>8. BooksOK(i)'
      <3>1. Books(todo[i + 1]) => todo[i + 1].task \in Task
        BY <2>1, TasksNamed DEF IInv
      <3> QED BY <2>1, <2>7, <3>1 DEF BooksOK
    <2> QED BY <2>2, <2>4, <2>5, <2>6, <2>8
  <1> QED BY <1>3 DEF PlanInv

\* An event is folded, and leaves the reasons.
LEMMA FoldTook ==
  ASSUME IInv, FoldInv, Took, NEW e, e = todo[1], Keeps(e), e.subject # "run",
         EpochInv', HoldInv', StuckInv', ReasonInv'
  PROVE  FoldInv'
  <1>1. PlanInv'
    BY PlanShift
  <1>2. StatusInv' /\ broken' # "kernel"
    BY DEF FoldInv, StatusInv, Took, Keeps
  <1> QED BY <1>1, <1>2 DEF FoldInv

\* A task moves.
LEMMA TaskGone ==
  ASSUME IInv, NEW e \in TaskEvent, Accepts(k, e), k' = Fold(k, e)
  PROVE  TaskWent(e) /\ Keeps(e)
  <1>1. /\ k'.attempt = k.attempt /\ k'.epoch = k.epoch /\ k'.status = k.status
        /\ <<e.type, e.from, e.to>> \in TaskMoves
        /\ State(e.task) = e.from /\ State(e.task)' = e.to
        /\ \A u \in Task : u # e.task => State(u)' = State(u)
    BY TaskFolded DEF IInv, DType, State
  <1>2. /\ e.to \in Active => e.from \in Active \/ e.type = "LEASE_ACQUIRED"
        /\ e.from = "BLOCKED" => e.type = "TASK_RETRY_SCHEDULED"
        /\ e.type = "LEASE_ACQUIRED" => e.to = "LEASED"
        /\ e.type = "TASK_BLOCKED" <=> e.to = "BLOCKED"
    BY <1>1 DEF TaskMoves, Moves, Active, TaskEvent
  <1>3. e.subject = "task" /\ e.task \in Task
    BY DEF TaskEvent
  <1>4. /\ \A u : (Booked(u)' <=> Booked(u)) /\ (Astray(u)' <=> Astray(u))
        /\ (AnyLapsed' <=> AnyLapsed)
    BY <1>1 DEF Booked, Astray, AnyLapsed, Lapsed, LostAt, S
  <1>5. Idle' <=> Idle
    BY <1>4 DEF Idle
  <1>6. TaskWent(e)
    BY <1>1, <1>2, <1>3, <1>4, <1>5 DEF TaskWent
  <1>7. \A u : Brings(e, u) <=> e.type = "LEASE_ACQUIRED" /\ u = e.task
    BY <1>3 DEF Brings
  <1>8. Gives(e)
    <2>1. ASSUME NEW u \in Task
          PROVE  State(u)' \in Active => State(u) \in Active \/ Brings(e, u)
      BY <1>1, <1>2, <1>7
    <2> QED BY <1>4, <2>1 DEF Gives
  <1>9. \A u \in Task : Brings(e, u) => State(u)' = "LEASED"
    BY <1>1, <1>2, <1>7
  <1>10. ASSUME NEW u \in Task, Blocks(e), State(u) = "BLOCKED" \/ e.task = u
         PROVE  State(u)' = "BLOCKED"
    BY <1>1, <1>2, <1>10 DEF Blocks
  <1>11. ~Lapses(e)
    BY <1>3 DEF Lapses
  <1> QED BY <1>1, <1>3, <1>4, <1>5, <1>6, <1>8, <1>9, <1>10, <1>11 DEF Keeps

\* It is folded, and leaves the reasons.
LEMMA FoldTookTask ==
  ASSUME IInv, FoldInv, fresh, Took, NEW e \in TaskEvent, e = todo[1], Accepts(k, e),
         k' = Fold(k, e)
  PROVE  FoldInv'
  <1> DEFINE t == e.task
  <1> USE DEF TaskWent
  <1>1. TaskWent(e) /\ Keeps(e)
    BY TaskGone
  <1>6. UNCHANGED <<pc, fresh, wave>> /\ BlocksOK(1) /\ BlockedOK(1)
    <2>1. 1 \in DOMAIN todo
      BY Shift DEF IInv
    <2> QED BY <2>1 DEF Took, FoldInv, PlanInv
  <1>8. EpochInv'
    BY <1>1 DEF FoldInv, EpochInv
  <1>9. HoldInv'
    BY <1>1, <1>6 DEF FoldInv, HoldInv
  <1>10. StuckInv'
    <2> SUFFICES ASSUME NEW u \in Task, NEW n \in DOMAIN k.attempt[u], S(u, n) = "RESERVED",
                        pc \notin {"down", "ending"}
                 PROVE  k.attempt[u][n].epoch < k.epoch \/ State(u)' # "BLOCKED"
      BY <1>1, <1>6 DEF StuckInv, S
    <2>1. k.attempt[u][n].epoch < k.epoch \/ State(u) # "BLOCKED"
      BY DEF FoldInv, StuckInv
    <2>2. CASE u # t
      BY <1>1, <2>1, <2>2
    <2>3. CASE u = t
      <3>1. Booked(t)
        BY <2>3 DEF Booked
      <3>2. ~Blocks(e)
        BY <1>6, <3>1 DEF BlocksOK
      <3> QED BY <1>1, <2>3, <3>2 DEF Blocks
    <2> QED BY <2>2, <2>3
  <1>11. ReasonInv'
    <2> SUFFICES ASSUME k.status # "RUNNING" PROVE Blocked'
      BY <1>1 DEF ReasonInv
    <2>1. AnyLapsed \/ Idle \/ \E u \in Task : Booked(u) /\ State(u) = "BLOCKED"
      BY DEF FoldInv, ReasonInv, Blocked, Stuck
    <2>2. ASSUME NEW u \in Task, Booked(u), State(u) = "BLOCKED", ~Idle
          PROVE  Booked(u)' /\ State(u)' = "BLOCKED"
      <3>1. e.type # "TASK_RETRY_SCHEDULED"
        BY <1>1, <1>6, <2>2 DEF BlockedOK
      <3> QED BY <1>1, <2>2, <3>1
    <2> QED BY <1>1, <2>1, <2>2 DEF Blocked, Stuck
  <1> QED BY <1>1, <1>8, <1>9, <1>10, <1>11, FoldTook

\* The run moves: no event comes after it, and it is blocked for a reason.
LEMMA FoldTookRun ==
  ASSUME IInv, FoldInv, fresh, Took, NEW e \in RunEvent, e = todo[1], Accepts(k, e),
         k' = Fold(k, e)
  PROVE  FoldInv'
  <1>1. k'.attempt = k.attempt /\ k'.task = k.task /\ k'.epoch = k.epoch
    BY RunFolded DEF IInv, DType
  <1>2. e.subject = "run" /\ e.type \in {"RUN_RESUMED", "RUN_BLOCKED"}
    BY DEF RunEvent
  <1>3. e.type = "RUN_RESUMED" => k'.status = "RUNNING"
    <2>1. ~IsPhase(e) /\ RunAccepts(k, e) /\ k' = RunFold(k, e)
      BY <1>2 DEF IsPhase, PhaseMoves, Accepts, Fold
    <2>2. e.type = "RUN_RESUMED" => e.to = "RUNNING"
      BY <2>1 DEF RunAccepts, StatusMoves, Moves
    <2> QED BY <1>2, <2>1, <2>2 DEF RunFold, IInv, DType, AnySnapshot
  <1>4. /\ 1 \in DOMAIN todo /\ LastOK(1) /\ StopsOK(1) /\ RunEventOK(1)
        /\ UNCHANGED <<pc, fresh, wave, broken>>
    <2>1. 1 \in DOMAIN todo
      BY Shift DEF IInv
    <2> QED BY <2>1 DEF FoldInv, PlanInv, IInv, TodoInv, Took
  <1>5. DOMAIN todo' = {} /\ DOMAIN todo = {1}
    <2>1. Len(todo) = 1
      BY <1>2, <1>4 DEF LastOK
    <2>2. todo' = <<>> /\ DOMAIN todo = 1..1
      BY <2>1, Shift DEF IInv
    <2> QED BY <2>2
  <1>7. EpochInv' /\ PlanInv'
    BY <1>1, <1>5 DEF FoldInv, EpochInv, PlanInv
  <1>8. HoldInv'
    BY <1>1, <1>4, MovesNothing DEF FoldInv, HoldInv
  <1>9. StuckInv'
    BY <1>1, <1>4, MovesNothing DEF FoldInv, StuckInv, S
  <1>10. StatusInv' /\ broken' # "kernel"
    BY <1>2, <1>4 DEF RunEventOK, StatusInv, FoldInv
  <1>11. ReasonInv'
    <2>1. CASE e.type = "RUN_RESUMED"
      BY <1>3, <2>1 DEF ReasonInv
    <2>2. CASE e.type = "RUN_BLOCKED"
      <3>1. WillBlock
        BY <1>2, <1>4, <2>2 DEF StopsOK, Stops
      <3>2. /\ ~Lapses(todo[1]) /\ \A t \in Task : ~TaskEventIs(1, t, "TASK_BLOCKED")
        BY <1>2 DEF Lapses, TaskEventIs
      <3>3. Blocked
        BY <1>5, <3>1, <3>2 DEF WillBlock, Blocked, Stuck
      <3> QED BY <1>1, <3>3, MovesNothing DEF ReasonInv
    <2> QED BY <1>2, <2>1, <2>2
  <1> QED BY <1>7, <1>8, <1>9, <1>10, <1>11 DEF FoldInv

\* An effect is asked for or answered, or a dispatch is observed that was not applied.
LEMMA FoldTookQuiet ==
  ASSUME IInv, FoldInv, Took, NEW e, e = todo[1], e.subject \in {"effect", "dispatch"},
         UNCHANGED k
  PROVE  FoldInv'
  <1>1. Keeps(e)
    BY FoldSame DEF Keeps, Gives, Brings, Lapses, Blocks
  <1>2. UNCHANGED <<pc, fresh, wave>>
    BY DEF Took
  <1>3. EpochInv' /\ ReasonInv'
    BY FoldSame DEF FoldInv, EpochInv, ReasonInv
  <1>4. HoldInv' /\ StuckInv'
    BY <1>2, FoldSame DEF FoldInv, HoldInv, StuckInv, S
  <1> QED BY <1>1, <1>3, <1>4, FoldTook

\* A dispatch is observed that was applied.
LEMMA ObservedGone ==
  ASSUME IInv, NEW e \in DispatchEvent, ObservedAccepts(k, e), k' = ObservedFold(k, e)
  PROVE  ObservedWent(e) /\ Keeps(e)
  <1> DEFINE t == e.task
             n == e.attempt
  <1>1. /\ k'.epoch = k.epoch /\ n \in DOMAIN k.attempt[t]
        /\ DOMAIN k'.attempt[t] = DOMAIN k.attempt[t]
        /\ S(t, n) = "DISPATCH_REQUESTED" /\ k'.attempt[t][n].state = "RUNNING"
        /\ k'.attempt[t][n].epoch = k.attempt[t][n].epoch
        /\ State(t) = "LEASED" /\ State(t)' = "DISPATCHED"
        /\ \A u \in Task : u # t => State(u)' = State(u) /\ k'.attempt[u] = k.attempt[u]
        /\ \A m \in DOMAIN k.attempt[t] : m # n => k'.attempt[t][m] = k.attempt[t][m]
        /\ t \in Task /\ e.subject = "dispatch"
    <2>1. t \in Task /\ e.subject = "dispatch"
      BY DEF DispatchEvent
    <2> USE DEF Carried
    <2>2. Carried(t, n)
      BY ObservedFolded DEF IInv, DType
    <2>3. DOMAIN k'.attempt[t] = DOMAIN k.attempt[t]
      <3>1. k'.attempt[t] \in Seq(AnAttempt) /\ k.attempt[t] \in Seq(AnAttempt)
        BY <2>1, <2>2 DEF IInv, DType, AnySnapshot
      <3> QED BY <2>2, <3>1, LenProperties
    <2> QED BY <2>1, <2>2, <2>3 DEF State
  <1>2. k'.status = k.status
    BY DEF ObservedFold, IInv, DType, AnySnapshot
  <1>4. ASSUME NEW u \in Task, NEW m \in DOMAIN k.attempt[u]
        PROVE  /\ m \in DOMAIN k'.attempt[u]
               /\ k'.attempt[u][m].epoch = k.attempt[u][m].epoch
               /\ S(u, m)' = "RESERVED" <=> S(u, m) = "RESERVED"
               /\ LostAt(u, m)' <=> LostAt(u, m)
               /\ Lapsed(u, m)' <=> Lapsed(u, m)
    <2>1. CASE u = t /\ m = n
      BY <1>1, <2>1 DEF S, LostAt, Lapsed
    <2>2. CASE ~(u = t /\ m = n)
      <3>1. k'.attempt[u][m] = k.attempt[u][m] /\ DOMAIN k'.attempt[u] = DOMAIN k.attempt[u]
        BY <1>1, <2>2
      <3> QED BY <3>1 DEF S, LostAt, Lapsed
    <2> QED BY <2>1, <2>2
  <1>5. \A u \in Task : DOMAIN k'.attempt[u] = DOMAIN k.attempt[u]
    BY <1>1
  <1>6. /\ \A u \in Task : (Booked(u)' <=> Booked(u)) /\ (Astray(u)' <=> Astray(u))
        /\ (AnyLapsed' <=> AnyLapsed)
    BY <1>4, <1>5 DEF Booked, Astray, AnyLapsed
  <1>7. Idle' <=> Idle
    BY <1>6 DEF Idle
  <1>8. Keeps(e)
    <2>1. \A u \in Task : State(u)' \in Active => State(u) \in Active
      BY <1>1 DEF Active
    <2> QED BY <1>1, <1>2, <1>6, <1>7, <2>1 DEF Keeps, Gives, Brings, Lapses, Blocks
  <1>9. \A u \in Task : State(u)' = "BLOCKED" => State(u) = "BLOCKED"
    BY <1>1
  <1> QED BY <1>1, <1>2, <1>4, <1>5, <1>6, <1>8, <1>9 DEF ObservedWent

\* It is folded: the run is not blocked then.
LEMMA FoldTookObserved ==
  ASSUME IInv, FoldInv, fresh, Took, NEW e \in DispatchEvent, e = todo[1],
         e.status = "APPLIED", ObservedAccepts(k, e), k' = ObservedFold(k, e)
  PROVE  FoldInv'
  <1>1. ObservedWent(e) /\ Keeps(e)
    BY ObservedGone
  <1>3. k.status = "RUNNING" /\ UNCHANGED <<pc, fresh, wave>>
    <2>1. 1 \in DOMAIN todo
      BY Shift DEF IInv
    <2>2. pc = "dispatch"
      BY <1>1, <2>1 DEF ObservedWent, IInv, TodoInv, DispatchEventOK
    <2> QED BY <2>2 DEF FoldInv, StatusInv, Took
  <1>9. EpochInv' /\ ReasonInv'
    BY <1>1, <1>3 DEF ObservedWent, FoldInv, EpochInv, ReasonInv
  <1>10. HoldInv'
    BY <1>1, <1>3 DEF ObservedWent, FoldInv, HoldInv
  <1>11. StuckInv'
    BY <1>1, <1>3 DEF ObservedWent, FoldInv, StuckInv
  <1> QED BY <1>1, <1>9, <1>10, <1>11, FoldTook DEF ObservedWent

\* An attempt moves, or is added.
LEMMA AttemptGone ==
  ASSUME IInv, NEW e, AttemptTook(e)
  PROVE  AttemptWent(e) /\ Keeps(e)
  <1> DEFINE t == e.task
             n == e.attempt
  <1>1. e.subject = "attempt"
    BY DEF AttemptTook, AttemptEvent
  <1>2. /\ k'.task = k.task /\ k'.epoch = k.epoch /\ k'.status = k.status
        /\ Moved(e) \/ Added(e)
        /\ <<e.type, e.from, e.to>> \in AttemptMoves
    BY AttemptFolded DEF AttemptTook, OtherAttempts, IInv, DType
  <1>3. AttemptFacts(e)
    BY AttemptEventKnown
  <1>5. ASSUME NEW u \in Task, NEW m \in DOMAIN k.attempt[u]
        PROVE  /\ m \in DOMAIN k'.attempt[u]
               /\ k'.attempt[u][m] = k.attempt[u][m] \/ (u = t /\ m = n /\ S(u, m) = e.from)
    <2>1. m \in DOMAIN k'.attempt[u] /\ (u # t \/ m # n => k'.attempt[u][m] = k.attempt[u][m])
      BY AttemptsAfter DEF IInv
    <2> QED BY <1>2, <2>1 DEF Moved, Added
  <1>6. ASSUME NEW u \in Task, NEW m \in DOMAIN k'.attempt[u]
        PROVE  \/ m \in DOMAIN k.attempt[u] /\ k'.attempt[u][m] = k.attempt[u][m]
               \/ /\ u = t /\ S(u, m)' = e.to
                  /\ e.to = "TERMINATED" => k'.attempt[u][m].why = e.why
                  /\ \/ k'.attempt[u][m].epoch = k.epoch
                     \/ /\ m \in DOMAIN k.attempt[u] /\ e.to # "RESERVED"
                        /\ k'.attempt[u][m].epoch = k.attempt[u][m].epoch
    <2>1. CASE m \in DOMAIN k.attempt[u]
      <3>1. u # t \/ m # n => k'.attempt[u][m] = k.attempt[u][m]
        BY <2>1, AttemptsAfter DEF IInv
      <3>2. CASE Moved(e)
        BY <1>3, <2>1, <3>1, <3>2 DEF Moved, S, AttemptFacts
      <3>3. CASE Added(e)
        BY <2>1, <3>1, <3>3 DEF Added
      <3> QED BY <1>2, <3>2, <3>3
    <2>2. CASE m \notin DOMAIN k.attempt[u]
      <3>1. Added(e) /\ u = t /\ m = Latest(u) + 1
        BY <2>2, AttemptsAfter DEF IInv
      <3> QED BY <3>1 DEF Added, S, Latest
    <2> QED BY <2>1, <2>2
  <1>7. /\ \A u \in Task : Booked(u)' => Booked(u) \/ (Books(e) /\ u = t)
        /\ \A u \in Task : Astray(u)' => Astray(u) \/ Brings(e, u)
    BY <1>1, <1>6 DEF Booked, Astray, LostAt, S, Books, Brings
  <1>9. AnyLapsed \/ Lapses(e) => AnyLapsed'
    <2>1. ASSUME AnyLapsed PROVE AnyLapsed'
      <3>1. PICK u \in Task : \E m \in DOMAIN k.attempt[u] : S(u, m) = "OUTCOME_UNKNOWN"
        BY <2>1 DEF AnyLapsed, Lapsed
      <3>2. PICK m \in DOMAIN k.attempt[u] : S(u, m) = "OUTCOME_UNKNOWN"
        BY <3>1
      <3>3. m \in DOMAIN k'.attempt[u] /\ k'.attempt[u][m] = k.attempt[u][m]
        BY <1>3, <1>5, <3>2 DEF AttemptFacts
      <3> QED BY <3>2, <3>3 DEF AnyLapsed, Lapsed, S
    <2>2. ASSUME Lapses(e) PROVE AnyLapsed'
      <3>1. e.to = "OUTCOME_UNKNOWN" /\ ~Added(e)
        BY <1>2, <2>2 DEF Lapses, Added, AttemptMoves, Moves
      <3>2. n \in DOMAIN k'.attempt[t] /\ S(t, n)' = "OUTCOME_UNKNOWN" /\ t \in Task
        BY <1>2, <1>3, <1>5, <3>1 DEF Moved, S, AttemptFacts
      <3> QED BY <3>2 DEF AnyLapsed, Lapsed
    <2> QED BY <2>1, <2>2
  <1>10. \A u \in Task : State(u)' = State(u)
    BY <1>2 DEF State
  <1>11. Idle /\ e.to \notin {"RESERVED", "TERMINATED"} => Idle'
    BY <1>1, <1>7 DEF Idle, Books, Brings
  <1>12. AttemptWent(e)
    BY <1>5, <1>6 DEF AttemptWent
  <1>13. Gives(e)
    BY <1>7, <1>10 DEF Gives
  <1> QED BY <1>1, <1>2, <1>7, <1>9, <1>10, <1>11, <1>12, <1>13 DEF Keeps, Blocks, Brings

\* It is folded, and leaves the reasons.
LEMMA FoldTookAttempt ==
  ASSUME IInv, FoldInv, fresh, NEW e, AttemptTook(e)
  PROVE  FoldInv'
  <1> DEFINE t == e.task
             n == e.attempt
  <1>1. /\ Took /\ e = todo[1] /\ e.subject = "attempt" /\ 1 \in DOMAIN todo
        /\ UNCHANGED <<pc, fresh, wave>>
    BY Shift DEF AttemptTook, AttemptEvent, IInv, Took
  <1>2. /\ AttemptWent(e) /\ Keeps(e)
        /\ k'.epoch = k.epoch /\ k'.status = k.status
    BY AttemptGone DEF Keeps
  <1>3. AttemptFacts(e)
    BY AttemptEventKnown
  <1>4. LastOK(1) /\ BooksOK(1) /\ BlockedOK(1) /\ AttemptEventOK(1) /\ k.epoch \in Nat
    BY <1>1 DEF FoldInv, PlanInv, IInv, TodoInv, DType, AnySnapshot
  <1>7. \A u \in Task : Booked(u)' => Booked(u) \/ (Books(e) /\ u = t)
    BY <1>2 DEF Keeps
  <1>8. \A u \in Task : Booked(u) => Booked(u)' \/ e.from = "RESERVED"
    BY <1>2 DEF AttemptWent, Booked, S
  <1>10. \A u \in Task : State(u)' = State(u)
    BY <1>1, <1>2 DEF Keeps
  <1>13. EpochInv'
    <2> SUFFICES ASSUME NEW u \in Task, NEW m \in DOMAIN k'.attempt[u]
                 PROVE  k'.attempt[u][m].epoch <= k.epoch
      BY <1>2 DEF EpochInv
    <2>1. m \in DOMAIN k.attempt[u] => k.attempt[u][m].epoch <= k.epoch
      BY DEF FoldInv, EpochInv
    <2> QED BY <1>2, <1>4, <2>1 DEF AttemptWent
  <1>14. HoldInv'
    <2> SUFFICES ASSUME pc \in Waves \ {"wave"}, NEW u \in Task, Booked(u)'
                 PROVE  u \in wave
      BY <1>1 DEF HoldInv
    <2>1. CASE Booked(u)
      BY <2>1 DEF FoldInv, HoldInv
    <2>2. CASE Books(e) /\ u = t
      <3>1. pc = "reserve"
        BY <1>3, <2>2 DEF Books, AttemptFacts, Waves
      <3> QED BY <1>3, <2>2, <3>1 DEF AttemptFacts
    <2> QED BY <1>7, <2>1, <2>2
  <1>15. StuckInv'
    <2> SUFFICES ASSUME pc \notin {"down", "ending"}, NEW u \in Task,
                        NEW m \in DOMAIN k'.attempt[u], S(u, m)' = "RESERVED"
                 PROVE  k'.attempt[u][m].epoch < k.epoch \/ State(u) # "BLOCKED"
      BY <1>1, <1>2, <1>10 DEF StuckInv
    <2>1. CASE m \in DOMAIN k.attempt[u] /\ k'.attempt[u][m] = k.attempt[u][m]
      BY <2>1 DEF FoldInv, StuckInv, S
    <2>2. CASE u = t /\ e.to = "RESERVED"
      <3>1. State(t) = "LEASED"
        BY <1>1, <1>4, <2>2 DEF BooksOK, Books
      <3> QED BY <2>2, <3>1
    <2> QED BY <1>2, <2>1, <2>2 DEF AttemptWent
  <1>16. ReasonInv'
    <2> SUFFICES ASSUME k.status # "RUNNING" PROVE Blocked'
      BY <1>2 DEF ReasonInv
    <2>1. e.to \in {"SUCCEEDED", "FAILED", "OUTCOME_UNKNOWN"}
      BY <1>1, <1>4 DEF BlockedOK
    <2>2. e.from # "RESERVED"
      BY <1>3, <2>1 DEF AttemptFacts
    <2>3. AnyLapsed \/ Idle \/ \E u \in Task : Booked(u) /\ State(u) = "BLOCKED"
      BY DEF FoldInv, ReasonInv, Blocked, Stuck
    <2>4. \A u \in Task : Booked(u) /\ State(u) = "BLOCKED" => Booked(u)' /\ State(u)' = "BLOCKED"
      BY <1>8, <1>10, <2>2
    <2> QED BY <1>2, <2>1, <2>3, <2>4 DEF Keeps, Blocked, Stuck
  <1> QED BY <1>1, <1>2, <1>13, <1>14, <1>15, <1>16, FoldTook

\* The next event is appended; it is one that the kernel takes.
LEMMA FoldAppend ==
  ASSUME IInv, CourseInv, DoubtInv, FoldInv, AppendNext
  PROVE  FoldInv'
  <1> DEFINE e == todo[1]
  <1>1. /\ Head(todo) = e /\ broken = "no" /\ todo # <<>> /\ fresh /\ todo \in Seq(Event)
        /\ recovery = NoRecovery
    BY DEF AppendNext, IInv, DType, StageInv, DoubtInv, RecoveryInv
  <1>2. 1 \in DOMAIN todo /\ e \in Event
    BY <1>1, ElementOfSeq, EmptySeq, LenProperties
  <1>3. KernelTakes(e)
    <2>1. PICK r : Leads(k, todo, r)
      BY <1>1 DEF CourseInv
    <2>2. PICK q : Goes(k, todo[1], q)
      BY <1>1, <2>1, LeadsHead
    <2>3. StopsOK(1)
      BY <1>2 DEF FoldInv, PlanInv
    <2> QED BY <1>1, <2>2, <2>3, TakesJournal DEF Goes, StopsOK, Stops
  <1>4. broken' = "no" /\ Took /\ k' = KernelAfter(e)
    BY <1>1, <1>3 DEF AppendNext, Commit, Took
  <1>5. CASE e \in EffectEvent
    BY <1>4, <1>5, FoldTookQuiet DEF EffectEvent, KernelAfter
  <1>6. CASE e \in DispatchEvent
    <2>1. e.subject = "dispatch"
      BY <1>6 DEF DispatchEvent
    <2>2. CASE e.status # "APPLIED"
      BY <1>4, <2>1, <2>2, FoldTookQuiet DEF KernelAfter
    <2>3. CASE e.status = "APPLIED"
      <3>1. ObservedAccepts(k, e) /\ k' = ObservedFold(k, e)
        BY <1>3, <1>4, <2>1, <2>3 DEF KernelTakes, KernelAfter
      <3> QED BY <1>1, <1>4, <1>6, <2>3, <3>1, FoldTookObserved
    <2> QED BY <2>2, <2>3
  <1>7. CASE e \in RunEvent
    <2>1. Accepts(k, e) /\ k' = Fold(k, e)
      BY <1>3, <1>4, <1>7 DEF RunEvent, KernelTakes, KernelAfter
    <2> QED BY <1>1, <1>4, <1>7, <2>1, FoldTookRun
  <1>8. CASE e \in TaskEvent
    <2>1. Accepts(k, e) /\ k' = Fold(k, e)
      BY <1>3, <1>4, <1>8 DEF TaskEvent, KernelTakes, KernelAfter
    <2> QED BY <1>1, <1>4, <1>8, <2>1, FoldTookTask
  <1>9. CASE e \in AttemptEvent
    <2>1. Accepts(k, e) /\ k' = Fold(k, e)
      BY <1>3, <1>4, <1>9 DEF AttemptEvent, KernelTakes, KernelAfter
    <2>2. AttemptTook(e)
      BY <1>4, <1>9, <2>1 DEF AttemptTook
    <2> QED BY <1>1, <2>2, FoldTookAttempt
  <1> QED BY <1>2, <1>5, <1>6, <1>7, <1>8, <1>9 DEF Event

\* At first.
LEMMA FoldInit ==
  ASSUME Init
  PROVE  FoldInv
  <1>1. /\ \A t \in Task : k.attempt[t] = <<>> /\ k.task[t].state = "APPROVED"
        /\ todo = <<>> /\ pc = "down" /\ k.status = "RUNNING" /\ broken = "no"
    BY DEF Init
  <1>2. DOMAIN todo = {} /\ \A t \in Task : DOMAIN k.attempt[t] = {}
    BY <1>1
  <1> QED BY <1>1, <1>2
          DEF FoldInv, EpochInv, HoldInv, StuckInv, StatusInv, ReasonInv, PlanInv,
              Waves

\* Every step keeps it.
LEMMA FoldNext ==
  ASSUME IInv, CourseInv, LoadInv, DoubtInv, FoldInv, Next
  PROVE  FoldInv'
  <1>1. CASE Coordinator
    <2>1. CASE AppendNext
      BY <2>1, FoldAppend
    <2>2. CASE GivesUp \/ GoesOn \/ Reserved \/ Prepared \/ Collect
      BY <2>2, FoldQuiet
    <2>3. CASE \/ Cancel
               \/ \E p \in pending : ReconcileApplied(p) \/ ReconcileRetry(p)
               \/ \E id \in Attempts : TakeBack(id)
      BY <2>3, FoldEffect
    <2>4. CASE \/ Recheck \/ Acquired \/ Land \/ ReserveResumed
               \/ ReserveChannel \/ SendTaskPacket
      BY <2>4, FoldRecheck, FoldAcquired, FoldLand, FoldResumed, FoldAnswer
    <2>5. CASE \/ \E id \in Attempts : Reclaim(id)
               \/ \E t \in Task : ReserveTask(t) \/ Prepare(t) \/ Dispatch(t) \/ Accept(t)
      BY <2>5, FoldReclaim, FoldReserve, FoldPrepare, FoldDispatch, FoldAccept
    <2> QED BY <1>1, <2>1, <2>2, <2>3, <2>4, <2>5, Zenon
        DEF Coordinator, RecoverAbsent, GivesUp, GoesOn
  <1>2. CASE Start \/ ResumeCommand \/ Crash
    BY <1>2, FoldStart, FoldResume, FoldQuiet DEF GivesUp
  <1>3. CASE \E id \in live : WorkerWrites(id) \/ WorkerEnds(id)
    <2>1. UNCHANGED <<k, broken, pc, fresh, todo, wave>>
      BY <1>3 DEF WorkerWrites, WorkerEnds, journal, process
    <2> QED BY <2>1, FoldStill
  <1> QED BY <1>1, <1>2, <1>3 DEF Next, Environment

------------------------------------------------------------------------------
(* The limit of the manifest.                                               *)

\* No more tasks are at work than before.
LEMMA LoadShrinks ==
  ASSUME LoadInv, Load' \subseteq Load
  PROVE  LoadInv'
  <1>1. IsFiniteSet(Load)
    <2>1. Load \subseteq Task
      BY DEF Load
    <2> QED BY <2>1, FS_Subset, DispatchAssumption
  <1>2. Cardinality(Load') <= Cardinality(Load) /\ IsFiniteSet(Load')
    BY <1>1, FS_Subset
  <1>3. Cardinality(Load') \in Nat /\ Cardinality(Load) \in Nat
    BY <1>1, <1>2, FS_CardinalityType
  <1> QED BY <1>2, <1>3, DispatchAssumption DEF LoadInv

\* No task comes to be at work by the events.
LEMMA LoadStill ==
  ASSUME LoadInv, IInv', k'.attempt = k.attempt,
         \A t \in Task : State(t)' \in Active => State(t) \in Active,
         UNCHANGED todo \/ todo' = <<>> \/ pc' \notin Bringing
  PROVE  LoadInv'
  <1>1. \A t : Astray(t)' <=> Astray(t)
    BY DEF Astray, LostAt, S
  <1>2. \A t : Coming(t)' => Coming(t)
    <2>1. CASE UNCHANGED todo
      BY <2>1 DEF Coming
    <2>2. CASE todo' = <<>>
      <3>1. DOMAIN todo' = {}
        BY <2>2
      <3> QED BY <3>1 DEF Coming
    <2>3. CASE pc' \notin Bringing
      BY <2>3 DEF IInv, TodoInv, TaskEventOK, AttemptEventOK, Coming, Brings, Bringing
    <2> QED BY <2>1, <2>2, <2>3
  <1>3. Load' \subseteq Load
    BY <1>1, <1>2 DEF Load
  <1> QED BY <1>3, LoadShrinks

\* The events bring back a task that is at work, or will be.
LEMMA LoadBrought ==
  ASSUME LoadInv, UNCHANGED k, NEW t \in Task, State(t) \in Active \/ Astray(t),
         \A i \in DOMAIN todo' : \A u : Brings(todo'[i], u) => u = t
  PROVE  LoadInv'
  <1>1. Load' \subseteq Load
    BY FoldSame DEF Load, Coming
  <1> QED BY <1>1, LoadShrinks

\* An attempt is taken back.
LEMMA LoadRecheck ==
  ASSUME IInv, CourseInv, LoadInv, IInv', Recheck
  PROVE  LoadInv'
  <1>1. UNCHANGED k /\ pc = "recheck"
    BY DEF Recheck, At, journal
  <1>2. CASE UNCHANGED todo
    BY <1>1, <1>2, FoldSame, LoadStill
  <1> SUFFICES ASSUME NEW id, id = at, NEW es, es = TakeBackSteps(id),
                      NEW m, m = StepsTaken(id), todo' = SubSeq(es, m + 1, 6)
               PROVE  LoadInv'
    BY <1>2 DEF Recheck, Later
  <1>3. /\ BackTask(id[1]) /\ BackEvents(id[1], es) /\ BackLeft(es, m)
        /\ m \in 0..5 /\ id[1] \in Task
    BY <1>1, TakesBack
  <1>4. \A l \in 1..6 : \A u : Brings(es[l], u) => u = id[1]
    BY <1>3 DEF BackEvents, Brings
  <1>5. ASSUME NEW i \in DOMAIN todo', NEW u, Brings(todo'[i], u) PROVE u = id[1]
    <2>1. PICK l \in 1..6 : todo'[i] = es[l]
      BY <1>3 DEF BackLeft
    <2> QED BY <1>4, <1>5, <2>1
  <1> QED BY <1>1, <1>3, <1>5, LoadBrought DEF BackTask

\* An attempt that was never sent is taken over: its task is leased.
LEMMA LoadReclaim ==
  ASSUME IInv, LoadInv, NEW id \in Attempts, Reclaim(id)
  PROVE  LoadInv'
  <1> DEFINE x == AttemptMove("ATTEMPT_RELEASED", id, "RESERVED", "TERMINATED", "LEASE_LOST")
             y == AttemptMove("ATTEMPT_RESERVED", id, "TERMINATED", "RESERVED", "none")
  <1>1. /\ UNCHANGED k /\ State(id[1]) = "LEASED"
        /\ todo' = (IF ~Lost(id) THEN <<x>> ELSE <<>>) \o <<y>>
    BY DEF Reclaim, Reclaimable, Later, journal
  <1>2. x.subject = "attempt" /\ x.task = id[1] /\ y.subject = "attempt" /\ y.task = id[1]
    BY DEF AttemptMove
  <1> HIDE DEF x, y
  <1>3. \A i \in DOMAIN todo' : \A u : Brings(todo'[i], u) => u = id[1]
    <2>1. \A i \in DOMAIN todo' : todo'[i] \in {x, y}
      BY <1>1, MaybeBeforeOne
    <2> QED BY <1>2, <2>1 DEF Brings
  <1>4. id[1] \in Task
    BY AttemptsKnown DEF IInv, AnId
  <1> QED BY <1>1, <1>3, <1>4, LoadBrought DEF Active

\* A task is reserved: one more is at work, if the manifest allows it.
LEMMA LoadReserve ==
  ASSUME IInv, NEW t \in Task, ReserveTask(t)
  PROVE  LoadInv'
  <1> DEFINE x == TaskMove("TASK_READY", t, "APPROVED", "READY", "none")
             y == TaskMove("LEASE_ACQUIRED", t, "READY", "LEASED", "none")
             z == AttemptMove("ATTEMPT_RESERVED", <<t, Latest(t) + 1, k.epoch>>,
                              "PLANNED", "RESERVED", "none")
  <1>1. /\ UNCHANGED k /\ pc \in {"wave", "reserve"} /\ t \in Ready
        /\ todo' = (IF State(t) = "APPROVED" THEN <<x>> ELSE <<>>) \o <<y, z>>
    BY DEF ReserveTask, At, Later, journal
  <1>2. Cardinality(ActiveTask) < MaxConcurrency
    BY <1>1 DEF Ready
  <1>3. \A u \in Task : ~Astray(u)
    BY <1>1 DEF IInv, AttemptInv, Astray, Kept, Waves
  <1>4. \A i \in DOMAIN todo' : todo'[i] \in {x, y, z}
    <2> HIDE DEF x, y, z
    <2> QED BY <1>1, MaybeBeforeTwo
  <1>5. Load' \subseteq ActiveTask \cup {t}
    <2>1. \A u : Coming(u)' => u = t
      BY <1>4 DEF Coming, Brings, TaskMove, AttemptMove
    <2> QED BY <1>1, <1>3, <2>1, FoldSame DEF Load, ActiveTask, Active
  <1>6. IsFiniteSet(ActiveTask)
    <2>1. ActiveTask \subseteq Task
      BY DEF ActiveTask
    <2> QED BY <2>1, FS_Subset, DispatchAssumption
  <1>7. /\ IsFiniteSet(ActiveTask \cup {t})
        /\ Cardinality(ActiveTask \cup {t}) \in
             {Cardinality(ActiveTask), Cardinality(ActiveTask) + 1}
    BY <1>6, FS_AddElement
  <1>8. Cardinality(Load') <= Cardinality(ActiveTask \cup {t}) /\ IsFiniteSet(Load')
    BY <1>5, <1>7, FS_Subset
  <1>9. Cardinality(Load') \in Nat /\ Cardinality(ActiveTask) \in Nat
    BY <1>6, <1>8, FS_CardinalityType
  <1> QED BY <1>2, <1>7, <1>8, <1>9, DispatchAssumption DEF LoadInv

\* The next event is appended.
LEMMA LoadTook ==
  ASSUME IInv, LoadInv, Took, NEW e, e = todo[1], Gives(e)
  PROVE  LoadInv'
  <1>1. /\ \A i \in DOMAIN todo' : i + 1 \in DOMAIN todo /\ todo'[i] = todo[i + 1]
        /\ 1 \in DOMAIN todo
    BY Shift DEF IInv
  <1>2. \A t \in Task : Coming(t)' \/ Brings(e, t) => Coming(t)
    BY <1>1 DEF Coming
  <1>3. Load' \subseteq Load
    BY <1>2 DEF Load, Gives
  <1> QED BY <1>3, LoadShrinks

LEMMA LoadAppend ==
  ASSUME IInv, LoadInv, IInv', AppendNext
  PROVE  LoadInv'
  <1> DEFINE e == todo[1]
  <1>1. /\ Head(todo) = e /\ broken = "no" /\ todo # <<>> /\ todo \in Seq(Event)
    BY DEF AppendNext, IInv, DType, StageInv
  <1>2. e \in Event
    BY <1>1, ElementOfSeq, EmptySeq, LenProperties
  <1>3. CASE ~(recovery = NoRecovery /\ KernelTakes(e))
    <2>1. UNCHANGED k /\ todo' = <<>>
      BY <1>1, <1>3 DEF AppendNext, Commit
    <2> QED BY <2>1, FoldSame, LoadStill
  <1>4. CASE recovery = NoRecovery /\ KernelTakes(e)
    <2>1. Took /\ k' = KernelAfter(e)
      BY <1>1, <1>4 DEF AppendNext, Commit, Took
    <2>2. CASE UNCHANGED k
      BY <2>1, <2>2, FoldSame, LoadTook DEF Gives
    <2>3. CASE e \in EffectEvent \/ (e \in DispatchEvent /\ e.status # "APPLIED")
      BY <2>1, <2>2, <2>3 DEF EffectEvent, DispatchEvent, KernelAfter
    <2>4. CASE e \in DispatchEvent /\ e.status = "APPLIED"
      <3>1. ObservedAccepts(k, e) /\ k' = ObservedFold(k, e)
        BY <1>4, <2>1, <2>4 DEF DispatchEvent, KernelTakes, KernelAfter
      <3> QED BY <2>1, <2>4, <3>1, ObservedGone, LoadTook DEF Keeps
    <2>5. CASE e \in RunEvent \cup TaskEvent \cup AttemptEvent
      <3>1. Accepts(k, e) /\ k' = Fold(k, e)
        BY <1>4, <2>1, <2>5
           DEF RunEvent, TaskEvent, AttemptEvent, KernelTakes, KernelAfter
      <3>2. CASE e \in RunEvent
        <4>1. k'.attempt = k.attempt /\ k'.task = k.task
          BY <3>1, <3>2, RunFolded DEF IInv, DType
        <4> QED BY <2>1, <4>1, MovesNothing, LoadTook DEF Gives
      <3>3. CASE e \in TaskEvent
        BY <2>1, <3>1, <3>3, TaskGone, LoadTook DEF Keeps
      <3>4. CASE e \in AttemptEvent
        BY <2>1, <3>1, <3>4, AttemptGone, LoadTook DEF AttemptTook, Keeps
      <3> QED BY <2>5, <3>2, <3>3, <3>4
    <2> QED BY <1>2, <2>3, <2>4, <2>5 DEF Event
  <1> QED BY <1>3, <1>4

\* Every step keeps it.
LEMMA LoadNext ==
  ASSUME IInv, CourseInv, LoadInv, IInv', Next
  PROVE  LoadInv'
  <1>1. CASE UNCHANGED k /\ (UNCHANGED todo \/ todo' = <<>> \/ pc' \notin Bringing)
    BY <1>1, FoldSame, LoadStill
  <1>2. CASE Start
    <2>1. k' = [k EXCEPT !.epoch = k.epoch + 1] /\ k \in AnySnapshot /\ todo' = <<>>
      BY <1>2 DEF Start, FoldLease, IInv, DType
    <2>2. k'.attempt = k.attempt /\ k'.task = k.task
      BY <2>1 DEF AnySnapshot
    <2> QED BY <2>1, <2>2, MovesNothing, LoadStill
  <1>3. CASE ResumeCommand
    BY <1>3, ResumeMoves, LoadStill DEF Active
  <1>4. CASE Environment
    BY <1>1, <1>4 DEF Environment, Crash, WorkerWrites, WorkerEnds, journal, process
  <1>5. CASE Coordinator
    <2>1. CASE AppendNext \/ Recheck
      BY <2>1, LoadAppend, LoadRecheck
    <2>2. CASE \/ \E id \in Attempts : Reclaim(id)
               \/ \E t \in Task : ReserveTask(t)
      BY <2>2, LoadReclaim, LoadReserve
    <2>3. CASE \/ GivesUp \/ GoesOn \/ Acquired \/ ReserveResumed \/ Reserved
               \/ \E p \in pending : ReconcileApplied(p) \/ ReconcileRetry(p)
               \/ \E id \in Attempts : TakeBack(id)
      BY <1>1, <2>3, GivesUpIs
         DEF GoesOn, Reconciled, TookBack, TakeBackCancelled, Acquired, Reclaimed,
         ReserveResumed, Reserved, ReconcileApplied, ReconcileRetry, TakeBack, At, Goto,
         Bringing, journal
    <2>4. CASE \/ Cancel \/ Prepared \/ ReserveChannel \/ SendTaskPacket \/ Collect \/ Land
               \/ \E t \in Task : Prepare(t) \/ Dispatch(t) \/ Accept(t)
      BY <1>1, <2>4 DEF Cancel, Prepared, ReserveChannel, SendTaskPacket, Child, Collect,
         Land, Prepare, Dispatch, Accept, At, Goto, Bringing, journal
    <2> QED BY <1>5, <2>1, <2>2, <2>3, <2>4, Zenon
        DEF Coordinator, RecoverAbsent, GivesUp, GoesOn
  <1> QED BY <1>2, <1>3, <1>4, <1>5 DEF Next

\* Never more tasks are at work, lost, or about to be brought back than the manifest
\* allows, whatever the provider answers, and when.
THEOREM LoadAlways == Spec => [](IInv /\ CourseInv /\ LoadInv)
  <1>1. Init => LoadInv
    <2> SUFFICES ASSUME Init PROVE LoadInv
      OBVIOUS
    <2>1. /\ \A t \in Task : k.attempt[t] = <<>> /\ k.task[t].state = "APPROVED"
          /\ todo = <<>>
      BY DEF Init
    <2>2. DOMAIN todo = {} /\ \A t \in Task : DOMAIN k.attempt[t] = {}
      BY <2>1
    <2>3. Load = {}
      BY <2>1, <2>2 DEF Load, Active, State, Astray, Coming
    <2>4. Cardinality({}) = 0 /\ 0 <= MaxConcurrency
      BY FS_EmptySet, DispatchAssumption
    <2> QED BY <2>3, <2>4 DEF LoadInv
  <1>2. IInv /\ CourseInv /\ LoadInv /\ IInv' /\ [Next]_vars => LoadInv'
    <2>1. ASSUME IInv', LoadInv, UNCHANGED vars PROVE LoadInv'
      <3>1. UNCHANGED <<k, todo>>
        BY <2>1 DEF vars, journal, process
      <3> QED BY <2>1, <3>1, FoldSame, LoadStill
    <2> QED BY <2>1, LoadNext
  <1> QED BY <1>1, <1>2, CourseAlways, PTL DEF Spec

\* No more tasks are at work than max_concurrency of the manifest allows, the ones that a
\* start takes back and leases again, without a look at the limit, included
\* (reclaim_cancelled_dispatch and reserve_ready of processes/coordinator.py).
THEOREM WithinLimitAlways == Spec => [](Cardinality(ActiveTask) <= MaxConcurrency)
  <1>1. LoadInv => Cardinality(ActiveTask) <= MaxConcurrency
    <2> SUFFICES ASSUME LoadInv PROVE Cardinality(ActiveTask) <= MaxConcurrency
      OBVIOUS
    <2>1. IsFiniteSet(Load)
      <3>1. Load \subseteq Task
        BY DEF Load
      <3> QED BY <3>1, FS_Subset, DispatchAssumption
    <2>2. ActiveTask \subseteq Load
      BY DEF ActiveTask, Load, Active
    <2>3. Cardinality(ActiveTask) <= Cardinality(Load) /\ IsFiniteSet(ActiveTask)
      BY <2>1, <2>2, FS_Subset
    <2>4. Cardinality(ActiveTask) \in Nat /\ Cardinality(Load) \in Nat
      BY <2>1, <2>3, FS_CardinalityType
    <2> QED BY <2>3, <2>4, DispatchAssumption DEF LoadInv
  <1> QED BY <1>1, LoadAlways, PTL

------------------------------------------------------------------------------
(* Every event is folded, and replayed.                                     *)

\* As long as no start has settled a child effect that the provider had answered
\* UNKNOWN to: a run that is blocked is blocked for a reason that no start gets past,
\* and so it is not blocked where events are appended that expect it to run.
THEOREM FoldAlways == Spec => [](~late => FoldInv)
  <1>1. Init => FoldInv
    BY FoldInit
  <1>2. IInv /\ CourseInv /\ LoadInv /\ (~late => DoubtInv) /\ (~late => FoldInv)
     /\ [Next]_vars
          => (~late' => FoldInv')
    <2>1. ASSUME FoldInv, UNCHANGED vars PROVE FoldInv'
      <3>1. UNCHANGED <<k, broken, pc, fresh, todo, wave>>
        BY <2>1 DEF vars, journal, process
      <3> QED BY <2>1, <3>1, FoldStill
    <2> QED BY <2>1, FoldNext, LateStays
  <1> QED BY <1>1, <1>2, DoubtAlways, LoadAlways, PTL DEF Spec

\* As long as that (~late, in KernelFolds) the coordinator appends no event that the
\* kernel rejects: wherever it stops, the journal it leaves is one that can be replayed
\* (_append_payload of processes/coordinator.py appends an event before it folds it).
THEOREM KernelFoldsAlways == Spec => []KernelFolds
  <1>1. (~late => FoldInv) => KernelFolds
    BY DEF FoldInv, KernelFolds
  <1> QED BY <1>1, FoldAlways, PTL

===============================================================================
