-------------------------- MODULE DispatchInvariants --------------------------
(***************************************************************************)
(* What DispatchProofs shows to hold of Dispatch in every state, and the   *)
(* words its lemmas use.  There are five inductive invariants, each on the *)
(* ones before it: IInv (attempts, worktrees and effects), CourseInv       *)
(* (the events a coordinator still has to append lead, each in turn        *)
(* accepted, to the snapshot it counts on), LoadInv (how many tasks are at *)
(* work, or will be), and, as long as no start has settled a child effect  *)
(* that the provider had answered UNKNOWN to (~late), DoubtInv (what an    *)
(* unknown outcome leaves open) and FoldInv (why a run is blocked).        *)
(***************************************************************************)
EXTENDS Dispatch

------------------------------------------------------------------------------
(* Types, without the bounds of TypeOK.                                     *)

AnId == Task \X (Nat \ {0}) \X Nat

AnEffect == AnId \X {"reserve", "send", "cancel"}

AnAttempt == [state : AttemptState, epoch : Nat, why : Why]

AnySnapshot ==
  [epoch : Nat, phase : RunPhase, status : RunStatus, why : Why,
   task : [Task -> [state : TaskState, why : Why]], attempt : [Task -> Seq(AnAttempt)]]

RunEvent ==
  [subject : {"run"}, type : {"RUN_RESUMED", "RUN_BLOCKED"}, from : RunStatus,
   to : RunStatus, why : Why, epoch : Nat]

TaskEvent ==
  [subject : {"task"},
   type : {"TASK_READY", "LEASE_ACQUIRED", "TASK_BLOCKED", "TASK_RETRY_SCHEDULED",
           "RESULT_STAGED", "PROMOTION_OBSERVED", "TASK_VERIFIED"},
   task : Task, from : TaskState, to : TaskState, why : Why, epoch : Nat]

AttemptEvent ==
  [subject : {"attempt"},
   type : {"ATTEMPT_RESERVED", "DISPATCH_REQUESTED", "ATTEMPT_RELEASED",
           "ATTEMPT_SUCCEEDED", "ATTEMPT_FAILED", "CANCEL_REQUESTED",
           "ATTEMPT_TERMINATED", "ATTEMPT_OUTCOME_UNKNOWN"},
   task : Task, attempt : Nat \ {0}, reserved : Nat,
   from : AttemptState \cup {"PLANNED"}, to : AttemptState, why : Why, epoch : Nat]

EffectEvent ==
  [subject : {"effect"}, op : {"reserve", "send", "cancel"}, id : AnId,
   status : {"ASKED", "APPLIED", "ABSENT", "UNKNOWN"}]

DispatchEvent ==
  [subject : {"dispatch"}, task : Task, attempt : Nat \ {0}, reserved : Nat,
   status : {"APPLIED", "ABSENT", "UNKNOWN"}, epoch : Nat]

Event == RunEvent \cup TaskEvent \cup AttemptEvent \cup EffectEvent \cup DispatchEvent

Point ==
  {"down", "reconcile", "takeback", "cancel", "recheck", "reclaim", "wave",
   "reserve", "prepare", "dispatch", "channel", "packet", "accept", "ending"}

DType ==
  /\ k \in AnySnapshot /\ todo \in Seq(Event)
  /\ pending \subseteq AnEffect /\ done \subseteq AnEffect
  /\ cancelled \subseteq AnId /\ resolved \subseteq AnId /\ live \subseteq AnId
  /\ recovery \in [id : AnId, step : {"proof", "retried"}] \cup {NoRecovery}
  /\ pc \in Point /\ fresh \in BOOLEAN /\ wave \subseteq Task /\ left \subseteq wave
  /\ dirty \subseteq Task \X (Nat \ {0})
  /\ broken \in {"no", "kernel", "recovery"}

------------------------------------------------------------------------------
(* The open effect.                                                         *)

OpOf == [l \in {"cancel", "channel", "packet"} |->
           IF l = "cancel" THEN "cancel" ELSE IF l = "channel" THEN "reserve" ELSE "send"]

\* Event i asks for an effect; event i says that the open effect was applied.
Asks(i) == todo[i].subject = "effect" /\ todo[i].status = "ASKED"

Closes(i) ==
  /\ todo[i].subject = "effect" /\ todo[i].status = "APPLIED"
  /\ pending \subseteq {<<todo[i].id, todo[i].op>>}

\* Points at which the coordinator waits for the answer to an effect, and points
\* at which the journal may hold an open effect that an earlier start left.
Asking == {"cancel", "channel", "packet"}

Unsettled == {"down", "reconcile", "ending"}

EffectInv ==
  /\ \A p, q \in pending : p = q
  /\ \A i \in DOMAIN todo : Asks(i) => pc \in Asking /\ i = Len(todo)
  /\ pc \notin Asking \cup Unsettled =>
       pending = {} \/ (todo # <<>> /\ Closes(1))
  /\ pc \in Asking /\ todo # <<>> =>
       /\ todo[Len(todo)] = Ask(OpOf[pc], at)
       /\ pending = {} \/ (Len(todo) > 1 /\ Closes(1))
  /\ pc \in Asking /\ todo = <<>> => pending \subseteq {<<at, OpOf[pc]>>}

------------------------------------------------------------------------------
(* The attempts of the journal.                                             *)

S(t, n) == k.attempt[t][n].state

\* Attempt n of t was terminated by a takeover and is to be reserved again.
LostAt(t, n) == S(t, n) = "TERMINATED" /\ k.attempt[t][n].why = "LEASE_LOST"

\* It is at work, or will be again.
Held(t, n) == S(t, n) \notin Terminal \/ LostAt(t, n)

\* Its worktree is, or will be, handed out as it is.
Kept(t, n) == S(t, n) = "RESERVED" \/ LostAt(t, n)

\* A resume has settled that its packet was never sent.
Settled(id) == id \in resolved \/ (recovery.step = "retried" /\ recovery.id = id)

\* Its packet may have been sent.
Engaged(t, n) ==
  \/ S(t, n) \in {"DISPATCH_REQUESTED", "RUNNING", "SUCCEEDED", "FAILED"}
  \/ S(t, n) = "OUTCOME_UNKNOWN" /\ ~Settled(IdOf(t, n))

\* Points of the wave loop: what earlier epochs left has been taken back.
Waves == {"wave", "reserve", "prepare", "dispatch", "channel", "packet", "accept"}

AttemptInv ==
  \A t \in Task : \A n \in DOMAIN k.attempt[t] :
    /\ Held(t, n) => n = Latest(t)
    /\ Engaged(t, n) =>
         /\ n = Latest(t)
         /\ State(t) \notin {"APPROVED", "READY"}
         /\ State(t) = "BLOCKED" => S(t, n) \in {"OUTCOME_UNKNOWN", "FAILED"}
    /\ LostAt(t, n) => k.attempt[t][n].epoch < k.epoch
    /\ pc \in Waves /\ Kept(t, n) => ~(k.attempt[t][n].epoch < k.epoch)

------------------------------------------------------------------------------
(* The world and the journal.                                               *)

\* The packet of id was sent, and its turn was not cut short.
Sent(id) == <<id, "send">> \in done

CalledOff(id) == <<id, "cancel">> \in done /\ id \notin finished

\* id names an attempt of the journal, under the epoch that reserved it.
Known(id) ==
  /\ id \in AnId
  /\ id[2] \in DOMAIN k.attempt[id[1]] /\ Of(id).epoch = id[3]

Outcomes == {"DISPATCH_REQUESTED", "RUNNING", "SUCCEEDED", "FAILED", "OUTCOME_UNKNOWN"}

SentInv == \A id \in AnId : Sent(id) /\ ~CalledOff(id) => Known(id) /\ Of(id).state \in Outcomes

LiveInv == \A id \in live : Sent(id) /\ <<id, "cancel">> \notin done

\* An unknown outcome that a resume vouches for was never sent.
ResolvedInv ==
  /\ \A id \in AnId :
       id \in resolved \/ id = recovery.id =>
         Known(id) /\ Of(id).state = "OUTCOME_UNKNOWN" /\ ~Sent(id)
  /\ recovery.step = "proof" => recovery.id \notin resolved

\* Turns are cancelled only for an epoch that is over.
CancelInv ==
  /\ \A id \in AnId :
       <<id, "cancel">> \in done \cup pending => id[3] < k.epoch
  /\ \A id \in cancelled : <<id, "cancel">> \in done

\* A worktree that is handed out is clean.
CleanInv ==
  /\ \A d \in dirty : d[2] \in DOMAIN k.attempt[d[1]]
  /\ \A t \in Task : \A n \in DOMAIN k.attempt[t] : Kept(t, n) => <<t, n>> \notin dirty

------------------------------------------------------------------------------
(* The coordinator.                                                         *)

\* The attempt it is dispatching or taking back.
AtInv ==
  /\ pc \in Asking \cup {"recheck"} =>
       /\ Known(at) /\ at[2] = Latest(at[1])
  /\ pc \in {"cancel", "recheck"} =>
       /\ S(at[1], at[2]) \in {"RUNNING", "CANCEL_REQUESTED"} \/ LostAt(at[1], at[2])
       /\ at[3] < k.epoch
  /\ pc = "recheck" => <<at, "cancel">> \in done
  /\ pc \in {"channel", "packet"} =>
       /\ State(at[1]) = "LEASED" /\ at[1] \notin left
       /\ \/ pc = "channel" /\ todo # <<>> /\ todo[1].subject = "attempt"
          \/ Of(at).state = "DISPATCH_REQUESTED" /\ ~(at[3] < k.epoch)

\* Event i moves task t, or attempt n of t, in this way.
TaskEventIs(i, t, type) ==
  todo[i].subject = "task" /\ todo[i].task = t /\ todo[i].type = type

AttemptEventIs(i, t, n, to) ==
  todo[i].subject = "attempt" /\ todo[i].task = t /\ todo[i].attempt = n /\ todo[i].to \in to

\* The tasks of the wave.
WaveInv ==
  /\ pc = "prepare" => todo = <<>>
  /\ pc \in {"reserve", "prepare"} =>
       \A t \in wave :
         /\ \A n \in DOMAIN k.attempt[t] : ~Engaged(t, n)
         /\ \/ State(t) = "LEASED"
            \/ \E i \in DOMAIN todo : TaskEventIs(i, t, "LEASE_ACQUIRED")
  /\ pc \in {"dispatch", "channel", "packet"} => \A t \in left : State(t) = "LEASED"
  /\ pc \in {"reserve", "prepare", "dispatch", "channel", "packet", "accept"} =>
       \A t \in wave :
         \/ Latest(t) > 0
         \/ \E i \in DOMAIN todo : todo[i].subject = "attempt" /\ todo[i].task = t

------------------------------------------------------------------------------
(* The events still to be appended.                                         *)

Before(i, t, n, to) == \E j \in DOMAIN todo : j < i /\ AttemptEventIs(j, t, n, to)

NoWorker(t) == \A id \in live : id[1] # t

RunEventOK(i) == todo[i].subject = "run" => pc \in {"wave", "ending", "accept"}

TaskEventOK(i) ==
  todo[i].subject = "task" =>
    LET t == todo[i].task IN
    /\ pc \in {"takeback", "wave", "reserve", "accept", "ending"}
    /\ pc = "reserve" => todo[i].type \in {"TASK_READY", "LEASE_ACQUIRED"}
    /\ todo[i].type = "LEASE_ACQUIRED" => pc \in {"takeback", "reserve"}
    /\ todo[i].type = "TASK_RETRY_SCHEDULED" =>
         \A n \in DOMAIN k.attempt[t] :
           Engaged(t, n) => Before(i, t, n, {"CANCEL_REQUESTED"})
    /\ todo[i].type = "TASK_BLOCKED" =>
         \A n \in DOMAIN k.attempt[t] :
           Engaged(t, n) =>
             \/ S(t, n) \in {"OUTCOME_UNKNOWN", "FAILED"}
             \/ Before(i, t, n, {"CANCEL_REQUESTED", "OUTCOME_UNKNOWN", "FAILED"})

AttemptEventOK(i) ==
  todo[i].subject = "attempt" =>
    LET e == todo[i] IN
    /\ pc \in {"takeback", "reclaim", "wave", "reserve", "channel", "accept", "ending"}
    /\ pc = "reserve" => e.type = "ATTEMPT_RESERVED" /\ e.task \in wave
    /\ e.type = "ATTEMPT_RESERVED" =>
         /\ e.from = "PLANNED" => pc = "reserve"
         /\ e.from # "PLANNED" =>
              /\ pc \in {"takeback", "reclaim"} /\ e.attempt = Latest(e.task)
              /\ <<e.task, e.attempt>> \notin dirty /\ NoWorker(e.task)
    /\ e.type = "DISPATCH_REQUESTED" =>
         pc = "channel" /\ i = 1 /\ <<e.task, e.attempt, e.reserved>> = at
    /\ pc = "channel" => e.type = "DISPATCH_REQUESTED"
    /\ e.type \in {"ATTEMPT_SUCCEEDED", "ATTEMPT_FAILED", "ATTEMPT_OUTCOME_UNKNOWN"} =>
         e.from \in {"DISPATCH_REQUESTED", "RUNNING"}
    /\ e.type = "ATTEMPT_OUTCOME_UNKNOWN" => pc = "ending"
    /\ e.type = "CANCEL_REQUESTED" => CalledOff(<<e.task, e.attempt, e.reserved>>)
    /\ e.to = "TERMINATED" /\ e.why = "LEASE_LOST" =>
         /\ pc \in {"takeback", "reclaim"} /\ e.reserved < k.epoch
         /\ <<e.task, e.attempt>> \notin dirty /\ NoWorker(e.task)

EffectEventOK(i) ==
  todo[i].subject = "effect" =>
    /\ pc \in Asking \cup {"reconcile", "recheck", "dispatch", "ending"}
    /\ todo[i].status = "APPLIED" => <<todo[i].id, todo[i].op>> \in done

DispatchEventOK(i) ==
  todo[i].subject = "dispatch" =>
    /\ pc \in {"dispatch", "ending"} /\ todo[i].task \notin left
    /\ todo[i].status = "APPLIED" => pc = "dispatch"

TodoInv ==
  \A i \in DOMAIN todo :
    /\ RunEventOK(i) /\ TaskEventOK(i) /\ AttemptEventOK(i) /\ EffectEventOK(i)
    /\ DispatchEventOK(i)

\* A coordinator that has stopped appends nothing; a broken journal stops it; it
\* has no wave before it reserves one.
StageInv ==
  /\ pc = "down" => todo = <<>>
  /\ broken # "no" => pc = "down"
  /\ pc \in {"reconcile", "takeback", "cancel", "recheck", "reclaim", "wave"} => wave = {}

IInv ==
  /\ DType /\ EffectInv /\ AttemptInv /\ SentInv /\ LiveInv /\ ResolvedInv
  /\ CancelInv /\ CleanInv /\ AtInv /\ WaveInv /\ TodoInv /\ StageInv

------------------------------------------------------------------------------
(* What an event does to the snapshot.                                      *)

\* A move of an attempt leaves everything but that attempt alone.
OtherAttempts(t, n) ==
  /\ k'.task = k.task /\ k'.epoch = k.epoch /\ k'.status = k.status
  /\ \A u \in Task : u # t => k'.attempt[u] = k.attempt[u]
  /\ \A m \in DOMAIN k.attempt[t] : m # n => k'.attempt[t][m] = k.attempt[t][m]

\* The event moves an attempt of the snapshot ...
Moved(e) ==
  LET t == e.task  n == e.attempt IN
  /\ n \in DOMAIN k.attempt[t] /\ Len(k'.attempt[t]) = Len(k.attempt[t])
  /\ S(t, n) = e.from /\ k'.attempt[t][n].state = e.to
  /\ k'.attempt[t][n].why = e.why
  /\ e.type = "ATTEMPT_RESERVED" => k'.attempt[t][n].epoch = k.epoch
  /\ e.type # "ATTEMPT_RESERVED" =>
       /\ e.reserved = k.attempt[t][n].epoch
       /\ k'.attempt[t][n].epoch = k.attempt[t][n].epoch

\* ... or adds a reserved one, when no other is at work.
Added(e) ==
  LET t == e.task  new == Len(k.attempt[t]) + 1 IN
  /\ e.from = "PLANNED" /\ e.to = "RESERVED" /\ e.type = "ATTEMPT_RESERVED"
  /\ \A m \in DOMAIN k.attempt[t] : S(t, m) \in Terminal
  /\ e.attempt \notin DOMAIN k.attempt[t]
  /\ Len(k'.attempt[t]) = new
  /\ k'.attempt[t][new].state = "RESERVED" /\ k'.attempt[t][new].epoch = k.epoch

------------------------------------------------------------------------------
(* An event is appended.                                                    *)

\* The event is taken: the next one comes first.
Took ==
  /\ todo # <<>> /\ todo' = Tail(todo)
  /\ UNCHANGED <<resume, pc, fresh, wave, left, at, world, broken>>

\* A dispatched attempt runs, and so does its task; nothing else moves.
Carried(t, n) ==
  /\ k' \in AnySnapshot /\ k'.epoch = k.epoch
  /\ n \in DOMAIN k.attempt[t] /\ Len(k'.attempt[t]) = Len(k.attempt[t])
  /\ S(t, n) = "DISPATCH_REQUESTED" /\ k'.attempt[t][n].state = "RUNNING"
  /\ k'.attempt[t][n].epoch = k.attempt[t][n].epoch
  /\ State(t) = "LEASED" /\ k'.task[t].state = "DISPATCHED"
  /\ \A u \in Task : u # t => k'.task[u] = k.task[u] /\ k'.attempt[u] = k.attempt[u]
  /\ \A m \in DOMAIN k.attempt[t] : m # n => k'.attempt[t][m] = k.attempt[t][m]

\* The events that take attempt id back (TakeBackSteps).
StepsBack(id, e1, e2, e3, e4, e5, e6) ==
  /\ e1 = AttemptMove("CANCEL_REQUESTED", id, "RUNNING", "CANCEL_REQUESTED", "LEASE_LOST")
  /\ e2 = AttemptMove("ATTEMPT_TERMINATED", id, "CANCEL_REQUESTED", "TERMINATED", "LEASE_LOST")
  /\ e3 = TaskMove("TASK_BLOCKED", id[1], "DISPATCHED", "BLOCKED", "LEASE_LOST")
  /\ e4 = TaskMove("TASK_RETRY_SCHEDULED", id[1], "BLOCKED", "READY", "none")
  /\ e5 = TaskMove("LEASE_ACQUIRED", id[1], "READY", "LEASED", "none")
  /\ e6 = AttemptMove("ATTEMPT_RESERVED", id, "TERMINATED", "RESERVED", "none")

\* What the conjuncts about attempts and worktrees depend on.
SameAttempts == k'.task = k.task /\ k'.attempt = k.attempt /\ k'.epoch = k.epoch

\* The wave loop is entered when nothing of an earlier epoch is left.
NothingKept ==
  \A t \in Task : \A n \in DOMAIN k.attempt[t] :
    Kept(t, n) => ~(k.attempt[t][n].epoch < k.epoch)

\* An attempt moves.
AttemptTook(e) ==
  /\ Took /\ e \in AttemptEvent /\ e = todo[1]
  /\ Accepts(k, e) /\ k' = Fold(k, e)

\* What is known of the event.
AttemptFacts(e) ==
  /\ e.task \in Task /\ e.attempt \in Nat \ {0} /\ e.to \in AttemptState \ {"RUNNING"}
  /\ pc \in {"takeback", "reclaim", "wave", "reserve", "channel", "accept", "ending"}
  /\ pc = "reserve" => e.to = "RESERVED" /\ e.task \in wave
  /\ e.type = "ATTEMPT_RESERVED" <=> e.to = "RESERVED"
  /\ e.to = "RESERVED" =>
       /\ e.from = "PLANNED" => pc = "reserve"
       /\ e.from # "PLANNED" =>
            /\ pc \in {"takeback", "reclaim"} /\ e.attempt = Latest(e.task)
            /\ <<e.task, e.attempt>> \notin dirty
  /\ e.to = "DISPATCH_REQUESTED" =>
       /\ e.from = "RESERVED" /\ pc = "channel"
       /\ at[1] = e.task /\ at[2] = e.attempt /\ at[3] = e.reserved
  /\ pc = "channel" => e.to = "DISPATCH_REQUESTED"
  /\ e.to \in {"SUCCEEDED", "FAILED", "OUTCOME_UNKNOWN"} =>
       e.from \in {"DISPATCH_REQUESTED", "RUNNING"}
  /\ e.to = "CANCEL_REQUESTED" =>
       e.from = "RUNNING" /\ CalledOff(<<e.task, e.attempt, e.reserved>>)
  /\ e.to = "TERMINATED" => e.from \in {"RESERVED", "CANCEL_REQUESTED"}
  /\ e.to = "TERMINATED" /\ e.why = "LEASE_LOST" =>
       /\ pc \notin Waves /\ e.reserved < k.epoch
       /\ <<e.task, e.attempt>> \notin dirty
  /\ e.from \notin {"SUCCEEDED", "FAILED", "OUTCOME_UNKNOWN"}

------------------------------------------------------------------------------
(* The steps of the coordinator.                                            *)

\* The coordinator stops, or gives up; it goes on without an event.
GivesUp ==
  \/ Leave \/ Crash \/ Conflict \/ ReclaimBlocked \/ AcquireBlocked \/ NothingToReserve
  \/ CollectBlocked
  \/ \E p \in pending : ReconcileBlocked(p)
  \/ \E id \in Attempts : TakeBackBlocked(id)

GoesOn == Reconciled \/ TookBack \/ \E id \in Attempts : TakeBackCancelled(id)

\* What relates the journal to the world.
WorldInv == SentInv /\ LiveInv /\ ResolvedInv /\ CancelInv /\ CleanInv

\* The task events that land results.
Landed ==
  {e \in Event : e.subject = "task"
                 /\ e.type \in {"RESULT_STAGED", "PROMOTION_OBSERVED", "TASK_VERIFIED"}}

------------------------------------------------------------------------------
(* The course of the events to come.  What the coordinator sets out to append *)
(* is accepted event by event, leaves a task and its attempts in step at each *)
(* of them, and leads to a snapshot that the next stage counts on.            *)

\* Snapshots that are not the journal's yet: does the kernel take event e after
\* s, and what is the snapshot then (KernelTakes and KernelAfter of k)?
TakesIn(s, e) ==
  CASE e.subject = "effect" -> TRUE
    [] e.subject = "dispatch" -> e.status = "APPLIED" => ObservedAccepts(s, e)
    [] OTHER -> Accepts(s, e)

AfterIn(s, e) ==
  CASE e.subject = "effect" -> s
    [] e.subject = "dispatch" -> IF e.status = "APPLIED" THEN ObservedFold(s, e) ELSE s
    [] OTHER -> Fold(s, e)

LastOf(s, t) == s.attempt[t][Len(s.attempt[t])]

Abandoned(a) == a.state = "TERMINATED" /\ a.why = "LEASE_LOST"

\* The latest attempt of a task, and the task's state.
Fits(a, x) ==
  /\ a.state \in {"RUNNING", "CANCEL_REQUESTED"} => x = "DISPATCHED"
  /\ a.state = "DISPATCH_REQUESTED" => x = "LEASED"
  /\ a.state = "RESERVED" => x \in {"LEASED", "BLOCKED"}
  /\ Abandoned(a) => x \in {"DISPATCHED", "BLOCKED", "READY", "LEASED"}
  /\ x \in {"STAGED", "PROMOTED", "VERIFIED"} => a.state = "SUCCEEDED"

\* Only the latest attempt of a task is at work or will be taken up again, and it
\* fits the task.
FitsIn(s, t) ==
  /\ \A n \in DOMAIN s.attempt[t] :
       s.attempt[t][n].state \notin Terminal \/ Abandoned(s.attempt[t][n])
         => n = Len(s.attempt[t])
  /\ Len(s.attempt[t]) > 0 => Fits(LastOf(s, t), s.task[t].state)

InStep(s) == s \in AnySnapshot /\ \A t \in Task : FitsIn(s, t)

\* Event e takes s to r.  One event may be rejected: RUN_BLOCKED of a run that is
\* blocked already, which a provider's late answer can lead to.
Goes(s, e, r) ==
  IF TakesIn(s, e) THEN r = AfterIn(s, e)
  ELSE e.subject = "run" /\ e.type = "RUN_BLOCKED" /\ s.status # "RUNNING" /\ r = s

\* The events es take s to r, in step all the way.
Leads(s, es, r) ==
  \E f \in [1..(Len(es) + 1) -> AnySnapshot] :
    /\ f[1] = s /\ f[Len(es) + 1] = r
    /\ \A i \in 1..(Len(es) + 1) : InStep(f[i])
    /\ \A i \in 1..Len(es) : Goes(f[i], es[i], f[i + 1])

\* A leased task gets a new attempt, when none of the former ones is left.
CanAdd(s, e, t, n) ==
  /\ InStep(s) /\ e \in AttemptEvent /\ e.epoch = s.epoch
  /\ e.type = "ATTEMPT_RESERVED" /\ e.from = "PLANNED" /\ e.to = "RESERVED" /\ e.why = "none"
  /\ t \in Task /\ e.task = t /\ n \in Nat \ {0} /\ e.attempt = n
  /\ Len(s.attempt[t]) + 1 = n /\ s.task[t].state = "LEASED"
  /\ \A m \in DOMAIN s.attempt[t] :
       s.attempt[t][m].state \in Terminal /\ ~Abandoned(s.attempt[t][m])

\* The dispatch of the latest attempt was applied: task and attempt move together.
CanObserve(s, e, t, n) ==
  /\ InStep(s) /\ e \in DispatchEvent /\ e.epoch = s.epoch /\ e.status = "APPLIED"
  /\ t \in Task /\ e.task = t /\ n \in Nat \ {0} /\ e.attempt = n
  /\ Len(s.attempt[t]) = n /\ LastOf(s, t).state = "DISPATCH_REQUESTED"
  /\ LastOf(s, t).epoch = e.reserved /\ s.task[t].state = "LEASED"

------------------------------------------------------------------------------
(* Where the events lead to.                                                *)

\* What the stages of a wave find of its tasks: reserved, sent out, judged.
Waiting(s, t) ==
  Len(s.attempt[t]) > 0 /\ LastOf(s, t).state = "RESERVED" /\ s.task[t].state = "LEASED"

Working(s, t) == Len(s.attempt[t]) > 0 /\ LastOf(s, t).state = "RUNNING"

Judged(s, t) ==
  /\ Len(s.attempt[t]) > 0
  /\ \/ LastOf(s, t).state = "FAILED"
     \/ LastOf(s, t).state = "SUCCEEDED" /\ s.task[t].state = "DISPATCHED"

\* The attempt that is being dispatched waits for the provider's answers.
Handed(s, id) ==
  /\ id[1] \in wave /\ id[2] \in Nat \ {0} /\ Len(s.attempt[id[1]]) = id[2]
  /\ LastOf(s, id[1]).state = "DISPATCH_REQUESTED" /\ LastOf(s, id[1]).epoch = id[3]

\* The snapshot s is what the coordinator counts on when it has appended everything.
Arrived(s) ==
  /\ pc \in {"reserve", "prepare"} => \A t \in wave : Waiting(s, t)
  /\ pc \in {"dispatch", "channel", "packet"} => \A t \in left : Waiting(s, t)
  /\ pc = "dispatch" => \A t \in wave \ left : Working(s, t)
  /\ pc \in {"channel", "packet"} =>
       Handed(s, at) /\ \A t \in wave \ left : t # at[1] => Working(s, t)
  /\ pc = "accept" =>
       (\A t \in left : Working(s, t)) /\ \A t \in wave \ left : Judged(s, t)

CourseInv == InStep(k) /\ (fresh => \E r : Leads(k, todo, r) /\ Arrived(r))

\* Its moves of a task.
CanMoveTask(s, t, type, from, to, why) ==
  /\ InStep(s) /\ s.epoch = k.epoch /\ why \in Why /\ t \in Task /\ to \in TaskState
  /\ <<type, from, to>> \in TaskMoves
  /\ type \in {"TASK_READY", "LEASE_ACQUIRED", "TASK_BLOCKED", "TASK_RETRY_SCHEDULED",
               "RESULT_STAGED", "PROMOTION_OBSERVED", "TASK_VERIFIED"}
  /\ s.task[t].state = from
  /\ Len(s.attempt[t]) > 0 => Fits(LastOf(s, t), to)

HasMovedTask(s, t, to, r) ==
  /\ InStep(r) /\ r.attempt = s.attempt /\ r.epoch = s.epoch /\ r.status = s.status
  /\ r.task[t].state = to
  /\ \A u \in Task : u # t => r.task[u] = s.task[u]

\* What such a move needs of the state s, and what the state r after it keeps and changes.
CanMove(s, id, type, from, to, why) ==
  /\ InStep(s) /\ s.epoch = k.epoch /\ why \in Why /\ id \in AnId /\ to \in AttemptState
  /\ <<type, from, to>> \in AttemptMoves
  /\ type \in {"ATTEMPT_RESERVED", "DISPATCH_REQUESTED", "ATTEMPT_RELEASED",
               "ATTEMPT_SUCCEEDED", "ATTEMPT_FAILED", "CANCEL_REQUESTED",
               "ATTEMPT_TERMINATED", "ATTEMPT_OUTCOME_UNKNOWN"}
  /\ Len(s.attempt[id[1]]) = id[2]
  /\ LastOf(s, id[1]).state = from /\ LastOf(s, id[1]).epoch = id[3]
  /\ type = "ATTEMPT_RESERVED" => id[3] < k.epoch
  /\ Fits([state |-> to, why |-> why], s.task[id[1]].state)

HasMoved(s, id, type, to, why, r) ==
  /\ InStep(r) /\ r.task = s.task /\ r.epoch = s.epoch /\ r.status = s.status
  /\ Len(r.attempt[id[1]]) = id[2]
  /\ LastOf(r, id[1]).state = to /\ LastOf(r, id[1]).why = why
  /\ type # "ATTEMPT_RESERVED" => LastOf(r, id[1]).epoch = id[3]
  /\ \A u \in Task : u # id[1] => r.attempt[u] = s.attempt[u]

\* The events of es from the m-th on take s to r.
Ahead(es, m, s, r) == Leads(s, SubSeq(es, m, Len(es)), r)

\* An event that may be left out before others.
MayGo(c, s, e, r) ==
  /\ c \in BOOLEAN /\ e \in Event /\ InStep(s) /\ InStep(r)
  /\ c => Goes(s, e, r)
  /\ ~c => r = s

MaybeFirst(c, e, w) == (IF c THEN <<e>> ELSE <<>>) \o w

\* The latest attempt of a task is being taken back: what it is, and its task.
Taken(s, id, a, x) ==
  /\ InStep(s) /\ s.epoch = k.epoch /\ Len(s.attempt[id[1]]) = id[2]
  /\ LastOf(s, id[1]).state = a /\ LastOf(s, id[1]).epoch = id[3]
  /\ a = "TERMINATED" => LastOf(s, id[1]).why = "LEASE_LOST"
  /\ s.task[id[1]].state = x

\* From any of the steps on that are not taken yet, the events es lead on.
TakesAhead(id, es) ==
  /\ es \in Seq(Event) /\ Len(es) = 6
  /\ \A s : Taken(s, id, "RUNNING", "DISPATCHED") => \E q : Ahead(es, 1, s, q)
  /\ \A s : Taken(s, id, "CANCEL_REQUESTED", "DISPATCHED") => \E q : Ahead(es, 2, s, q)
  /\ \A s : Taken(s, id, "TERMINATED", "DISPATCHED") => \E q : Ahead(es, 3, s, q)
  /\ \A s : Taken(s, id, "TERMINATED", "BLOCKED") => \E q : Ahead(es, 4, s, q)
  /\ \A s : Taken(s, id, "TERMINATED", "READY") => \E q : Ahead(es, 5, s, q)
  /\ \A s : Taken(s, id, "TERMINATED", "LEASED") => \E q : Ahead(es, 6, s, q)

\* The tasks of a set have moved, each in the same way.
MovedTo(s, D, x) ==
  [s EXCEPT !.task =
     [u \in Task |-> IF u \in D THEN [state |-> x, why |-> "none"] ELSE s.task[u]]]

\* One task has moved.
OneMoved(s, t, x) == [s EXCEPT !.task = [s.task EXCEPT ![t] = [state |-> x, why |-> "none"]]]

\* The tasks whose last attempt succeeded.
Won(s) == {t \in Task : Len(s.attempt[t]) > 0 /\ LastOf(s, t).state = "SUCCEEDED"}

\* The moves of all of them.
AllMove(type, o, n, from, to) == [i \in 1..n |-> TaskMove(type, o[i], from, to, "none")]

\* They lead from s to r.
AllMoved(s, type, o, n, from, to, r) ==
  /\ Leads(s, AllMove(type, o, n, from, to), r) /\ InStep(r)
  /\ r.epoch = s.epoch /\ r.attempt = s.attempt
  /\ \A i \in 1..n : r.task[o[i]].state = to

------------------------------------------------------------------------------
(* One unknown outcome.                                                     *)

\* Attempt n of t has an unknown outcome.
Lapsed(t, n) == S(t, n) = "OUTCOME_UNKNOWN"

AnyLapsed == \E t \in Task : \E n \in DOMAIN k.attempt[t] : Lapsed(t, n)

\* An open effect that no start can settle: the provider did not carry it out, or
\* does not tell, and it is no cancellation.
Withheld(p) == p[2] # "cancel" /\ (p \in doubted \/ p \notin done)

Hangs == \E p \in pending : Withheld(p)

\* An event that makes an outcome unknown; the answer to an effect.
Lapses(e) == e.subject = "attempt" /\ e.type = "ATTEMPT_OUTCOME_UNKNOWN"

Answers(e) == e.subject = "effect" /\ e.status # "ASKED"

Part(e) == <<e.id, e.op>>

Plain(e) == ~Lapses(e) /\ ~Answers(e)

\* An answer that leaves an effect nobody can settle.
Doubts(e) ==
  /\ Answers(e) /\ e.status \in {"UNKNOWN", "ABSENT"} /\ e.op # "cancel"
  /\ Part(e) \in pending /\ (e.status = "ABSENT" => Part(e) \notin done)

\* An unknown outcome is the only one, and leaves an effect that nobody can settle.
HangInv ==
  /\ doubted \subseteq pending
  /\ AnyLapsed => Hangs /\ pc \in Unsettled
  /\ \A t, u \in Task : \A n \in DOMAIN k.attempt[t] : \A m \in DOMAIN k.attempt[u] :
       Lapsed(t, n) /\ Lapsed(u, m) => t = u /\ n = m

\* So does one that is about to be.
LapseInv ==
  \A i \in DOMAIN todo : Lapses(todo[i]) =>
    /\ ~AnyLapsed
    /\ \A j \in DOMAIN todo : Lapses(todo[j]) => j = i
    /\ Hangs \/ Doubts(todo[1])

\* An answer is written down at once, and tells what happened.
AnswerInv ==
  \A i \in DOMAIN todo : Answers(todo[i]) =>
    /\ i = 1
    /\ todo[i].status = "ABSENT" /\ todo[i].op # "cancel" => Part(todo[i]) \notin done
    /\ todo[i].status = "APPLIED" /\ todo[i].op # "cancel" => Part(todo[i]) \notin doubted
    /\ todo[i].status = "UNKNOWN" => Part(todo[i]) \in pending

\* The effect that the coordinator waits for is open and has not been answered; a
\* child effect of a dispatch has not been carried out before.
AskInv ==
  /\ pc \in Asking /\ todo = <<>> => pending = {<<at, OpOf[pc]>>} /\ doubted = {}
  /\ pc \in {"channel", "packet"} => <<at, "send">> \notin done
  /\ pc = "channel" => <<at, "reserve">> \notin done

\* A channel was reserved only for attempts that have been dispatched.
ChannelInv ==
  \A id \in AnId : <<id, "reserve">> \in done =>
    /\ id[2] \in DOMAIN k.attempt[id[1]] /\ ~(k.attempt[id[1]][id[2]].epoch < id[3])
    /\ id[3] = k.attempt[id[1]][id[2]].epoch => S(id[1], id[2]) # "RESERVED"

\* The coordinator appends nothing inside a resume.
RecoveryInv ==
  /\ recovery # NoRecovery => ~fresh \/ todo = <<>>
  /\ broken # "recovery"

DoubtInv ==
  HangInv /\ LapseInv /\ AnswerInv /\ AskInv /\ ChannelInv /\ RecoveryInv

------------------------------------------------------------------------------
(* Every event is folded.  A run that is blocked is not reclaimed, so that the *)
(* coordinator dispatches, and blocks the run for a child effect, only while   *)
(* the run is not blocked.                                                     *)

\* An attempt of t is reserved; one is lost, and will be reserved again.
Booked(t) == \E n \in DOMAIN k.attempt[t] : S(t, n) = "RESERVED"

Astray(t) == \E n \in DOMAIN k.attempt[t] : LostAt(t, n)

Idle == \A t \in Task : ~Booked(t) /\ ~Astray(t)

Stuck(t) == Booked(t) /\ State(t) = "BLOCKED"

\* The event gives t back to the coordinator: it leases it, or it gives up an
\* attempt that will be reserved again.
Brings(e, t) ==
  \/ e.subject = "task" /\ e.type = "LEASE_ACQUIRED" /\ e.task = t
  \/ e.subject = "attempt" /\ e.to = "TERMINATED" /\ e.why = "LEASE_LOST" /\ e.task = t

\* The tasks that are at work, or will be when the events are appended: never more
\* than the manifest allows.
Active == {"LEASED", "DISPATCHED", "STAGED", "PROMOTED"}

Coming(t) == \E i \in DOMAIN todo : Brings(todo[i], t)

Load == {t \in Task : State(t) \in Active \/ Astray(t) \/ Coming(t)}

LoadInv == Cardinality(Load) <= MaxConcurrency

\* Points at which such events are appended.
Bringing == {"takeback", "reclaim", "reserve"}

\* The event brings back what comes to be at work.
Gives(e) ==
  \A t \in Task :
    /\ State(t)' \in Active => State(t) \in Active \/ Brings(e, t)
    /\ Astray(t)' => Astray(t) \/ Brings(e, t)

\* A task that is at work or lost is taken back: the events that do so, and those of
\* them that are still to be appended when m are in the journal.
BackTask(t) == ~Booked(t) /\ (State(t) \in Active \/ Astray(t))

BackEvents(t, es) ==
  /\ es \in Seq(Event) /\ Len(es) = 6
  /\ es[1].subject = "attempt" /\ es[1].to = "CANCEL_REQUESTED"
  /\ es[2].subject = "attempt" /\ es[2].to = "TERMINATED" /\ es[2].task = t
  /\ es[3].subject = "task" /\ es[3].type = "TASK_BLOCKED" /\ es[3].task = t
  /\ es[4].subject = "task" /\ es[4].type = "TASK_RETRY_SCHEDULED"
  /\ es[5].subject = "task" /\ es[5].type = "LEASE_ACQUIRED" /\ es[5].task = t
  /\ es[6].subject = "attempt" /\ es[6].to = "RESERVED" /\ es[6].task = t

LeftOfSix(s, r, m) ==
  /\ s \in Seq(Event) /\ DOMAIN s = 1..(6 - m) /\ Len(s) = 6 - m
  /\ \A i \in DOMAIN s : s[i] = r[i + m] /\ i + m \in 1..6

BackLeft(es, m) ==
  /\ DOMAIN todo' = 1..(6 - m) /\ Len(todo') = 6 - m
  /\ \A i \in DOMAIN todo' : todo'[i] = es[m + i] /\ m + i \in 1..6

\* No attempt is of an epoch to come.
EpochInv == \A t \in Task : \A n \in DOMAIN k.attempt[t] : k.attempt[t][n].epoch <= k.epoch

\* What is reserved is in the wave.
HoldInv == pc \in Waves \ {"wave"} => \A t \in Task : Booked(t) => t \in wave

\* A coordinator that has not given up holds no reservation of a blocked task.
StuckInv ==
  pc \notin {"down", "ending"} =>
    \A t \in Task : \A n \in DOMAIN k.attempt[t] :
      S(t, n) = "RESERVED" => k.attempt[t][n].epoch < k.epoch \/ State(t) # "BLOCKED"

\* The run is not blocked where attempts are taken back, reserved or dispatched.
StatusInv ==
  fresh =>
    /\ pc \in {"cancel", "recheck", "reserve", "prepare", "dispatch", "channel", "packet"} =>
         k.status = "RUNNING"
    /\ pc \in {"takeback", "reclaim"} /\ todo # <<>> => k.status = "RUNNING"

\* A run that is blocked has an unknown outcome, nothing that is reserved, or a
\* reservation that no start takes over.
Blocked == AnyLapsed \/ Idle \/ \E t \in Task : Stuck(t)

ReasonInv == k.status # "RUNNING" => Blocked

\* The events that block a task; that reserve an attempt; that block the run.
Blocks(e) == e.subject = "task" /\ e.type = "TASK_BLOCKED"

Books(e) == e.subject = "attempt" /\ e.to = "RESERVED"

Stops(e) == e.subject = "run" /\ e.type = "RUN_BLOCKED"

\* What is appended when a result is accepted; when a child effect was not applied.
Judges ==
  \A i \in DOMAIN todo :
    \/ todo[i].subject = "attempt" /\ todo[i].to \in {"SUCCEEDED", "FAILED"}
    \/ /\ Blocks(todo[i]) /\ todo[i].subject = "task" /\ todo[i].type = "TASK_BLOCKED"
       /\ todo[i].task \in Task
    \/ todo[i].subject = "run" /\ i = Len(todo) /\ k.status = "RUNNING"

Doubting ==
  /\ \A i \in DOMAIN todo :
       \/ todo[i].subject \in {"effect", "dispatch"}
       \/ Lapses(todo[i]) /\ todo[i].to = "OUTCOME_UNKNOWN"
       \/ Blocks(todo[i])
       \/ todo[i].subject = "run" /\ i = Len(todo)
  /\ \E i \in DOMAIN todo : Lapses(todo[i])

\* The run will be blocked for such a reason.
WillBlock ==
  \/ AnyLapsed
  \/ \E i \in DOMAIN todo : Lapses(todo[i])
  \/ /\ \A i \in DOMAIN todo : todo[i].subject = "run" \/ Blocks(todo[i])
     /\ \E t \in Task :
          /\ Booked(t)
          /\ State(t) = "BLOCKED" \/ \E i \in DOMAIN todo : TaskEventIs(i, t, "TASK_BLOCKED")
  \/ /\ Idle
     /\ \A i \in DOMAIN todo :
          todo[i].subject = "attempt" => todo[i].to \notin {"RESERVED", "TERMINATED"}

LastOK(i) == todo[i].subject = "run" \/ Books(todo[i]) => i = Len(todo)

BooksOK(i) ==
  Books(todo[i]) =>
    \/ i > 1 /\ TaskEventIs(i - 1, todo[i].task, "LEASE_ACQUIRED")
    \/ State(todo[i].task) = "LEASED" /\ \A j \in DOMAIN todo : todo[j].subject = "attempt"

BlocksOK(i) == Blocks(todo[i]) /\ pc # "ending" => ~Booked(todo[i].task)

StopsOK(i) == fresh /\ Stops(todo[i]) => k.status = "RUNNING" /\ WillBlock

\* What is appended while the run is blocked.
BlockedOK(i) ==
  fresh /\ k.status # "RUNNING" =>
    /\ todo[i].subject = "task" /\ todo[i].type = "TASK_RETRY_SCHEDULED" => Idle
    /\ todo[i].subject = "attempt" => todo[i].to \in {"SUCCEEDED", "FAILED", "OUTCOME_UNKNOWN"}

PlanInv ==
  \A i \in DOMAIN todo :
    LastOK(i) /\ BooksOK(i) /\ BlocksOK(i) /\ StopsOK(i) /\ BlockedOK(i)

FoldInv ==
  /\ EpochInv /\ HoldInv /\ StuckInv /\ StatusInv /\ ReasonInv /\ PlanInv
  /\ broken # "kernel"

\* What an appended event leaves of the reasons for the events to come.
Keeps(e) ==
  /\ k'.status = k.status /\ k'.epoch = k.epoch
  /\ Gives(e)
  /\ \A t \in Task : Booked(t)' => Booked(t) \/ (Books(e) /\ e.task = t)
  /\ AnyLapsed \/ Lapses(e) => AnyLapsed'
  /\ e.subject = "attempt" => \A t \in Task : State(t)' = State(t)
  /\ \A t \in Task : Brings(e, t) /\ e.subject = "task" => State(t)' = "LEASED"
  /\ Blocks(e) =>
       \A t \in Task :
         /\ Booked(t) => Booked(t)'
         /\ State(t) = "BLOCKED" \/ e.task = t => State(t)' = "BLOCKED"
  /\ Idle /\ (e.subject = "attempt" => e.to \notin {"RESERVED", "TERMINATED"}) => Idle'

\* A task has moved; a dispatched attempt and its task have; an attempt has, or is new.
TaskWent(e) ==
  /\ k'.attempt = k.attempt /\ k'.epoch = k.epoch /\ k'.status = k.status
  /\ State(e.task) = e.from /\ State(e.task)' = e.to
  /\ \A u \in Task : u # e.task => State(u)' = State(u)
  /\ \A u : (Booked(u)' <=> Booked(u)) /\ (AnyLapsed' <=> AnyLapsed) /\ (Idle' <=> Idle)
  /\ e.from = "BLOCKED" => e.type = "TASK_RETRY_SCHEDULED"
  /\ e.type = "TASK_BLOCKED" <=> e.to = "BLOCKED"
  /\ e.subject = "task" /\ e.task \in Task

ObservedWent(e) ==
  /\ k'.epoch = k.epoch /\ k'.status = k.status /\ e.subject = "dispatch"
  /\ \A u \in Task : State(u)' = "BLOCKED" => State(u) = "BLOCKED"
  /\ \A u \in Task :
       /\ DOMAIN k'.attempt[u] = DOMAIN k.attempt[u] /\ (Booked(u)' <=> Booked(u))
       /\ \A m \in DOMAIN k.attempt[u] :
            /\ k'.attempt[u][m].epoch = k.attempt[u][m].epoch
            /\ S(u, m)' = "RESERVED" <=> S(u, m) = "RESERVED"

AttemptWent(e) ==
  /\ \A u \in Task : \A m \in DOMAIN k.attempt[u] :
       /\ m \in DOMAIN k'.attempt[u]
       /\ \/ k'.attempt[u][m] = k.attempt[u][m]
          \/ u = e.task /\ m = e.attempt /\ S(u, m) = e.from
  /\ \A u \in Task : \A m \in DOMAIN k'.attempt[u] :
       \/ m \in DOMAIN k.attempt[u] /\ k'.attempt[u][m] = k.attempt[u][m]
       \/ /\ u = e.task /\ S(u, m)' = e.to
          /\ e.to = "TERMINATED" => k'.attempt[u][m].why = e.why
          /\ \/ k'.attempt[u][m].epoch = k.epoch
             \/ /\ m \in DOMAIN k.attempt[u] /\ e.to # "RESERVED"
                /\ k'.attempt[u][m].epoch = k.attempt[u][m].epoch

===============================================================================
