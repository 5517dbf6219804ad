--------------------------- MODULE CoordinatorLease ---------------------------
(***************************************************************************)
(* The coordinator lease of one run.  Coordinator processes compete for it *)
(* through lease events in the journal (services/recovery.py,              *)
(* CoordinatorLeaseService; services/journal.py, CoordinatorLeaseState) and *)
(* the holder dispatches: it checks the lease, appends an intent, recovers *)
(* and checks the lease again, and only then calls the provider            *)
(* (processes/coordinator.py, processes/production.py).                    *)
(*                                                                         *)
(* Abstractions.  The journal is what JournalContract promises: an append  *)
(* takes effect iff the writer's cursor is at the head, so instead of      *)
(* heads the model keeps the set of coordinators whose cursor is there     *)
(* (heads do not repeat).  Times are kept relative to the present moment,  *)
(* and are cut off where no comparison tells them apart any more.  A clock *)
(* reading is off by at most Drift either way.  A restarted coordinator is *)
(* another owner (process_start_id), hence another member of Coord.        *)
(***************************************************************************)
EXTENDS Integers

CONSTANTS
  Coord,       \* coordinator processes (incarnations) of the run
  TTL,         \* lease_ttl_seconds
  Skew,        \* lease_clock_skew_seconds
  Drift,       \* a clock is at most this far from the true time
  MaxToken,    \* bound: fencing tokens handed out in a behaviour
  ProbeErrs,   \* TRUE: a live process may look dead (other PID namespace)
  LossReports  \* TRUE: a recovery actor may append LEASE_LOST

ASSUME LeaseAssumption ==
  /\ TTL \in Nat /\ Skew \in Nat /\ 4 * Skew < TTL
  /\ Drift \in Nat /\ MaxToken \in Nat
  /\ ProbeErrs \in BOOLEAN /\ LossReports \in BOOLEAN
  /\ "none" \notin Coord

VARIABLES
  lease,    \* the latest lease event: its kind, owner and fencing token
  left,     \* time until that lease expires (negative: it has expired)
  since,    \* time since the last event was recorded
  tail,     \* the epoch of the last event
  pc,       \* where each coordinator is
  proc,     \* what its PID shows: the process, nothing, or another process
  current,  \* the coordinators whose cursor is at the head of the journal
  reported, \* history: the fencing tokens whose lease was reported lost
  view,     \* the lease in each coordinator's cursor
  vleft,    \* the time until that lease expires
  token     \* the fencing token each coordinator works under

journal == <<lease, left, since, tail, current, reported>>
vars == <<journal, pc, proc, view, vleft, token>>

None == "none"
Kind == {"none", "acquired", "renewed", "released", "lost"}
NoLease == [kind |-> "none", owner |-> None, token |-> 0]
Lease == [kind : Kind, owner : Coord \cup {None}, token : Nat]

PC == {"idle", "recovered", "probed", "confirm", "holding", "admitted",
       "requested", "effect", "stopped", "done"}

\* Program points at which a coordinator works under its token.
Holder == {"holding", "admitted", "requested", "effect"}

\* Beyond these no guard tells two times apart.
Horizon == Skew + 2 * Drift + 1
Later(t) == IF t > -Horizon THEN t - 1 ELSE t

Reading == -Drift..Drift
Active(l) == l.kind \in {"acquired", "renewed"}

\* The journal's lease is active and belongs to this owner.
Holds(c) == Active(lease) /\ lease.owner = c

------------------------------------------------------------------------------
(* CoordinatorLeaseState: what the lease allows at a clock reading r.       *)

FromMargin(t, r) == r > t - Skew

\* An active lease may be superseded: the reading is past expires_at + skew.
TakeoverDue(t, r) == r > t + Skew

\* The reading is before expires_at - skew.
Safe(t, r) == r < t - Skew

AllowsAdmission(l, t, c, r) ==
  /\ Active(l)
  /\ l.owner = c
  /\ l.token = token[c]
  /\ Safe(t, r)

------------------------------------------------------------------------------
Init ==
  /\ lease = NoLease /\ left = 0 /\ since = 0
  /\ tail = 0
  /\ pc = [c \in Coord |-> "idle"]
  /\ proc = [c \in Coord |-> "alive"]
  /\ current = {} /\ reported = {}
  /\ view = [c \in Coord |-> NoLease]
  /\ vleft = [c \in Coord |-> 0]
  /\ token = [c \in Coord |-> 0]

Goto(c, l) == pc' = [pc EXCEPT ![c] = l]
Runs(c, l) == proc[c] = "alive" /\ pc[c] = l

\* Recover: read the journal to its head.
ReadJournal(c) ==
  /\ current' = current \cup {c}
  /\ view' = [view EXCEPT ![c] = lease]
  /\ vleft' = [vleft EXCEPT ![c] = left]
  /\ UNCHANGED <<lease, left, since, tail, reported>>

StaleCursor(c, r) == since + r >= 0
OwnHead(c, r) == current = {c} /\ since + r >= 0

\* The storage takes an event: the cursor is at the head and the authority's
\* clock is not behind the last event.
Accepted(c, r) == c \in current /\ since + r >= 0

\* The storage stamps the event with its clock, which reads r.
Record(c, epoch, r) ==
  /\ current' = {c}
  /\ since' = -r
  /\ tail' = epoch
  /\ UNCHANGED reported

AppendLease(c, l, expires, r) ==
  /\ Record(c, l.token, r)
  /\ lease' = l
  /\ left' = expires
  /\ view' = [view EXCEPT ![c] = l]
  /\ vleft' = [vleft EXCEPT ![c] = expires]

\* Any other event, under the epoch of its writer.
AppendEvent(c, r) ==
  /\ Accepted(c, r)
  /\ Record(c, token[c], r)
  /\ UNCHANGED <<lease, left, view, vleft>>

------------------------------------------------------------------------------
(* Acquiring the lease.                                                     *)

Recover(c) ==
  /\ Runs(c, "idle")
  /\ ReadJournal(c)
  /\ Goto(c, "recovered")
  /\ UNCHANGED <<proc, token>>

\* The lease is this coordinator's own and nothing but its acquisition was
\* recorded of it: acquire answers IDEMPOTENT.
AcquiredAlready(c) ==
  /\ Runs(c, "recovered")
  /\ view[c].kind = "acquired" /\ view[c].owner = c
  /\ Goto(c, "confirm")
  /\ UNCHANGED <<journal, proc, view, vleft, token>>

Unprobed(o) == TRUE

\* probe_lease_owner_process: DEAD.
SeemsDead(o) ==
  proc[o] \in {"dead", "gone"} \/ (ProbeErrs /\ proc[o] = "alive")

\* Only an active lease of another owner needs the probe.
Probe(c) ==
  /\ Runs(c, "recovered")
  /\ Active(view[c]) /\ view[c].owner # c => SeemsDead(view[c].owner)
  /\ ~(view[c].kind = "acquired" /\ view[c].owner = c)
  /\ Goto(c, "probed")
  /\ UNCHANGED <<journal, proc, view, vleft, token>>

\* Any other answer: a live conflict, a PID that cannot be inspected, or one that
\* was reused; the command ends and is started again later.
ProbeRejected(c) ==
  /\ Runs(c, "recovered")
  /\ Active(view[c]) /\ view[c].owner # c
  /\ Goto(c, "idle")
  /\ UNCHANGED <<journal, proc, view, vleft, token>>

NextToken(c) == view[c].token + 1

Acquire(c) ==
  /\ Runs(c, "probed")
  /\ view[c].token < MaxToken
  /\ \E r \in Reading :
       /\ Accepted(c, r)
       /\ Active(view[c]) => TakeoverDue(vleft[c], r)
       /\ AppendLease(c, [kind |-> "acquired", owner |-> c, token |-> NextToken(c)],
                      TTL + r, r)
  /\ Goto(c, "confirm")
  /\ UNCHANGED <<proc, token>>

\* A conflict, or LIVE_LEASE_CONFLICT.
AcquireRejected(c) ==
  /\ Runs(c, "probed")
  /\ \/ c \notin current
     \/ \E r \in Reading : Active(view[c]) /\ ~TakeoverDue(vleft[c], r)
  /\ Goto(c, "idle")
  /\ UNCHANGED <<journal, proc, view, vleft, token>>

\* acquire_lease recovers again and adopts the token of the lease it finds.
Confirm(c) ==
  /\ Runs(c, "confirm")
  /\ ReadJournal(c)
  /\ IF Holds(c)
     THEN Goto(c, "holding") /\ token' = [token EXCEPT ![c] = lease.token]
     ELSE Goto(c, "idle") /\ UNCHANGED token
  /\ UNCHANGED proc

\* The graph is not admitted or the recovery fails: the run ends with the lease
\* acquired, and is started again.
ConfirmBlocked(c) ==
  /\ Runs(c, "confirm")
  /\ Goto(c, "idle")
  /\ UNCHANGED <<journal, proc, view, vleft, token>>

------------------------------------------------------------------------------
(* Holding the lease.                                                       *)

\* Before an effect, and every third of the TTL while workers run.  The service
\* reads the lease from the journal; the event has to extend the cursor.
Renew(c) ==
  /\ Runs(c, "holding") \/ Runs(c, "effect")
  /\ Holds(c)
  /\ \E r \in Reading :
       /\ Accepted(c, r)
       /\ Safe(left, r)
       /\ TTL + r > left
       /\ AppendLease(c, [lease EXCEPT !.kind = "renewed"], TTL + r, r)
  /\ UNCHANGED <<pc, proc, token>>

\* _admission_reason.
Admit(c) ==
  /\ Runs(c, "holding")
  /\ \E r \in Reading : AllowsAdmission(view[c], vleft[c], c, r)
  /\ Goto(c, "admitted")
  /\ UNCHANGED <<journal, proc, view, vleft, token>>

\* Append the intent.
Request(c) ==
  /\ Runs(c, "admitted")
  /\ \E r \in Reading : AppendEvent(c, r)
  /\ Goto(c, "requested")
  /\ UNCHANGED <<proc, token>>

\* _external_effect_admitted: recover, compare the head, check the lease.
Recheck(c) ==
  /\ Runs(c, "requested")
  /\ c \in current
  /\ \E r \in Reading : AllowsAdmission(lease, left, c, r)
  /\ Goto(c, "effect")
  /\ UNCHANGED <<journal, proc, view, vleft, token>>

\* The provider has answered; the observation is appended.
Observe(c) ==
  /\ Runs(c, "effect")
  /\ \E r \in Reading : AppendEvent(c, r)
  /\ Goto(c, "holding")
  /\ UNCHANGED <<proc, token>>

\* ProductionTerminalFinalizer appends the terminal transitions ...
Finish(c) ==
  /\ Runs(c, "holding")
  /\ \E r \in Reading : AppendEvent(c, r)
  /\ UNCHANGED <<pc, proc, token>>

\* ... and releases the lease.
Release(c) ==
  /\ Runs(c, "holding")
  /\ Holds(c)
  /\ \E r \in Reading :
       /\ Accepted(c, r)
       /\ AppendLease(c, [lease EXCEPT !.kind = "released"], r, r)
  /\ Goto(c, "done")
  /\ UNCHANGED <<proc, token>>

\* Whatever the step, a conflict, a clock behind the journal, or a lease that
\* is no longer safe stops the coordinator for good.
Stop(c) ==
  /\ proc[c] = "alive" /\ pc[c] \in Holder \cup {"probed"}
  /\ \/ c \notin current /\ pc[c] # "probed"
     \/ \E r \in Reading : since + r < 0
     \/ \E r \in Reading : ~Safe(vleft[c], r) /\ pc[c] # "probed"
  /\ Goto(c, "stopped")
  /\ UNCHANGED <<journal, proc, view, vleft, token>>

------------------------------------------------------------------------------
(* The environment.                                                         *)

\* CoordinatorLeaseService.lost, of the lease some recovery actor expects.
Lost ==
  /\ LossReports
  /\ Active(lease)
  /\ \E r \in Reading :
       /\ since + r >= 0
       /\ since' = -r
       /\ left' = r
  /\ tail' = lease.token
  /\ lease' = [lease EXCEPT !.kind = "lost"]
  /\ current' = {}
  /\ reported' = reported \cup {lease.token}
  /\ UNCHANGED <<pc, proc, view, vleft, token>>

\* A process ends; its PID may go to another process, once in a behaviour (a
\* bound), until that process ends too.
Die(c) ==
  /\ proc[c] = "alive"
  /\ proc' = [proc EXCEPT ![c] = "dead"]
  /\ Goto(c, "stopped")
  /\ UNCHANGED <<journal, view, vleft, token>>

ReusePid(c) ==
  /\ proc[c] = "dead"
  /\ proc' = [proc EXCEPT ![c] = "reused"]
  /\ UNCHANGED <<journal, pc, view, vleft, token>>

FreePid(c) ==
  /\ proc[c] = "reused"
  /\ proc' = [proc EXCEPT ![c] = "gone"]
  /\ UNCHANGED <<journal, pc, view, vleft, token>>

Tick ==
  /\ left' = Later(left)
  /\ vleft' = [c \in Coord |-> Later(vleft[c])]
  /\ since' = IF since < Drift THEN since + 1 ELSE since
  /\ UNCHANGED <<lease, tail, current, reported, pc, proc, view, token>>

------------------------------------------------------------------------------
Acquisition(c) ==
  \/ Recover(c) \/ AcquiredAlready(c) \/ Probe(c) \/ ProbeRejected(c)
  \/ Acquire(c) \/ AcquireRejected(c) \/ Confirm(c) \/ ConfirmBlocked(c)

Work(c) ==
  \/ Renew(c) \/ Admit(c) \/ Request(c) \/ Recheck(c) \/ Observe(c)
  \/ Finish(c) \/ Release(c) \/ Stop(c)

Environment(c) == Die(c) \/ ReusePid(c) \/ FreePid(c)

Next ==
  \/ \E c \in Coord : Acquisition(c) \/ Work(c) \/ Environment(c)
  \/ Lost
  \/ Tick

Spec == Init /\ [][Next]_vars

\* Time passes; a command that was rejected is started again, a PID does not
\* stay in other hands for ever, a probe that keeps finding the owner gone does
\* not fail every time, and an acquisition that keeps being due is made.
LiveSpec ==
  /\ Spec
  /\ WF_vars(Tick)
  /\ \A c \in Coord :
       /\ WF_vars(Recover(c)) /\ WF_vars(AcquireRejected(c)) /\ WF_vars(Confirm(c))
       /\ WF_vars(ProbeRejected(c)) /\ WF_vars(AcquiredAlready(c)) /\ WF_vars(FreePid(c))
       /\ SF_vars(Probe(c)) /\ SF_vars(Acquire(c))

------------------------------------------------------------------------------
(* Properties.                                                              *)

TypeOK ==
  /\ lease \in [kind : Kind, owner : Coord \cup {None}, token : 0..MaxToken]
  /\ left \in Int
  /\ since \in Int
  /\ tail \in Nat
  /\ pc \in [Coord -> PC]
  /\ proc \in [Coord -> {"alive", "dead", "reused", "gone"}]
  /\ current \in SUBSET Coord
  /\ reported \in SUBSET Nat
  /\ view \in [Coord -> Lease]
  /\ vleft \in [Coord -> Int]
  /\ token \in [Coord -> Nat]

\* Fencing: every event is written under the epoch of the latest lease, so a
\* coordinator that was superseded adds nothing to the journal, however long it
\* was suspended between a check and the append, and whatever the clocks say.
Fenced == tail = lease.token

\* No two coordinators ever work under the same fencing token.
TokensDistinct ==
  \A c, d \in Coord : token[c] = token[d] /\ token[c] # 0 => c = d

\* While a coordinator calls a provider the lease in the journal is its own:
\* nobody takes over from a process that is suspended in an external effect.
EffectsExclusive ==
  \A c \in Coord :
    pc[c] = "effect" =>
      Holds(c) /\ lease.token = token[c]

\* The admission window closes before the takeover window opens: even when a
\* live holder is taken for dead, a coordinator that passes its admission check
\* has not been superseded, as long as the clocks are within the agreed skew and
\* nobody reported its lease lost before it had run out.
AdmittedUnsuperseded ==
  [][\A c \in Coord :
       pc[c] = "holding" /\ pc'[c] = "admitted" =>
         lease.token = token[c] \/ token[c] \in reported]_vars

\* The lease of a dead coordinator does not block the run: it is taken over,
\* unless every contender is gone (or the model's tokens are used up).
TakenOver ==
  \A c \in Coord :
    Active(lease) /\ lease.owner = c /\ proc[c] # "alive" ~>
      \/ lease.owner # c
      \/ lease.token = MaxToken
      \/ \A d \in Coord : proc[d] # "alive" \/ pc[d] \in {"stopped", "done"}
=============================================================================
