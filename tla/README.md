# Verification of wish-builder

wish-builder executes a frozen graph of coding tasks: a foreground coordinator
hands each task to an AI worker in a Git worktree of its own, stages, promotes
and verifies the results, and writes everything it decides into an append-only
journal, from which any later process recovers. This directory holds TLA+
models of that core, the TLC configurations that check them on small instances,
and TLAPS proofs of their main safety properties. `PROJECT.json` lists
components, runs, mutants, the source lines of every definition, findings,
hazards and theorems.

Paths below are relative to `wish_builder/` unless they begin with another
directory of the repository (`wish-builder/scripts/wish_builder/` is a packaged
copy of the same modules and is not looked at).

## 1. Inventory

| Component | State it keeps | Operations | Talks to |
|---|---|---|---|
| Journal storage (`services/journal.py`, `adapters/storage/filesystem.py`) | segment files of framed events, `index.json`, `append.lock` | compare-and-append of an event or a draft, rotation, index publication | every process of the run, through the file system |
| Replay (`services/replay.py`) | none; repairs the files it reads | survey, index check, scan of the hash chain, cut of a torn tail, index rebuild, start from a checkpoint | journal files, without the lock |
| Coordinator lease (`services/recovery.py`, `CoordinatorLeaseState`, `adapters/process_identity.py`) | the lease projected from journal events | acquire, renew, release, lost, admission, process probe | journal, process table, clock |
| State kernel (`kernel/state.py`) | snapshot of run, tasks, attempts, epoch | fold of one event, rejection of illegal ones | folded by the coordinator and by replay |
| Graph and ready set (`kernel/dag.py`, `kernel/graph_index.py`) | dependency counts, conflicts, task states | compile, incremental update, ready tasks | coordinator, replay |
| Foreground coordinator (`processes/coordinator.py`) | a cursor: head, snapshot, index, resumes in progress | reserve, dispatch, accept results, reclaim, take back, requeue, resume | journal, child effects |
| Production start (`processes/production.py`, `production_recovery.py`) | the fencing token | acquire the lease, reconcile effects, take back, reclaim, requeue | lease, coordinator, providers, Git |
| Child effects (`services/backend_effects.py`, `external_recovery.py`, `dispatch_recovery.py`) | pending effects projected from the journal, evidence files | reserve a channel, send a task packet, cancel a turn; inspect and retry | providers |
| Provider channel (`adapters/providers/codex_app_server.py`) | channel state file, a client with its reader thread | reserve, send, inspect, cancel, close | the provider's app-server |
| Wave loop (`processes/foreground.py`, `workflow.py`, `backend_workers.py`) | the wave being handled | prepare, dispatch, collect, stage, promote, clean up, checkpoint | all of the above |
| Promotion and worktrees (`services/promotion.py`, `processes/acceptance.py`, `adapters/git_worktree.py`) | the target branch, staged refs, worktrees | stage, plan in graph order, accept, fast-forward the branch | Git |
| Cleanup (`services/cleanup.py`) | worktrees | plan, remove or quarantine, one by one | Git |
| Resume command (`cli/wishctl.py`) | none | resume one unknown dispatch with a human's proof | journal |
| Gate B and admission (`services/gate_b_bootstrap.py`, `execution_admission.py`, `decisions.py`) | the first events of the journal | a resumable sequence of eight events; admission of a start | journal |
| Checkpoints (`services/checkpoints.py`, `execution_checkpoints.py`) | immutable objects and a pointer | publish, load | replay |
| Deadlines (`services/attempt_deadlines.py`) | durable deadlines | capture, evaluate after a restart | clocks |
| Runner and containment (`processes/runner.py`, `processes/containment/`) | a process tree and its output | run, limit, time out, terminate | operating system |
| Version registry (`services/backend_version_registry.py`) | registry file and pin | publish both with rollback | file system |
| Trellis (`services/trellis_*.py`, `adapters/trellis/`, `bridges/`) | the projection of task states in another repository | admit, project, check out | Node.js bridge |
| Contracts, validation, presentation | none | pure functions over records | |

What is hard: several processes share one journal without a server, and replay
reads and repairs it without the lock; a coordinator may be suspended between a
check and the act it admits while another takes its lease; it may die between
any two events, with an effect at a provider or in Git done but not recorded; a
provider may answer late, or not at all; a person commits to the branch that
results land on; the resume and decide commands write to the journal while
others may be running; checkpoints are published by processes that nothing
excludes; and an event that the kernel rejects, once it is in the journal, makes
the run unreadable.

What makes each part correct:

- journal: one hash chain; what was acknowledged stays; a retried append is
  journaled once; every fault is repaired by a later replay;
- checkpoints: a replay that starts from one recovers what a replay from the
  first event would; the pointer names a whole object; a truncation is reported
  only if there was one;
- lease: one fencing token per owner; a superseded coordinator writes nothing
  and calls no provider; the lease of the dead is taken over;
- Gate B: a start is admitted only to what one person approved as a whole;
- graph: the incremental index is the rebuilt one; overlapping tasks exclude
  each other and never block each other for good;
- kernel and coordinator: only events the kernel takes; a task and its attempts
  stay in step through every crash;
- dispatch and recovery: no task is sent out twice, no result is thrown away, no
  two workers share a worktree, at most one effect is in doubt, every start ends;
- provider channel: one prompt per worker; what is said of a turn is so; its end
  is found out;
- landing: what lands is what was accepted, once, in graph order, over nobody
  else's work, and the journal says so; only worktrees of landed results are
  removed.

## 2. Modules

| Module | Models |
|---|---|
| `JournalContract` | the abstract log: an append takes effect at the head or not at all, and is acknowledged |
| `Journal` | segment files, index, lock, replay, crashes, I/O faults, power loss; refines `JournalContract` |
| `JournalProofs` | proofs about `Journal`, its heads and retries, and the refinement |
| `Checkpoints`, `CheckpointsProofs` | objects, pointer, replay from a checkpoint, two publishers, power loss |
| `CoordinatorLease`, `LeaseProofs` | contenders for the lease, the holder's checks, provider calls, PIDs, clocks |
| `GateB`, `GateBProofs` | the first eight events, the commands that write them, admission |
| `StateKernel` | transition tables and folds of the kernel |
| `ReadySet`, `ReadySetProofs` | graph, conflicts, incremental index, ready tasks; extends `StateKernel` |
| `Dispatch` | coordinator, start, child effects, wave loop, resume command; extends `StateKernel` |
| `DispatchInvariants`, `DispatchProofs` | the inductive invariants of `Dispatch` with the words they are stated in, and the proofs |
| `TurnChannel`, `TurnChannelProofs` | the channel of one attempt, its client and reader thread, the app-server |
| `LandingContract` | the abstract landing: an accepted result lands once, after its dependencies, on the commit it was accepted on |
| `Landing`, `LandingProofs` | worktrees, staging, acceptance, promotion, cleanup, the user's commits; refines `LandingContract` |
| `MC...` | model values, small graphs and symmetry for TLC |

The modules stack on each other's promises instead of sharing state.
`CoordinatorLease`, `GateB` and `Checkpoints` take an append to be what
`JournalContract` says (it takes effect iff the cursor is at the head).
`Dispatch` and `Landing` take a coordinator to be alone in what `Fenced` and
`EffectsExclusive` of `CoordinatorLease` say: events and effects of a superseded
coordinator do not happen, so one coordinator at a time is enough; the resume
command, which takes no lease, runs beside it in `Dispatch`, and the user beside
it in `Landing`. `Landing` and `Dispatch` share the wave: what happens up to a
worker's result is `Dispatch`'s, what happens to the result is `Landing`'s.
`Dispatch` leaves the choice among ready tasks to `ReadySet`, and takes the
answers of `TurnChannel` as those of any provider, early, late or none.

### Journal

`frames`, `torn`, `synced`, `nseg` and `index` are the files; `lock` is
`append.lock`; `pc`, `head`, `job` and `seen` are a process between its system
calls; `acked` is what callers were told. A process replays
(`Start`, `Survey`, `CheckIndex`, `Scan`, `Repair`, `Truncate`, `Reindex`) and appends (`Submit`, `Lock`, `Load` or `LoadOther`, `Observe`,
`Create`, `Publish`, `Write`, `Fsync`); `ShortWrite`, `Fault`, `Crash` and
`LosePower` can come at every step. Reading one file is atomic and so is one
write. `Repair` is the size check of a tail repair and `Truncate` the cut, two steps
without the lock as in the code. The history `raced` says that a tail was cut while
another process was between the two on the same tail (`OtherRepair`): what that does
is the finding of section 5, and the other properties speak of journals to which it
has not happened. A repair that overlaps with appends, rotations and reads, but with
no second repair of its tail, is no exception.
Byte limits and decoding are left out; checkpoints have their own module.

### Checkpoints

`events`, `synced`, `written` and `nextSegment` are the journal as far as its
positions go; `objects`, `current` and `maybe` are the directory of objects and
`current.json`, the last what the pointer may be after a power loss. A start
reads pointer and object (`ReadPointer`, `ReadObject`), scans the journal behind
them or all of it (`Scan`, `ScanTruncated`), and may publish what it recovered;
a coordinator publishes after its own events (`Observe`). Publishing follows
`_write_immutable` and `_atomic_publish` call by call: `Create`, `Compare`,
`Displace`, `Recreate`, `Write`, `Sync`, `Settle`, `Point`, `SyncRoot`. Two
processes may be anywhere in this at once. `LoseEvent` takes an event away from
the journal (an older copy of the files), which replay must notice. `sealedOpen`
says that a rotation sealed a frame that nobody had synced (`_rotate` syncs the new
segment only): later appends do not make it durable any more. The histories `taken`
and `moved` name the two exceptions of `PointerResolves`, each by the object: one
that a publisher compared equal before its data was durable, and took as it was; and
one that a publisher moved away while the pointer or another publisher wanted it.
An object that is found in place and durable is no exception.

### Coordinator lease

`lease`, `left`, `since`, `tail` and `current` are the journal as far as leases
go: the latest lease, the time to its expiry and since the last event, the epoch
of the last event, and who has a cursor at the head. Times are relative, so a
behaviour of any length has finitely many states. A contender recovers, probes
the owner's process, acquires and confirms; a holder renews, is admitted,
records an intent, checks again, calls a provider, records the answer, finishes
or releases. `Tick` may come between any two steps, which is how a process is
suspended. `ProbeErrs` lets a live process look dead; `LossReports` lets a
recovery actor record the loss of a lease, which ends it without any window; the
history `reported` tells such a succession from a takeover by time. A clock is
off by at most `Drift`.

### Gate B

`log` is the journal. A command reads it, goes on with the prefix it finds if
that fits its own material (`Begin`, `Fits`, `PrefixFits`), appends what is
missing (`AppendNext`, `Found`, `Conflict`) and finishes or fails; it dies
anywhere and is run again, with the same or with other material. `Decide` is the
decide command, which answers any request it finds, and `Later` what a
coordinator appends after its admission. `approved` is what a person said yes
to. The parts of a material (manifest, workspace, artifact, approver) are
operators of it, so that two materials may agree in some and differ in others.

### State kernel, ready set and dispatch

In `StateKernel`, `Accepts` and `Fold` are `apply_transition`,
`ObservedAccepts` and `ObservedFold` the joint move of task and attempt on
DISPATCH_OBSERVED.

`ReadySet` carries `kernel` and `index` along a cursor. `Index` and `ReadyTasks`
are what `compile` and `rebuild` make of a snapshot, the tasks selected in
topological order among those that do not overlap with an active or an earlier
selected one; `Advance` is the incremental update, which adjusts one counter per
dependent. Any event that the kernel takes may come, those that no part of the
program writes today included, but a lease comes from where the program leases: from
the ready set (`MakeReady`, `LeaseTask`), or from a take-back of a cancelled dispatch,
which leases a task again without asking the ready set, the conflicts or the limit
(`LoseTask`, `TASK_RETRY_SCHEDULED`, `LeaseBack`). `Restart` is a replay from a
checkpoint, after which a start settles what earlier epochs left before it reserves
anything (`settling`, `taking`, `Settled`).

In `Dispatch`, `k` is the kernel's snapshot. `pending`, `doubted`, `unanswered`,
`applied`, `cancelled` and `absent` are the projections of the journal that
recovery reads; `recovery` is a resume that is not complete. The history `late` says
that a start has found a child effect of a dispatch carried out that the provider had
answered UNKNOWN to before (`_reconcile_locked` of the provider channel does answer
so): the journal then no longer holds an open effect for a dispatch whose outcome it
still calls unknown. `done`, `live`,
`finished` and `dirty` are the world: effects carried out, workers, their
results, changed worktrees.

A handler puts the events it is about to append into `todo`; `AppendNext`
appends and folds them one by one, and `Crash` may come after each. This is the
order of `_append_payload`: the event is in the journal before the kernel sees
it, so an event that does not fold sets `broken` and no later start reads the
journal. `Conflict` is what happens to a coordinator after the resume command
has written. A start runs `reconcile`, `takeback`, `reclaim` and the absent
preparation in the order of `acquire_lease`, the last with its budget of attempts
(`RecoverAbsent`, `Requeueable`); the wave loop runs `wave`,
`prepare`, `dispatch` (`channel`, `packet`), `accept` and lands the results in
three task transitions. Where the loop returns early and writes nothing, the
journal is left as a crash leaves it, and `Crash` stands for both.

### Provider channel

`TurnChannel` has three parts that run on their own. The app-server: `prompts`,
`turn`, `requests`, `owed` and `out` are what it has started, has to read, to
write and has written. The client: the reader thread takes one frame at a time
(`Read`), puts answers and notifications by, and calls the channel back with the
end of a turn (`OnFrame`), for which it needs the lock that a call may hold. The
channel: `pc` and `op` are the call that holds its lock; `mem` and `disk` are
its state in memory and in `channel-state.json`. A send saves RUNNING (`TurnActive`)
and then, separately, an end of the turn that has been read already (`TurnApplied`). Each wait of a call ends with
the frame it waits for or with a timeout, an error, a closed pipe or a server
that is gone (`SendGivesUp`, `CancelGivesUp`); `Unsaved` is a state file that
could not be replaced; `Crash` ends the program, and the app-server, which has a
session of its own, goes on with what it can still read. A later look at the
turn is answered by the channel's memory, by the notification, or by reading the
thread with a new server (`Reconcile`).

### Landing

`task`, `status`, `open` and `unknown` are the journal; `target`, `untidy`,
`tree`, `base`, `writes` and `ref` are Git: the commits of the branch since
Gate B, changes in its working tree, and of each task the worktree, the commit
it was created on, the paths its result changes and its staged ref. A start goes
through `wave`, `prepare`, `work`, `stage`, `plan`, `candidate`, `accept`, `inspect`,
`guard`, `merge`, `observe`, `verify` and `clean`; the worktrees of a wave are requested,
created and observed one by one in graph order, and staging appends EFFECT_OBSERVED
and RESULT_STAGED one after the other; an effect is requested in the journal, inspected,
applied, inspected again and observed, with a crash possible in between. `Merge`
may fail after it has moved the branch; `MergeFails`, `Inspected` and `Conclude`
say what the observation makes of it, and whether `projection_workspace_validator` can
prove that nothing but the projection differs (`Proofs`). The branch is guarded before
the candidate is materialized and before the merge, not at the acceptance in between. `UserCommits`, `UserEdits` and `Touch` may
come at any moment. `Crash` also stands for a port that raises, an append that
fails and a lease that is no longer admitted: each stops the start without
another event. The repository lock is not modelled; a lock that is busy is a
stop. A result may change its own paths and one path that all tasks may write.

## 3. Runs

| Run | Instance | Shows |
|---|---|---|
| `journal` | 2 processes, 2 events, segments of 1, 3 faults | the files refine the abstract log (`ImplementsContract`); `AckedKept`, `OneChain`, `AppendedOnce`, `HeadsOnChain`, `SealedUntouched`; `EventuallyJournaled` |
| `journal_power` | 1 process, 3 events, one segment, 4 faults | `AckedReplayable` with power losses |
| `journal_repair` | 2 processes, 3 events, segments of 1, 2 faults | violation of `AckedSurvives` |
| `checkpoints` | 2 processes, 3 events of which the third begins an epoch, 2 faults | `RecoveredIsJournal`, `AlarmsJustified`, `PointerResolves` |
| `checkpoints_torn` | 1 process, 2 events, 2 faults | violation of `PointerWhole` |
| `lease` | 2 coordinators, 3 tokens, sound probe | `EffectsExclusive`, `TakenOver` |
| `lease_fencing` | the probe errs, losses are reported, clocks within the skew | `Fenced`, `TokensDistinct`, `AdmittedUnsuperseded` |
| `gate_b` | 2 commands, 5 materials, 2 faults, 1 later event | `AdmittedAsApproved`, `AdmissionStays`, `EventuallyAdmitted` |
| `ready` | 4 tasks: a chain of three and one beside it, overlapping with both ends; leases from the ready set and from take-backs | `IndexIsRebuild`, `OverlapExcluded`, `NeverStuck` |
| `dispatch` | 2 tasks, 3 starts, 2 attempts for a task and 3 for the run, late answers | `SentAgainOnlyCancelled`, `OneWorker`, `CleanReservation`, `Aligned`, `OneEffectOpen`, `StartEnds`; `KernelFolds`, `RecoveriesFold`, `OneUnknown` until `late` |
| `channel` | 2 sends, 1 cancellation, 2 faults | `PromptedOnce`, `AnswersTrue`, `EndedTurnKnown` |
| `landing` | 3 tasks, the third after the first, waves of 2, 2 starts, 1 step of the user | `RecordedAsLanded`, `NoLostUpdate`, `InGraphOrder`, `RemovedOnlyLanded`, `ImplementsContract`, `StartEnds` |

What each property says stands as a comment above it in its module.

### Bounds

Journal: two processes are what a race needs (the lock admits one writer; replay
does not change the files but for repairs of a tail, for which two suffice).
With segments of one every append but the first rotates, so that each file
operation of a rotation happens between two processes. `MaxFaults` counts
crashes, short writes, faults and blind repetitions together. The proofs cover
segments and numbers of every size.

Checkpoints: two processes meet at an object or publish past each other; three
events give a checkpoint, a later one and a tail; the third event begins a new
epoch so that the anchor of an earlier epoch is met.

Lease: two coordinators and three tokens give two takeovers, the second from the
one who took over. `TTL`, `Skew` and `Drift` are the smallest with
`4 * Skew < TTL`, which the code demands, and readings on both sides of every
limit.

Gate B: of the five materials one is the reference and each other differs from
it in one respect (workspace, artifact, manifest of the same graph, or a
manifest of another graph with another approver): every comparison of the
prefix check is the one that decides somewhere. Two commands interleave; two
faults give a prefix, a second prefix and a completion.

Ready set: the chain has a task in the middle that is dependency and dependent;
the task beside it overlaps with both ends, which overlap with each other, so
that conflicts within a wave, across waves and along a chain occur. Every event
the kernel takes is tried in every state, so states are not bounded otherwise.

Dispatch: two tasks make one wave of two, or two waves when the first fails.
Three starts allow a dispatch, a takeover that stops half way and another that
goes on with it, or a dispatch, an interrupted start, a resume and a start after it.
The budget of attempts leaves a task one more attempt, and refuses a fourth of the run;
the proofs cover every number of starts and every budget.

Channel: two operation ids of a send are a repetition under the same id and
under another one; two faults are a lost answer or notification and a crash.
With one send and two cancellations the properties hold as well.

Landing: two tasks of one wave and a third that waits for one of them; the
second start finds every state the first can leave; one commit or edit of the
user at any moment is what a stale candidate needs.

Deadlock is not checked where the system may stop: processes end, tokens and
starts are used up, a run is complete.

### Fairness

`journal`: each process goes on (weak fairness of its own step) and faults
are finitely many. A process that crashed is started again; that is the
supervisor or the user who repeats the command. The lock
is polled every 10 ms for seconds (`_lock_handle`) and held for one append only,
so taking it is strongly fair: a process that keeps asking gets it when it is
free again and again. A poll that times out is one of the finitely many faults.

`lease`: time passes and a contender goes on as long as it lives (weak fairness
of each of its steps). Probing the old owner and acquiring are strongly fair:
the lease is available only from time to time, and a coordinator that was turned
away is started again, so that one that keeps trying tries at such a time.

`gate_b`: a command goes on (weak fairness of its work), and a user repeats each
command until it is admitted (strong fairness of each beginning, because a
command cannot begin while it runs).

`dispatch`, `landing`: weak fairness of the coordinator alone, because it
is one thread and each call of a provider, of Git or of the journal returns with
a result or an error. Nothing is assumed of workers, of the user, of the resume
command or of further starts.

`channel`: a wait of a call ends, if only by its timeout; the reader thread
takes what is there and calls back when the lock is free; the server writes what
it owes; and somebody goes on asking for a turn (the worker loop of
`backend_workers.py` polls, and each start that finds it pending inspects it). Nothing is assumed of the
provider's turn ending, and `EndedTurnKnown` says nothing of a reader that
stopped for good while its server lives.

## 4. Proofs

All theorems are for every value of the constants (any number of processes,
tasks, events, faults), under the named assumption of the module and nothing
else, unless said otherwise.

`JournalProofs`: the tail repair is the code's, check and cut in two steps without
the lock. `TypeCorrect` and `SealedUntouchedAlways` need no assumption, power losses
and overlapping repairs included; they follow from `Sound`:

- `BaseInv`: `TypeOK`, and every set of frames that is read has a last one;
- `JobInv`: who is inside an append has something to append;
- `LockInv`: exactly the process inside an append holds the lock.

`AckedKeptAlways`, `OneChainAlways` and `ContractImplemented` assume `~PowerLoss` and
speak, as the properties do, of journals in which no two repairs of one tail have
overlapped (`~raced`); the refinement maps `raced` to `broken` of `JournalContract`,
which promises nothing from then on. What happens then is the finding of
`journal_repair`. Under `~raced` the inductive invariant is `JournalInv`, which adds:

- `KnownInv`: every sealed part and every index a process knows is in the files;
- `ChainInv`: the frames are one chain in segment order and the stamps used are
  counted;
- `WriterInv`: what the holder of the lock verified is still the head;
- `TornInv`: nobody writes behind an incomplete frame, so that a repair which has
  compared the size of its segment is still right about it when it cuts: this is why
  one repair needs no lock, and where a second one breaks in;
- `AckedSurvives` itself.

`OneChain` alone is not inductive: that the frame about to be written extends
the last frame is known from `WriterInv`, which holds because only the holder of
the lock writes and a repair cuts only what is incomplete.

`AppendedOnceAlways` and `HeadsOnChainAlways` (same condition; the run checks
`AppendedOnce` without it) follow from `HeadInv`, on top of `JournalInv`: the heads that
processes know are on the chain, a process that reads has nothing to append, and
an event that a process may still append is not in the part of the journal it
knows, which is why a writer whose head is the last one writes a new event.

`CheckpointsProofs`: `RecoveredIsJournalAlways`, `AlarmsJustifiedAlways` and
`PointerResolvesAlways`. `HandsInv` ties what a process has read to what is on
hand, `ChainInv` says that a checkpoint that shares an event with the journal
agrees with it up to that event, so that a position that still holds its event
has the history the snapshot was made of, and that every event a checkpoint
names is durable or named by one of the histories; and `PointerInv` follows one object from
its creation to the pointer: written and synced, or found durable, its directory entry
settled, then named (`Durable`, `Agrees`, `Settled`, `Publishes`). A start that finds
its own object again after a crash is covered by the proof; only an object that was
not durable when it was found (`taken`), or was moved away (`moved`), is excepted.

`LeaseProofs`: `TypeCorrect`; `FencedAlways` and `TokensDistinctAlways` from
`FencingInv` without an assumption on probe or clocks: only a coordinator whose
cursor is at the head can write, and a cursor at the head shows the lease there
is (`CursorInv`, `HolderInv`, `TokenInv`). `EffectsExclusiveAlways` assumes
`~ProbeErrs` and `~LossReports` and adds that who is taken for dead is dead
(`ProbedInv`). `AdmittedUnsupersededAlways` assumes `Drift <= Skew` and adds
that nobody who took over did so before the window opened (`WindowInv`); it says
nothing of a lease that a recovery actor reported lost.

`GateBProofs`: `AdmittedAsApprovedAlways` and `AdmissionStaysAlways` from
`Processes` (what a command is in the middle of), `Logged` (the journal is a
prefix of the eight events, or all of them and later ones), `Approval` (whoever's
material the decision covers was approved) and `Views` (a command's view is a
prefix of the journal that fits its material).

`ReadySetProofs`: `IndexIsRebuildAlways`, `NeverStuckAlways`, and, as long as no task
is reverted or invalidated, `OverlapExcludedAlways` and `WithinConcurrencyAlways`,
with the leases of take-backs, which check neither conflicts nor the limit. The
invariant adds to them that the snapshot is the kernel's (`KernelOK`), that a task
picked to be leased was selected (`PickedIsReady`), that a task was started after its
dependencies completed (`StartedInOrder`), that nothing is reserved while something is
to be taken back (`LoopWaits`), and that the tasks that are active *or to be leased
again* do not overlap and are within the limit (`HeldApart`, `HeldWithin`). The last two
are what makes the unchecked lease right: its task was active before, and its place is
kept for it because a start settles before it reserves. `NeverStuck` rests on a lemma that a nonempty finite set of candidates has one
that comes before all others.

`DispatchProofs`: `SentAgainOnlyCancelledAlways`, `OneWorkerAlways`,
`CleanReservationAlways`, `OneEffectOpenAlways`, `AlignedAlways`, `WithinLimitAlways`,
for any number of tasks, starts, crashes and resumes and for every answer of the
providers, late ones included; the one assumption is `DispatchAssumption` (the tasks are
finitely many, at least one may be at work, and the budget allows an attempt).
`OneUnknownAlways`, `RecoveriesFoldAlways` and `KernelFoldsAlways` are theorems of the
same specification; the properties themselves say that they hold until `late`. None of them is inductive, because what the coordinator is
about to append was decided from a snapshot, a provider and worktrees that may
have changed when the event is folded. `IInv` therefore has, besides the types:

- `AttemptInv`: an attempt whose packet may have been sent (`Engaged`) is the
  latest of its task, and its task is not to be had again; within the wave loop no
  reservation of an earlier epoch is left;
- `SentInv`, `LiveInv`, `CancelInv`, `ResolvedInv`, `CleanInv`: what the world
  and the journal know of each other. A packet that was sent, and whose turn was
  not cut short, belongs to an attempt of the journal that was dispatched; what
  a resume vouches for was never sent; a worktree that is or will be handed out
  as it is has no changes;
- `EffectInv`: an open effect is the one the coordinator waits for, and another
  is asked for only behind the event that closes it;
- `AtInv`, `WaveInv`, `StageInv`: what the coordinator holds at each point;
- `TodoInv`: an event still to be appended is right when its turn comes. A task
  is made ready only where no packet engages it or the cancellation stands before
  it in `todo`; an attempt is taken back only if its turn was cut short, its
  worktree is untouched and no worker of its task runs, and nothing that happens
  between the decision and the append can change that.

`AlignedAlways` needs a second invariant, `CourseInv`, since whether the kernel
takes an event depends on what the events before it in `todo` do: the snapshot is
in step (`InStep`), and, while the coordinator knows the head of the journal, the
events it still has to append take the snapshot, through snapshots that are in
step, to one it counts on at its place in the program (`Leads`, `Arrived`: the
tasks of a wave wait for dispatch, or work, or are judged). `Goes` is one event;
`LeadsOne`, `LeadsJoin` and `LeadsHead` put events in front, behind and away. The
one event that the kernel may reject on the way is a RUN_BLOCKED of a run that is
blocked already: `OnlyRunBlockedRejected`, for every interleaving of starts,
crashes, resumes and late answers.

`OneUnknownAlways` and `RecoveriesFoldAlways` rest on a third invariant, `DoubtInv`:
until `late`, an attempt of unknown outcome, or one whose event is about to be appended,
leaves an effect pending that no start can settle (`Hangs`: the provider did not carry it
out, or answered UNKNOWN), so that no start gets past its reconciliation, dispatches again
and adds a second one, or appends while a resume is half written (`Calm`). It takes
what the coordinator knows of the effect it waits for (`AskInv`), that an answer is
written down at once (`AnswerInv`), and that an attempt which is reserved again has a
new epoch, under which no channel was reserved yet (`ChannelInv`). The step that makes
`late` true is the one that settles such an effect after all; from then on the two
properties promise nothing, and do not hold (section 5).

`KernelFoldsAlways` closes what `OnlyRunBlockedRejected` leaves open, again until `late`,
with a fourth invariant, `FoldInv`. A blocked run stops no start and no
dispatch by itself: only the choice of ready tasks reads its status. What keeps the
coordinator from dispatching, and then blocking the run again, is *why* it is blocked
(`ReasonInv`): an outcome is unknown, which `DoubtInv` turns into a start that ends
at its reconciliation; or nothing is reserved; or the reservation of a blocked task
stands in the way of every start. The same is said of a run that is about to be
blocked, by the events left in `todo` (`PlanInv`, `WillBlock`), since a crash may come
between the event of the task and the one of the run. So the run is not blocked where
attempts are taken back, reserved or dispatched (`StatusInv`). Two parts say what
is reserved: no attempt is of an epoch to come (`EpochInv`), and within a wave
everything reserved is in the wave (`HoldInv`). The latter needs that
`reserve_ready`, which hands out no more than `MaxConcurrency` reservations, leaves none
out: this is `LoadInv`, an invariant of its own, which does not depend on `late`. It
counts the tasks at work with those that are lost and will be leased again, also by
events still in `todo`: each event of a take-back keeps its task in the count
(`LoadAlways`). `WithinLimitAlways` states the bound for the journal: the code checks it
when it reserves a task, and not when a start takes one back.

`AttemptsAfter`, `TaskFolded`, `RunFolded` and `ObservedFolded` say what an
accepted event does to a snapshot; `ProcessStep`, `EventsStep` and `QuietStep` are
the three shapes of a coordinator's step; `ResumeFrame` is the resume command's.

`TurnChannelProofs`: `TypeCorrect`, `PromptedOnceAlways`, `AnswersTrueAlways`.
The invariant is `TypeOK`, `Calls` (a call that waits is for an operation of its
kind on the turn of the channel), `Recorded` (whatever the provider has heard or
is about to hear is in the file), `Once` (a request in flight means that there
is no turn yet) and `Heard` (a frame about the start or end of a turn, and
whoever hands it on, comes after it). `PromptedOnce` is not inductive
without `Recorded`: after a crash the channel knows no more than the file, and a
file without a send must mean that nothing was asked for.

`LandingProofs`: `TypeCorrect`, `RecordedAsLandedAlways`, `NoLostUpdateAlways`,
`InGraphOrderAlways`, `RemovedOnlyLandedAlways`, and `ContractImplemented`, the
refinement of `LandingContract`. The invariant names what a coordinator has at
hand at each place (`AtHand`), the states of a wave (`WaveStates`,
`DependenciesDone`), what journal and branch can differ by between request and
observation (`Known`, `PromotionKnown`), and what is true of the candidate
between acceptance and merge (`Candidate`, `Based`, `InOrder`).

Only model-checked: liveness (`EventuallyJournaled`, `TakenOver`,
`EventuallyAdmitted`, `EndedTurnKnown`, both `StartEnds`), which is out of the
prover's reach, and `AckedReplayable`. No run checks the
type invariants and `WithinConcurrency`, which are proved for all constants (for
`Dispatch` the part of the types that `IInv` rests on).

## 5. Findings

Two runs end in a counterexample, with the quotations in `PROJECT.json`:

- `journal_repair`: the tail repair of replay compares the size of a segment and
  truncates it without the append lock; two replays of the same torn tail can
  take an acknowledged frame away;
- `checkpoints_torn`: `_write_immutable` compares an object that is in its place and
  returns without syncing it. A start that dies between the write of an object and its
  fsync, and is started again, publishes a pointer to an object that is not durable; a
  power loss leaves it torn. Two publishers that meet at one object do the same. A load
  refuses the object and a replay rebuilds the checkpoint, so that no event is lost.

Writing the models showed more places where a run stops for good, or does
something else than the text around it lets a reader expect. They have no run of
their own; the models contain them, and the properties are stated so that they
hold beside them.

Dispatch and its recovery:

- a blocked run whose effects were all reconciled goes on dispatching at the
  next start; a dispatch that is not answered APPLIED then appends RUN_BLOCKED to
  a run that is blocked already, and replay rejects it. This takes an effect that the
  provider answered UNKNOWN to and tells of later (`late`): without `~late` TLC finds
  `KernelFolds` violated, and so `RecoveriesFold`, since a start reconciles an effect
  between the events of an interrupted resume, and `OneUnknown`;
- a crash between the lease of a task and the reservation of its attempt leaves
  a task that no start reserves again; `resume_dispatch`, which handles the
  case, has no caller;
- a resumed dispatch leaves its child effect pending, and every later start
  stops at it;
- the reservation of a preparation that ended ABSENT makes
  `reclaim_stale_reservations` reject before `_recover_absent_preparation` is
  reached: TLC finds no start that gets to `RecoverAbsent` with a blocked
  reservation, so that of its outcomes only the one without conflict happens;
- a crash right after DISPATCH_REQUESTED leaves a dispatch that
  `resume_unknown_dispatch` does not take, because it asks for the events that
  only the coordinator that stopped would have written;
- a worker that ended before its result was accepted is never accepted and never
  taken back: the answer to the cancellation carries the end of the turn.

Landing:

- a start after a landing is refused by its admission (WORKSPACE_DRIFT), because
  the workspace hash covers the base commit, although `README.md` says
  of `run` that it recovers safely after a restart;
- results that are staged, or accepted and not yet staged, in an earlier epoch
  are never landed by a later start;
- a foreign commit on top of a candidate that was just merged becomes part of
  the commit the next candidate is built on;
- the unknown plan that `PromotionService` remembers lasts as long as one
  workflow object; `CleanupService.apply_many` has no caller;
- the cleanup of production asserts `reconciliation_complete`,
  `process_tree_terminated` and `outcome_known` instead of finding them out.

Checkpoints and journal:

- production passes epoch 1 to the load of checkpoints, so that after the first
  takeover each load is DISCARDED, the anchor goes unchecked and every admission
  check publishes again;
- a replay may publish a checkpoint that names a frame not yet synced; a power
  loss then leaves replay blocked with JOURNAL_TRUNCATED (`adopted`);
- a publisher that finds another object in place moves it away, under the pointer or
  under another publisher, and the pointer has no object until the next replay
  rebuilds it (`moved`);
- a frame that replay adopted and nobody synced is sealed by a rotation without
  a sync, so across a rotation `AckedReplayable` fails under power loss, and a replay
  may then miss the event a checkpoint names (`sealedOpen`).

Gate B, graph and registry:

- `wishctl decide` on the request that an interrupted `admit-gate-b` left makes
  every later bootstrap end in JOURNAL_PREFIX_INVALID, and a prefix that carries
  another graph can be completed by its own material only;
- tasks that were reverted or invalidated could start again beside overlapping
  dependents; nothing emits those events today (`undone`);
- two publishers of the version registry can overwrite each other or leave
  record and pin in disagreement.

Provider channel (Codex):

- a turn whose start was answered too late can neither be inspected nor cancelled
  while its client lives, and a cancellation tried then is stored without a
  command and never resolves under its id;
- the reader stops for good at a frame it does not take or after its output
  limit while the server goes on, and the turn stays RUNNING until the deadline
  (`Deaf`);
- the end of a turn that is read before the answer to its interruption makes the
  cancellation time out, because the reader waits for the lock that the
  cancellation holds;
- a connection that fails after the server was started leaves the server behind;
- the state file is not synced, so that a task may be prompted twice after a
  power loss, which is not among the faults of the model.

## 6. Plan

Done: the journal with replay and checkpoints, the lease, Gate B, kernel and
ready set, dispatch and its recovery, one provider channel, landing and cleanup;
proofs of all their safety properties but what needs power losses.

Left, in this order:

1. The channel over JSONL, beside `TurnChannel`, under the same properties: it
   keeps a session file of its own, overwrites an end recorded by its callback
   after a timeout, and takes an intermediate message of an interrupted turn for
   its result, so that `AnswersTrue` needs a weaker form there.
2. `Runner`: output limits, timeout and termination of a process tree.
3. Admission of a start after a landing, once the code has a rule for it.

## 7. Not modelled

- Attempt deadlines: captured and evaluated by tests only; no process evaluates
  one, so there is no behaviour of the system to compose it with.
- Version registry and backend admission: driven by
  `scripts/manage_backend_versions.py` outside of any run; builders of
  qualification evidence construct data.
- The JSONL channel: see the plan. `Dispatch` takes any answer of a provider.
- External recovery: its exclusion of reconcilers is a lock inside one process,
  and production has one recovery component per process. The events and retries
  of recovery are in `Dispatch`; the evidence files are write-once and
  content-addressed.
- Trellis lifecycle, projection and bridge: effects in a repository that an
  external package owns; the coordinator waits for their results and decides
  nothing by them. Their journaling is the one `Dispatch` has for a task packet.
- Validation runner and containment: a command is an outcome chosen freely in
  `Landing`.
- `dispatch_ready`, `dispatch_task`, `resume_dispatch` and `reconcile_dispatch`
  of the coordinator and `apply_many` of the cleanup: nothing calls them.
- Records, decoders, manifest validation and presentation hold no state; fakes
  are test doubles; routing is a table lookup. Git's own behaviour, the platform
  and providers are environments of the models: their outcomes are chosen freely
  within what the callers distinguish.
