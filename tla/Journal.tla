------------------------------- MODULE Journal -------------------------------
(***************************************************************************)
(* The segmented write-ahead journal of one run, as several coordinator    *)
(* processes share it through the file system:                             *)
(*   - DurableJournal.append_draft and FilesystemJournalStorage            *)
(*     .compare_and_append_draft (a compare-and-append under a             *)
(*     cross-process lock, with segment rotation and a derived index);     *)
(*   - replay_journal (lock-free), which verifies the hash chain, cuts a   *)
(*     torn tail off and rebuilds a stale index.                           *)
(*                                                                         *)
(* Abstractions: an event is the draft it came from and a hash that no     *)
(* other materialisation has (recorded_at is part of the hashed bytes);    *)
(* reading one file is atomic, and so is write(2) with respect to it; the  *)
(* byte limits, the decoder, the control-root guard and the lease check    *)
(* of a draft are left out.  Checkpoints are left out: replay starts at    *)
(* the genesis head.                                                       *)
(***************************************************************************)
EXTENDS Integers, FiniteSets

CONSTANTS
  Proc,          \* coordinator processes
  Draft,         \* the events they want in the journal
  SegmentCap,    \* SegmentPolicy.max_events
  MaxFaults,     \* bound: faults, crashes, power losses, repeated appends
  PowerLoss      \* TRUE: unsynced file content may be lost

ASSUME JournalAssumption ==
  /\ SegmentCap \in Nat \ {0}
  /\ MaxFaults \in Nat
  /\ PowerLoss \in BOOLEAN
  /\ "free" \notin Proc /\ "none" \notin Draft

VARIABLES
  frames,  \* complete frames in the segment files, as a reader sees them
  torn,    \* segments that end in an incomplete frame
  synced,  \* the frames that are on stable storage
  nseg,    \* number of segment files
  index,   \* index.json: the last sealed segment and its content, or NoIndex
  lock,    \* holder of append.lock, or Free
  pc,      \* where each process is
  head,    \* the head each process has verified (expected_head)
  job,     \* the draft each process is appending
  seen,    \* what the process read of the segments
  stamp,   \* hashes used so far
  acked,   \* frames reported COMMITTED or IDEMPOTENT
  faults,  \* faults so far
  raced    \* history: a tail was cut while another process was about to cut it too

files == <<frames, torn, synced, nseg, index>>
vars == <<files, lock, pc, head, job, seen, stamp, acked, faults, raced>>

Free == "free"
NoDraft == "none"
NoIndex == [sealed |-> 0, content |-> {}]
Genesis == [seq |-> 0, hash |-> 0]

Frame == [seq : Nat, hash : Nat, prev : Nat, seg : Nat, draft : Draft]
Head == [seq : Nat, hash : Nat]
Seen == [n : Nat, sealed : SUBSET Frame, tail : SUBSET Frame, stale : BOOLEAN]

\* Program points at which append.lock is held.
Holding == {"load", "observe", "create", "publish", "write", "fsync"}
PC == Holding \cup
  {"down", "blocked", "survey", "index", "scan", "repair", "truncate",
   "reindex", "idle", "lock"}

------------------------------------------------------------------------------
(* Reading segments.                                                        *)

InSegment(k) == {f \in frames : f.seg = k}

LastOf(S) == CHOOSE f \in S : \A g \in S : g.seq <= f.seq

HeadOf(S) ==
  IF S = {} THEN Genesis ELSE [seq |-> LastOf(S).seq, hash |-> LastOf(S).hash]

\* S is a contiguous hash chain that starts right after the head `start`.
Linked(S, start) ==
  /\ \A f, g \in S : f.seq = g.seq => f = g
  /\ \A f \in S :
       \/ f.seq = start.seq + 1 /\ f.prev = start.hash
       \/ \E g \in S : f.seq = g.seq + 1 /\ f.prev = g.hash

\* The index names the segment before the last of n and describes its content.
IndexVerified(n) ==
  IF index = NoIndex
  THEN n <= 1
  ELSE /\ index.sealed + 1 = n
       /\ index.sealed \notin torn
       /\ InSegment(index.sealed) = index.content

\* _load_active_segment finds a usable active segment.
Loadable ==
  /\ IndexVerified(nseg)
  /\ nseg \notin torn
  /\ Linked(InSegment(nseg), HeadOf(index.content))
  /\ Cardinality(InSegment(nseg)) <= SegmentCap

\* The frames the last verified event is looked for in: those of the active
\* segment, or of the sealed one when the active segment is still empty.
ActiveFrames ==
  IF InSegment(nseg) = {} THEN index.content ELSE InSegment(nseg)

\* The frames of the first n segments.
UpTo(n) == {f \in frames : f.seg <= n}

\* _replay_attempt reaches the end of segment n (or its torn tail).
Replayable(n) ==
  /\ \A k \in 1..n : k < n => k \notin torn /\ InSegment(k) # {}
  /\ Linked(UpTo(n), Genesis)
  /\ \A f, g \in UpTo(n) : f.seq < g.seq => f.seg <= g.seg

------------------------------------------------------------------------------
Init ==
  /\ frames = {} /\ torn = {} /\ synced = {} /\ nseg = 0 /\ index = NoIndex
  /\ lock = Free
  /\ pc = [p \in Proc |-> "down"]
  /\ head = [p \in Proc |-> Genesis]
  /\ job = [p \in Proc |-> NoDraft]
  /\ seen = [p \in Proc |-> [n |-> 0, sealed |-> {}, tail |-> {}, stale |-> FALSE]]
  /\ stamp = 0 /\ acked = {} /\ faults = 0 /\ raced = FALSE

Goto(p, l) == pc' = [pc EXCEPT ![p] = l]

(* Replay: recover the head without taking the lock.                        *)

Start(p) ==
  /\ pc[p] = "down"
  /\ Goto(p, "survey")
  /\ head' = [head EXCEPT ![p] = Genesis]
  /\ job' = [job EXCEPT ![p] = NoDraft]
  /\ UNCHANGED <<files, lock, seen, stamp, acked, faults, raced>>

\* _segment_paths lists the segments once, for the whole replay.
Survey(p) ==
  /\ pc[p] = "survey"
  /\ seen' = [seen EXCEPT ![p].n = nseg]
  /\ Goto(p, "index")
  /\ UNCHANGED <<files, lock, head, job, stamp, acked, faults, raced>>

\* _journal_index_status compares index.json with that list.
CheckIndex(p) ==
  /\ pc[p] = "index"
  /\ seen' = [seen EXCEPT ![p].stale = ~IndexVerified(seen[p].n)]
  /\ Goto(p, "scan")
  /\ UNCHANGED <<files, lock, head, job, stamp, acked, faults, raced>>

NoReindex(p) == "idle"

\* Where replay goes once the tail is clean.
AfterTail(p) == IF seen[p].stale THEN "reindex" ELSE "idle"

Scan(p) ==
  /\ pc[p] = "scan"
  /\ Replayable(seen[p].n)
  /\ head' = [head EXCEPT ![p] = HeadOf(UpTo(seen[p].n))]
  /\ seen' = [seen EXCEPT ![p].sealed = InSegment(seen[p].n - 1),
                          ![p].tail = InSegment(seen[p].n)]
  /\ Goto(p, IF seen[p].n \in torn THEN "repair" ELSE AfterTail(p))
  /\ UNCHANGED <<files, lock, job, stamp, acked, faults, raced>>

\* The size of the last segment changes while it is read.
Disturbed(p) ==
  \E q \in Proc \ {p} : pc[q] \in {"write", "fsync", "repair", "truncate"}

ScanBlocked(p) ==
  /\ pc[p] = "scan"
  /\ ~Replayable(seen[p].n) \/ Disturbed(p)
  /\ Goto(p, "blocked")
  /\ UNCHANGED <<files, lock, head, job, seen, stamp, acked, faults, raced>>

UncheckedTail(p) == TRUE

\* The size of the segment is still the one that was read.
TailUnchanged(p) ==
  /\ seen[p].n \in torn
  /\ InSegment(seen[p].n) = seen[p].tail

\* What is left after a truncation to the end of the last frame that was read.
Kept(p) == {f \in frames : f.seg = seen[p].n => f \in seen[p].tail}

\* _quarantine_tail compares the size ...
Repair(p) ==
  /\ pc[p] = "repair"
  /\ TailUnchanged(p)
  /\ Goto(p, "truncate")
  /\ UNCHANGED <<files, lock, head, job, seen, stamp, acked, faults, raced>>

RepairBlocked(p) ==
  /\ pc[p] = "repair"
  /\ ~TailUnchanged(p)
  /\ Goto(p, "blocked")
  /\ UNCHANGED <<files, lock, head, job, seen, stamp, acked, faults, raced>>

\* Another process has compared the size of the same segment and not cut it yet.
OtherRepair(p) ==
  \E q \in Proc \ {p} : pc[q] = "truncate" /\ seen[q].n = seen[p].n

\* ... and then truncates and syncs the segment.  append.lock is not taken: what
\* another process did to the segment since the check is not seen.
Truncate(p) ==
  /\ pc[p] = "truncate"
  /\ frames' = Kept(p)
  /\ torn' = torn \ {seen[p].n}
  /\ synced' = (synced \cup seen[p].tail) \cap Kept(p)
  /\ raced' = (raced \/ OtherRepair(p))
  /\ Goto(p, AfterTail(p))
  /\ UNCHANGED <<nseg, index, lock, head, job, seen, stamp, acked, faults>>

RebuiltAlways(p) ==
  IF seen[p].n = 1 THEN NoIndex
  ELSE [sealed |-> seen[p].n - 1, content |-> seen[p].sealed]

Rebuilt(p) ==
  IF seen[p].n <= 1 THEN NoIndex
  ELSE [sealed |-> seen[p].n - 1, content |-> seen[p].sealed]

\* _rebuild_journal_index publishes what the scan saw.
Reindex(p) ==
  /\ pc[p] = "reindex"
  /\ index' = Rebuilt(p)
  /\ Goto(p, "idle")
  /\ UNCHANGED <<frames, torn, synced, nseg, lock, head, job, seen, stamp,
                 acked, faults, raced>>

------------------------------------------------------------------------------
(* Compare-and-append.                                                      *)

LastOnly(p, d) == \A f \in frames : f.draft = d => f.seq # head[p].seq

\* The journal a caller replayed does not hold the event yet.
Wanted(p, d) == \A f \in frames : f.draft = d => f.seq > head[p].seq

Submit(p, d) ==
  /\ pc[p] = "idle"
  /\ Wanted(p, d)
  /\ job' = [job EXCEPT ![p] = d]
  /\ Goto(p, "lock")
  /\ UNCHANGED <<files, lock, head, seen, stamp, acked, faults, raced>>

Lock(p) ==
  /\ pc[p] = "lock"
  /\ lock = Free
  /\ lock' = p
  /\ Goto(p, "load")
  /\ UNCHANGED <<files, head, job, seen, stamp, acked, faults, raced>>

NotBehind(p) == HeadOf(ActiveFrames).seq >= head[p].seq

\* The compare of compare-and-append.
Expected(p) == HeadOf(ActiveFrames) = head[p]

\* The observed head is the expected one: append, after a rotation if the
\* active segment is full.  The first append creates the first segment.
Load(p) ==
  /\ pc[p] = "load"
  /\ Loadable
  /\ Expected(p)
  /\ nseg' = IF nseg = 0 THEN 1 ELSE nseg
  /\ seen' = [seen EXCEPT ![p].n = nseg', ![p].sealed = InSegment(nseg')]
  /\ Goto(p, IF Cardinality(InSegment(nseg')) >= SegmentCap
             THEN "create" ELSE "write")
  /\ UNCHANGED <<frames, torn, synced, index, lock, head, job, stamp, acked, faults, raced>>

\* Another head is observed; the active segment is synced before reporting it.
LoadOther(p) ==
  /\ pc[p] = "load"
  /\ Loadable
  /\ ~Expected(p)
  /\ nseg' = IF nseg = 0 THEN 1 ELSE nseg
  /\ Goto(p, "observe")
  /\ UNCHANGED <<frames, torn, synced, index, lock, head, job, seen, stamp, acked, faults, raced>>

LoadBlocked(p) ==
  /\ pc[p] = "load"
  /\ ~Loadable
  /\ Goto(p, "blocked")
  /\ lock' = Free
  /\ UNCHANGED <<files, head, job, seen, stamp, acked, faults, raced>>

NotDurabilized == synced

\* _durabilize_observed_head: fsync of the active segment.
Durabilized == synced \cup InSegment(nseg)

\* Sync the observed head, then IDEMPOTENT if the last event is the
\* caller's own draft and CONFLICT otherwise (the caller replays).
Observe(p) ==
  /\ pc[p] = "observe"
  /\ synced' = Durabilized
  /\ lock' = Free
  /\ IF ActiveFrames # {} /\ LastOf(ActiveFrames).draft = job[p]
     THEN /\ acked' = acked \cup {LastOf(ActiveFrames)}
          /\ head' = [head EXCEPT ![p] = HeadOf(ActiveFrames)]
          /\ Goto(p, "idle")
     ELSE /\ Goto(p, "survey")
          /\ UNCHANGED <<acked, head>>
  /\ job' = [job EXCEPT ![p] = NoDraft]
  /\ UNCHANGED <<frames, torn, nseg, index, seen, stamp, faults, raced>>

\* _rotate creates the next segment file and then publishes the index.
Create(p) ==
  /\ pc[p] = "create"
  /\ nseg' = nseg + 1
  /\ Goto(p, "publish")
  /\ UNCHANGED <<frames, torn, synced, index, lock, head, job, seen, stamp, acked, faults, raced>>

Publish(p) ==
  /\ pc[p] = "publish"
  /\ index' = [sealed |-> seen[p].n, content |-> seen[p].sealed]
  /\ Goto(p, "write")
  /\ UNCHANGED <<frames, torn, synced, nseg, lock, head, job, seen, stamp, acked, faults, raced>>

SealedFrame(p) ==
  [seq |-> head[p].seq + 1, hash |-> stamp + 1, prev |-> head[p].hash,
   seg |-> seen[p].n, draft |-> job[p]]

\* The materialised event, at the end of the active segment.
NewFrame(p) ==
  [seq |-> head[p].seq + 1, hash |-> stamp + 1, prev |-> head[p].hash,
   seg |-> nseg, draft |-> job[p]]

Write(p) ==
  /\ pc[p] = "write"
  /\ frames' = frames \cup {NewFrame(p)}
  /\ stamp' = stamp + 1
  /\ Goto(p, "fsync")
  /\ UNCHANGED <<torn, synced, nseg, index, lock, head, job, seen, acked, faults, raced>>

\* fsync of the active segment; the result is COMMITTED.
Written(p) ==
  [seq |-> head[p].seq + 1, hash |-> stamp, prev |-> head[p].hash,
   seg |-> nseg, draft |-> job[p]]

Fsync(p) ==
  /\ pc[p] = "fsync"
  /\ synced' = synced \cup InSegment(nseg)
  /\ acked' = acked \cup {Written(p)}
  /\ head' = [head EXCEPT ![p] = [seq |-> Written(p).seq, hash |-> Written(p).hash]]
  /\ lock' = Free
  /\ Goto(p, "idle")
  /\ job' = [job EXCEPT ![p] = NoDraft]
  /\ UNCHANGED <<frames, torn, nseg, index, seen, stamp, faults, raced>>

------------------------------------------------------------------------------
(* Faults.                                                                  *)

Release(p) == lock' = IF lock = p THEN Free ELSE lock

\* An I/O fault or a lock that is not granted in time: replay is blocked, or the
\* DurableJournal answers nothing else from then on.
Fault(p) ==
  /\ pc[p] \notin {"down", "blocked", "idle"}
  /\ faults < MaxFaults
  /\ faults' = faults + 1
  /\ Goto(p, "blocked")
  /\ Release(p)
  /\ UNCHANGED <<files, head, job, seen, stamp, acked, raced>>

\* The write stops half way: a short write, a full disk or the process dies.
ShortWrite(p) ==
  /\ pc[p] = "write"
  /\ faults < MaxFaults
  /\ faults' = faults + 1
  /\ torn' = torn \cup {nseg}
  /\ \E l \in {"blocked", "down"} : Goto(p, l)
  /\ Release(p)
  /\ UNCHANGED <<frames, synced, nseg, index, head, job, seen, stamp, acked, raced>>

\* The process dies; the system releases its lock.
Crash(p) ==
  /\ pc[p] \notin {"down", "blocked"}
  /\ faults < MaxFaults
  /\ faults' = faults + 1
  /\ Goto(p, "down")
  /\ Release(p)
  /\ UNCHANGED <<files, head, job, seen, stamp, acked, raced>>

\* A blocked process ends ...
Exit(p) ==
  /\ pc[p] = "blocked"
  /\ Goto(p, "down")
  /\ UNCHANGED <<files, lock, head, job, seen, stamp, acked, faults, raced>>

\* ... or repeats the very same append through a new DurableJournal.
Reopen(p) ==
  /\ pc[p] = "blocked"
  /\ job[p] # NoDraft
  /\ faults < MaxFaults
  /\ faults' = faults + 1
  /\ Goto(p, "lock")
  /\ UNCHANGED <<files, lock, head, job, seen, stamp, acked, raced>>

\* Every process stops and each segment keeps a prefix of its content that
\* holds all that was synced; what is lost may leave an incomplete frame.
LosePower ==
  /\ PowerLoss
  /\ faults < MaxFaults
  /\ faults' = faults + 1
  /\ \E kept \in SUBSET frames :
       /\ synced \subseteq kept
       /\ \A f \in kept, g \in frames : g.seg = f.seg /\ g.seq < f.seq => g \in kept
       /\ frames' = kept
       /\ synced' = kept
       /\ \E cut \in SUBSET {f.seg : f \in frames \ kept} : torn' = torn \cup cut
  /\ pc' = [p \in Proc |-> "down"]
  /\ lock' = Free
  /\ UNCHANGED <<nseg, index, head, job, seen, stamp, acked, raced>>

------------------------------------------------------------------------------
Replay(p) ==
  \/ Start(p) \/ Survey(p) \/ CheckIndex(p) \/ Scan(p) \/ ScanBlocked(p)
  \/ Repair(p) \/ RepairBlocked(p) \/ Truncate(p) \/ Reindex(p)

Append(p) ==
  \/ Lock(p) \/ Load(p) \/ LoadOther(p) \/ LoadBlocked(p) \/ Observe(p)
  \/ Create(p) \/ Publish(p) \/ Write(p) \/ Fsync(p)

Step(p) == Replay(p) \/ Append(p) \/ Exit(p) \/ \E d \in Draft : Submit(p, d)

Disturb(p) == Fault(p) \/ ShortWrite(p) \/ Crash(p) \/ Reopen(p)

Next ==
  \/ \E p \in Proc : Step(p) \/ Disturb(p)
  \/ LosePower

Spec == Init /\ [][Next]_vars

\* The operating system schedules every live process, a supervisor restarts a
\* stopped one, and the lock is granted to a waiter that keeps asking.
Fairness ==
  \A p \in Proc : WF_vars(Step(p)) /\ SF_vars(Lock(p))

LiveSpec == Spec /\ Fairness

------------------------------------------------------------------------------
(* Properties.                                                              *)

TypeOK ==
  /\ frames \in SUBSET Frame
  /\ torn \in SUBSET Nat
  /\ synced \in SUBSET Frame
  /\ nseg \in Nat
  /\ index \in [sealed : Nat, content : SUBSET Frame]
  /\ lock \in Proc \cup {Free}
  /\ pc \in [Proc -> PC]
  /\ head \in [Proc -> Head]
  /\ job \in [Proc -> Draft \cup {NoDraft}]
  /\ seen \in [Proc -> Seen]
  /\ stamp \in Nat
  /\ acked \in SUBSET Frame
  /\ faults \in Nat
  /\ raced \in BOOLEAN

\* A caller that was told COMMITTED or IDEMPOTENT finds its event in the
\* journal whatever crashes, repairs and rotations follow.
AckedSurvives == acked \subseteq frames

\* It does, as long as no two processes repair the same tail at the same time: one
\* repair may overlap with any appends, rotations and reads without the lock.
AckedKept == ~raced => AckedSurvives

\* It also finds every event before it, without which replay never gets there.
AckedReplayable ==
  \A f \in acked : f \in frames /\ \A k \in 1..f.seq : \E g \in frames : g.seq = k

\* The segments always hold one hash chain: compare-and-append lets no two
\* writers extend the same head, and no repair opens a gap unless two of them overlap.
OneChain == ~raced => Linked(frames, Genesis)

\* A draft that is retried after an unknown outcome is never journaled twice.
AppendedOnce == \A f, g \in frames : f.draft = g.draft => f = g

\* The head a coordinator acts on is never taken out of the journal, unless two
\* repairs overlap.
HeadsOnChain ==
  \A p \in Proc :
    ~raced /\ pc[p] = "idle" =>
      head[p] = Genesis \/
      \E f \in frames : f.seq = head[p].seq /\ f.hash = head[p].hash

\* Only the last segment grows, and only by the holder of the lock.
SealedUntouched ==
  [][\A f \in frames' \ frames :
       f.seg = nseg /\ lock \in Proc /\ pc[lock] = "write"]_vars

\* Once the faults stop, a torn tail or a stale index left behind never keeps
\* an event out of the journal, unless two repairs overlapped.
EventuallyJournaled == \A d \in Draft : <>(raced \/ \E f \in frames : f.draft = d)

\* The journal as its callers see it.
Contract ==
  INSTANCE JournalContract WITH
    log <- {[seq |-> f.seq, hash |-> f.hash, prev |-> f.prev, draft |-> f.draft] :
              f \in frames},
    acked <- {[seq |-> f.seq, hash |-> f.hash, prev |-> f.prev, draft |-> f.draft] :
                f \in acked},
    broken <- raced

ImplementsContract == Contract!Spec
=============================================================================
