---------------------------- MODULE JournalProofs ----------------------------
(***************************************************************************)
(* Theorems about Journal, for every set of processes and events, every    *)
(* segment size and any number of faults.  Types, the lock and the growth  *)
(* of the segments need no assumption.  The others are about file content  *)
(* that is not lost (~PowerLoss) and hold until two repairs of one tail    *)
(* overlap (~raced): the run journal_repair shows what happens then.       *)
(***************************************************************************)
EXTENDS Journal, FiniteSetTheorems, TLAPS

------------------------------------------------------------------------------
(* Frames, segments and heads.                                              *)

\* A set of frames that is not empty has a last one.
HasLast(S) == S # {} => \E f \in S : \A g \in S : g.seq <= f.seq

LEMMA LastIn ==
  ASSUME NEW S \in SUBSET Frame, S # {}, HasLast(S)
  PROVE  LastOf(S) \in S /\ \A g \in S : g.seq <= LastOf(S).seq
  BY DEF HasLast, LastOf

LEMMA HeadType ==
  ASSUME NEW S \in SUBSET Frame, HasLast(S)
  PROVE  HeadOf(S) \in Head
  BY LastIn DEF HeadOf, Genesis, Head, Frame

\* So has every subset.
AllLast(S) == \A T \in SUBSET S : HasLast(T)

LEMMA SubLast ==
  ASSUME NEW S, AllLast(S), NEW T \in SUBSET S
  PROVE  AllLast(T) /\ HasLast(T)
  BY DEF AllLast

LEMMA GrowLast ==
  ASSUME NEW S \in SUBSET Frame, AllLast(S), NEW f \in Frame
  PROVE  AllLast(S \cup {f})
  <1> SUFFICES ASSUME NEW T \in SUBSET (S \cup {f}) PROVE HasLast(T)
    BY DEF AllLast
  <1> DEFINE U == T \ {f}
  <1>0. U \in SUBSET Frame /\ HasLast(U)
    BY DEF AllLast
  <1>1. CASE U = {}
    BY <1>1 DEF HasLast, Frame
  <1>2. CASE U # {}
    <2>1. PICK l \in U : \A g \in U : g.seq <= l.seq
      BY <1>0, <1>2 DEF HasLast
    <2>2. CASE f.seq <= l.seq
      BY <2>1, <2>2 DEF HasLast, Frame
    <2>3. CASE l.seq <= f.seq
      BY <1>0, <2>1, <2>3 DEF HasLast, Frame
    <2> QED BY <1>0, <2>1, <2>2, <2>3 DEF Frame
  <1> QED BY <1>1, <1>2

\* The sets of frames that are read have last ones.
LastInv ==
  /\ AllLast(frames) /\ AllLast(index.content)
  /\ \A p \in Proc : AllLast(seen[p].sealed)

LEMMA Lasts ==
  ASSUME LastInv
  PROVE  /\ \A k : HasLast(InSegment(k)) /\ HasLast(UpTo(k))
         /\ HasLast(index.content)
         /\ \A p \in Proc : HasLast(seen[p].sealed)
  BY SubLast DEF LastInv, InSegment, UpTo

\* What every reader of the segments knows is in them.
KnownInv ==
  /\ index.content \subseteq frames
  /\ \A p \in Proc : seen[p].sealed \subseteq frames

BaseInv == TypeOK /\ LastInv

\* Whoever wants or holds the lock has an event to append.
JobInv == \A p \in Proc : pc[p] \in {"lock"} \cup Holding => job[p] \in Draft

------------------------------------------------------------------------------
(* Type correctness.                                                        *)

LEMMA GotoType ==
  ASSUME TypeOK, NEW p \in Proc, NEW l \in PC, Goto(p, l)
  PROVE  pc' \in [Proc -> PC]
  BY DEF TypeOK, Goto

LEMMA ReleaseType ==
  ASSUME TypeOK, NEW p \in Proc, Release(p)
  PROVE  lock' \in Proc \cup {Free}
  BY DEF TypeOK, Release

LEMMA QuietLast ==
  ASSUME LastInv, frames' \subseteq frames, UNCHANGED index,
         \A p \in Proc : seen'[p].sealed = seen[p].sealed
  PROVE  LastInv'
  BY SubLast DEF LastInv, AllLast, HasLast

LEMMA BaseInit == Init => BaseInv
  <1> SUFFICES ASSUME Init PROVE BaseInv
    OBVIOUS
  <1>1. TypeOK
    BY DEF Init, TypeOK, NoIndex, Genesis, Frame, Head, Seen, PC
  <1>2. AllLast({})
    BY DEF AllLast, HasLast
  <1>3. frames = {} /\ index.content = {} /\ \A p \in Proc : seen[p].sealed = {}
    BY DEF Init, NoIndex
  <1> QED BY <1>1, <1>2, <1>3 DEF BaseInv, LastInv

LEMMA NextStop == {"down", "blocked", "idle", "survey", "index", "scan", "repair",
                   "truncate", "reindex", "lock"} \cup Holding \subseteq PC
  BY DEF PC, Holding

\* A cut of what was read removes no frame.
LEMMA CutKeeps ==
  ASSUME NEW p \in Proc, TailUnchanged(p)
  PROVE  Kept(p) = frames
  BY DEF TailUnchanged, Kept, InSegment

LEMMA ReplayBase ==
  ASSUME BaseInv, NEW p \in Proc, Replay(p)
  PROVE  BaseInv'
  <1>0. TypeOK /\ LastInv
    BY DEF BaseInv
  <1>1. CASE Start(p)
    <2>1. pc' \in [Proc -> PC]
      BY <1>0, <1>1, GotoType, NextStop DEF Start
    <2>2. TypeOK'
      BY <1>0, <1>1, <2>1 DEF Start, TypeOK, files, Genesis, Head
    <2> QED BY <1>0, <1>1, <2>2, QuietLast DEF Start, files, BaseInv
  <1>2. CASE Survey(p)
    <2>1. pc' \in [Proc -> PC]
      BY <1>0, <1>2, GotoType, NextStop DEF Survey
    <2>2. TypeOK'
      <3>1. seen' \in [Proc -> Seen]
        BY <1>0, <1>2 DEF Survey, TypeOK, Seen
      <3> QED BY <1>0, <1>2, <2>1, <3>1 DEF Survey, TypeOK, files
    <2>3. \A q \in Proc : seen'[q].sealed = seen[q].sealed
      BY <1>0, <1>2 DEF Survey, TypeOK, Seen
    <2> QED BY <1>0, <1>2, <2>2, <2>3, QuietLast DEF Survey, files, BaseInv
  <1>3. CASE CheckIndex(p)
    <2>1. pc' \in [Proc -> PC]
      BY <1>0, <1>3, GotoType, NextStop DEF CheckIndex
    <2>2. PICK b \in BOOLEAN : seen' = [seen EXCEPT ![p].stale = b]
      <3>1. CASE IndexVerified(seen[p].n)
        <4>1. (~IndexVerified(seen[p].n)) = FALSE
          BY <3>1
        <4> QED BY <1>3, <4>1 DEF CheckIndex
      <3>2. CASE ~IndexVerified(seen[p].n)
        <4>1. (~IndexVerified(seen[p].n)) = TRUE
          BY <3>2
        <4> QED BY <1>3, <4>1 DEF CheckIndex
      <3> QED BY <3>1, <3>2
    <2>3. seen' \in [Proc -> Seen]
      <3>1. [seen[p] EXCEPT !.stale = b] \in Seen
        BY <1>0 DEF TypeOK, Seen
      <3> QED BY <1>0, <2>2, <3>1 DEF TypeOK
    <2>4. TypeOK'
      BY <1>0, <1>3, <2>1, <2>3 DEF CheckIndex, TypeOK, files
    <2>5. \A q \in Proc : seen'[q].sealed = seen[q].sealed
      BY <1>0, <2>2 DEF TypeOK, Seen
    <2> QED BY <1>0, <1>3, <2>4, <2>5, QuietLast DEF CheckIndex, files, BaseInv
  <1>4. CASE Scan(p)
    <2>1. pc' \in [Proc -> PC]
      BY <1>0, <1>4, GotoType, NextStop DEF Scan, AfterTail
    <2>2. seen[p].n \in Nat /\ seen[p].n - 1 \in Int
      BY <1>0 DEF TypeOK, Seen
    <2>3. HeadOf(UpTo(seen[p].n)) \in Head
      BY <1>0, Lasts, HeadType DEF TypeOK, UpTo
    <2>4. InSegment(seen[p].n - 1) \in SUBSET Frame /\ InSegment(seen[p].n) \in SUBSET Frame
      BY <1>0 DEF TypeOK, InSegment
    <2>5. TypeOK'
      <3>1. [seen[p] EXCEPT !.sealed = InSegment(seen[p].n - 1), !.tail = InSegment(seen[p].n)]
              \in Seen
        BY <1>0, <2>4 DEF TypeOK, Seen
      <3>2. seen' \in [Proc -> Seen]
        BY <1>0, <1>4, <3>1 DEF Scan, TypeOK
      <3>3. head' \in [Proc -> Head]
        BY <1>0, <1>4, <2>3 DEF Scan, TypeOK
      <3> QED BY <1>0, <1>4, <2>1, <3>2, <3>3 DEF Scan, TypeOK, files
    <2>6. /\ seen'[p].sealed = InSegment(seen[p].n - 1)
          /\ \A q \in Proc \ {p} : seen'[q] = seen[q]
      BY <1>0, <1>4 DEF Scan, TypeOK, Seen
    <2>7. AllLast(InSegment(seen[p].n - 1))
      BY <1>0, SubLast DEF LastInv, InSegment
    <2>8. UNCHANGED <<frames, index>>
      BY <1>4 DEF Scan, files
    <2>9. LastInv'
      BY <1>0, <2>6, <2>7, <2>8 DEF LastInv, AllLast, HasLast, InSegment
    <2> QED BY <2>5, <2>9 DEF BaseInv
  <1>5. CASE ScanBlocked(p)
    <2>1. pc' \in [Proc -> PC]
      BY <1>0, <1>5, GotoType, NextStop DEF ScanBlocked
    <2> QED BY <1>0, <1>5, <2>1, QuietLast DEF ScanBlocked, TypeOK, files, BaseInv
  <1>6. CASE Repair(p)
    <2>1. pc' \in [Proc -> PC]
      BY <1>0, <1>6, GotoType, NextStop DEF Repair
    <2> QED BY <1>0, <1>6, <2>1, QuietLast DEF Repair, TypeOK, files, BaseInv
  <1>7. CASE RepairBlocked(p)
    <2>1. pc' \in [Proc -> PC]
      BY <1>0, <1>7, GotoType, NextStop DEF RepairBlocked
    <2> QED BY <1>0, <1>7, <2>1, QuietLast DEF RepairBlocked, TypeOK, files, BaseInv
  <1>8. CASE Reindex(p)
    <2>1. pc' \in [Proc -> PC]
      BY <1>0, <1>8, GotoType, NextStop DEF Reindex
    <2>2. index' \in [sealed : Nat, content : SUBSET Frame]
      BY <1>0, <1>8 DEF Reindex, Rebuilt, TypeOK, Seen, NoIndex
    <2>3. TypeOK'
      BY <1>0, <1>8, <2>1, <2>2 DEF Reindex, TypeOK
    <2>4. AllLast(index'.content)
      BY <1>0, <1>8 DEF Reindex, Rebuilt, NoIndex, LastInv, AllLast, HasLast
    <2>5. UNCHANGED <<frames, seen>>
      BY <1>8 DEF Reindex
    <2>6. LastInv'
      BY <1>0, <2>4, <2>5 DEF LastInv, AllLast, HasLast
    <2> QED BY <2>3, <2>6 DEF BaseInv
  <1>9. CASE Truncate(p)
    <2>1. pc' \in [Proc -> PC]
      BY <1>0, <1>9, GotoType, NextStop DEF Truncate, AfterTail
    <2>2. frames' \subseteq frames /\ UNCHANGED <<index, seen>>
      BY <1>9 DEF Truncate, Kept
    <2>3. synced' \in SUBSET Frame /\ torn' \in SUBSET Nat
      BY <1>0, <1>9 DEF Truncate, TypeOK, Kept
    <2>4. raced' \in BOOLEAN
      <3>1. CASE OtherRepair(p)
        BY <1>9, <3>1 DEF Truncate
      <3>2. CASE ~OtherRepair(p)
        BY <1>0, <1>9, <3>2 DEF Truncate, TypeOK
      <3> QED BY <3>1, <3>2
    <2>5. TypeOK'
      BY <1>0, <1>9, <2>1, <2>2, <2>3, <2>4 DEF TypeOK, Truncate
    <2> QED BY <1>0, <2>2, <2>5, QuietLast DEF BaseInv
  <1> QED BY <1>1, <1>2, <1>3, <1>4, <1>5, <1>6, <1>7, <1>8, <1>9 DEF Replay

LEMMA AppendBase ==
  ASSUME BaseInv, JobInv, NEW p \in Proc, Append(p)
  PROVE  BaseInv'
  <1>0. TypeOK /\ LastInv
    BY DEF BaseInv
  <1>1. CASE Lock(p)
    <2>1. pc' \in [Proc -> PC]
      BY <1>0, <1>1, GotoType, NextStop DEF Lock, Holding
    <2> QED BY <1>0, <1>1, <2>1, QuietLast DEF Lock, TypeOK, files, BaseInv
  <1>2. CASE Load(p)
    <2>1. pc' \in [Proc -> PC]
      BY <1>0, <1>2, GotoType, NextStop DEF Load, Holding
    <2>2. nseg' \in Nat
      BY <1>0, <1>2 DEF Load, TypeOK
    <2>3. InSegment(nseg') \in SUBSET Frame /\ AllLast(InSegment(nseg'))
      BY <1>0, SubLast DEF LastInv, TypeOK, InSegment
    <2>4. seen' = [seen EXCEPT ![p].n = nseg', ![p].sealed = InSegment(nseg')]
      BY <1>2 DEF Load
    <2>5. seen' \in [Proc -> Seen]
      <3>1. [seen[p] EXCEPT !.n = nseg', !.sealed = InSegment(nseg')] \in Seen
        BY <1>0, <2>2, <2>3 DEF TypeOK, Seen
      <3> QED BY <1>0, <2>4, <3>1 DEF TypeOK
    <2>6. TypeOK'
      BY <1>0, <1>2, <2>1, <2>2, <2>5 DEF Load, TypeOK
    <2>7. /\ seen'[p].sealed = InSegment(nseg')
          /\ \A q \in Proc \ {p} : seen'[q] = seen[q]
      BY <1>0, <2>4 DEF TypeOK, Seen
    <2>8. UNCHANGED <<frames, index>>
      BY <1>2 DEF Load
    <2>9. LastInv'
      BY <1>0, <2>3, <2>7, <2>8 DEF LastInv, AllLast, HasLast, InSegment
    <2> QED BY <2>6, <2>9 DEF BaseInv
  <1>3. CASE LoadOther(p)
    <2>1. pc' \in [Proc -> PC]
      BY <1>0, <1>3, GotoType, NextStop DEF LoadOther, Holding
    <2>2. TypeOK'
      BY <1>0, <1>3, <2>1 DEF LoadOther, TypeOK
    <2> QED BY <1>0, <1>3, <2>2, QuietLast DEF LoadOther, BaseInv
  <1>4. CASE LoadBlocked(p)
    <2>1. pc' \in [Proc -> PC]
      BY <1>0, <1>4, GotoType, NextStop DEF LoadBlocked
    <2> QED BY <1>0, <1>4, <2>1, QuietLast DEF LoadBlocked, TypeOK, files, BaseInv
  <1>5. CASE Observe(p)
    <2>0. ActiveFrames \in SUBSET Frame /\ HasLast(ActiveFrames)
      BY <1>0, Lasts DEF ActiveFrames, TypeOK, InSegment
    <2>1. pc' \in [Proc -> PC]
      BY <1>0, <1>5, GotoType, NextStop DEF Observe
    <2>2. head' \in [Proc -> Head]
      BY <1>0, <1>5, <2>0, HeadType DEF Observe, TypeOK
    <2>3. acked' \in SUBSET Frame
      BY <1>0, <1>5, <2>0, LastIn DEF Observe, TypeOK
    <2>4. synced' \in SUBSET Frame
      BY <1>0, <1>5 DEF Observe, Durabilized, TypeOK, InSegment
    <2>5. TypeOK'
      BY <1>0, <1>5, <2>1, <2>2, <2>3, <2>4 DEF Observe, TypeOK
    <2> QED BY <1>0, <1>5, <2>5, QuietLast DEF Observe, BaseInv
  <1>6. CASE Create(p)
    <2>1. pc' \in [Proc -> PC]
      BY <1>0, <1>6, GotoType, NextStop DEF Create, Holding
    <2>2. TypeOK'
      BY <1>0, <1>6, <2>1 DEF Create, TypeOK
    <2> QED BY <1>0, <1>6, <2>2, QuietLast DEF Create, BaseInv
  <1>7. CASE Publish(p)
    <2>1. pc' \in [Proc -> PC]
      BY <1>0, <1>7, GotoType, NextStop DEF Publish, Holding
    <2>2. index' \in [sealed : Nat, content : SUBSET Frame]
      BY <1>0, <1>7 DEF Publish, TypeOK, Seen
    <2>3. TypeOK'
      BY <1>0, <1>7, <2>1, <2>2 DEF Publish, TypeOK
    <2>4. index'.content = seen[p].sealed /\ UNCHANGED <<frames, seen>>
      BY <1>7 DEF Publish
    <2>5. LastInv'
      BY <1>0, <2>4 DEF LastInv, AllLast, HasLast
    <2> QED BY <2>3, <2>5 DEF BaseInv
  <1>8. CASE Write(p)
    <2>1. pc' \in [Proc -> PC]
      BY <1>0, <1>8, GotoType, NextStop DEF Write, Holding
    <2>2. CASE job[p] \in Draft
      <3>1. NewFrame(p) \in Frame
        BY <1>0, <2>2 DEF NewFrame, Frame, TypeOK, Head
      <3>2. TypeOK'
        BY <1>0, <1>8, <2>1, <3>1 DEF Write, TypeOK
      <3>3. frames' = frames \cup {NewFrame(p)} /\ UNCHANGED <<index, seen>>
        BY <1>8 DEF Write
      <3>4. AllLast(frames \cup {NewFrame(p)})
        BY <1>0, <3>1, GrowLast DEF LastInv, TypeOK
      <3>6. LastInv'
        BY <1>0, <3>3, <3>4 DEF LastInv, AllLast, HasLast
      <3> QED BY <3>2, <3>6 DEF BaseInv
    <2> QED BY <1>8, <2>2 DEF JobInv, Holding, Write
  <1>9. CASE Fsync(p)
    <2>1. pc' \in [Proc -> PC]
      BY <1>0, <1>9, GotoType, NextStop DEF Fsync
    <2>2. job[p] \in Draft
      BY <1>9 DEF JobInv, Holding, Fsync
    <2>3. Written(p) \in Frame /\ [seq |-> Written(p).seq, hash |-> Written(p).hash] \in Head
      BY <1>0, <2>2 DEF Written, Frame, TypeOK, Head
    <2>4. synced' \in SUBSET Frame
      BY <1>0, <1>9 DEF Fsync, TypeOK, InSegment
    <2>5. TypeOK'
      BY <1>0, <1>9, <2>1, <2>3, <2>4 DEF Fsync, TypeOK
    <2> QED BY <1>0, <1>9, <2>5, QuietLast DEF Fsync, BaseInv
  <1> QED BY <1>1, <1>2, <1>3, <1>4, <1>5, <1>6, <1>7, <1>8, <1>9 DEF Append

LEMMA OtherBase ==
  ASSUME BaseInv, NEW p \in Proc,
         Exit(p) \/ (\E d \in Draft : Submit(p, d)) \/ Disturb(p)
  PROVE  BaseInv'
  <1>0. TypeOK /\ LastInv
    BY DEF BaseInv
  <1>1. /\ UNCHANGED <<frames, synced, nseg, index, head, seen, stamp, acked, raced>>
        /\ job' \in [Proc -> Draft \cup {NoDraft}]
        /\ faults' \in Nat
    BY <1>0 DEF Exit, Submit, Disturb, Fault, ShortWrite, Crash, Reopen, files, TypeOK
  <1>2. torn' \in SUBSET Nat
    BY <1>0 DEF Exit, Submit, Disturb, Fault, ShortWrite, Crash, Reopen, files, TypeOK
  <1>3. pc' \in [Proc -> PC]
    BY <1>0, GotoType, NextStop
    DEF Exit, Submit, Disturb, Fault, ShortWrite, Crash, Reopen
  <1>4. lock' \in Proc \cup {Free}
    BY <1>0, ReleaseType
    DEF Exit, Submit, Disturb, Fault, ShortWrite, Crash, Reopen, TypeOK
  <1>5. TypeOK'
    BY <1>0, <1>1, <1>2, <1>3, <1>4 DEF TypeOK
  <1> QED BY <1>0, <1>1, <1>5, QuietLast DEF BaseInv

LEMMA JobStep ==
  ASSUME TypeOK, JobInv, [Next]_vars
  PROVE  JobInv'
  <1>0. pc \in [Proc -> PC] /\ job \in [Proc -> Draft \cup {NoDraft}]
    BY DEF TypeOK
  <1>1. ASSUME NEW p \in Proc, Replay(p) PROVE JobInv'
    <2>1. \A q \in Proc : pc'[q] \in {"lock"} \cup Holding => pc[q] \in {"lock"} \cup Holding
                                                             /\ job'[q] = job[q]
      BY <1>0, <1>1
      DEF Replay, Start, Survey, CheckIndex, Scan, ScanBlocked, Repair, RepairBlocked,
          Truncate, AfterTail, Reindex, Goto, files, Holding
    <2> QED BY <2>1 DEF JobInv
  <1>2. ASSUME NEW p \in Proc, Append(p) PROVE JobInv'
    <2>1. \A q \in Proc : pc'[q] \in {"lock"} \cup Holding => pc[q] \in {"lock"} \cup Holding
                                                             /\ job'[q] = job[q]
      BY <1>0, <1>2
      DEF Append, Lock, Load, LoadOther, LoadBlocked, Observe, Create, Publish, Write, Fsync,
          Goto, files, Holding
    <2> QED BY <2>1 DEF JobInv
  <1>3. ASSUME NEW p \in Proc, Exit(p) \/ (\E d \in Draft : Submit(p, d)) \/ Disturb(p)
        PROVE  JobInv'
    <2>1. \A q \in Proc : pc'[q] \in {"lock"} \cup Holding =>
                            \/ job'[q] \in Draft
                            \/ pc[q] \in {"lock"} \cup Holding /\ job'[q] = job[q]
      BY <1>0, <1>3
      DEF Exit, Submit, Disturb, Fault, ShortWrite, Crash, Reopen, Goto, Holding, NoDraft
    <2> QED BY <2>1 DEF JobInv
  <1>4. CASE LosePower
    BY <1>4 DEF LosePower, JobInv, Holding
  <1>5. CASE UNCHANGED vars
    BY <1>5 DEF vars, JobInv
  <1> QED BY <1>1, <1>2, <1>3, <1>4, <1>5 DEF Next, Step

\* append.lock is held from its grant to the answer, by one process.
LockInv == \A p \in Proc : pc[p] \in Holding <=> lock = p

LEMMA LockStep ==
  ASSUME TypeOK, LockInv, [Next]_vars
  PROVE  LockInv'
  <1>0. /\ pc \in [Proc -> PC] /\ lock \in Proc \cup {Free} /\ Free \notin Proc
    BY JournalAssumption DEF TypeOK, Free
  <1>1. ASSUME NEW p \in Proc, Replay(p) PROVE LockInv'
    BY <1>0, <1>1
    DEF LockInv, Replay, Start, Survey, CheckIndex, Scan, ScanBlocked, Repair, RepairBlocked,
        Truncate, AfterTail, Reindex, Goto, files, Holding
  <1>2. ASSUME NEW p \in Proc, Lock(p) PROVE LockInv'
    BY <1>0, <1>2 DEF LockInv, Lock, Goto, Holding
  <1>3. ASSUME NEW p \in Proc,
               Load(p) \/ LoadOther(p) \/ Create(p) \/ Publish(p) \/ Write(p)
        PROVE  LockInv'
    BY <1>0, <1>3 DEF LockInv, Load, LoadOther, Create, Publish, Write, Goto, Holding
  <1>4. ASSUME NEW p \in Proc, LoadBlocked(p) \/ Observe(p) \/ Fsync(p)
        PROVE  LockInv'
    <2>1. pc[p] \in Holding /\ lock = p /\ lock' = Free
      BY <1>4 DEF LockInv, LoadBlocked, Observe, Fsync, Holding
    <2>2. \E l \in {"blocked", "idle", "survey"} : pc' = [pc EXCEPT ![p] = l]
      BY <1>4 DEF LoadBlocked, Observe, Fsync, Goto
    <2> QED BY <1>0, <2>1, <2>2 DEF LockInv, Holding
  <1>5. ASSUME NEW p \in Proc, Exit(p) \/ (\E d \in Draft : Submit(p, d)) \/ Reopen(p)
        PROVE  LockInv'
    BY <1>0, <1>5 DEF LockInv, Exit, Submit, Reopen, Goto, files, Holding
  <1>6. ASSUME NEW p \in Proc, Fault(p) \/ ShortWrite(p) \/ Crash(p)
        PROVE  LockInv'
    <2>1. \E l \in {"blocked", "down"} : pc' = [pc EXCEPT ![p] = l]
      BY <1>6 DEF Fault, ShortWrite, Crash, Goto
    <2>2. lock' = IF lock = p THEN Free ELSE lock
      BY <1>6 DEF Fault, ShortWrite, Crash, Release
    <2> QED BY <1>0, <2>1, <2>2 DEF LockInv, Holding
  <1>7. CASE LosePower
    BY <1>0, <1>7 DEF LosePower, LockInv, Holding
  <1>8. CASE UNCHANGED vars
    BY <1>8 DEF vars, LockInv
  <1> QED BY <1>1, <1>2, <1>3, <1>4, <1>5, <1>6, <1>7, <1>8
          DEF Next, Step, Append, Disturb

LEMMA LosePowerBase ==
  ASSUME BaseInv, LosePower
  PROVE  BaseInv'
  <1>0. TypeOK /\ LastInv
    BY DEF BaseInv
  <1>1. PICK kept \in SUBSET frames :
          /\ frames' = kept /\ synced' = kept
          /\ \E cut \in SUBSET {f.seg : f \in frames \ kept} : torn' = torn \cup cut
    BY DEF LosePower
  <1>2. torn' \in SUBSET Nat
    <2>1. PICK cut \in SUBSET {f.seg : f \in frames \ kept} : torn' = torn \cup cut
      BY <1>1
    <2>2. \A k \in cut : k \in Nat
      BY <1>0 DEF TypeOK, Frame
    <2> QED BY <1>0, <2>1, <2>2 DEF TypeOK
  <1>3. pc' \in [Proc -> PC] /\ lock' \in Proc \cup {Free} /\ faults' \in Nat
    BY <1>0 DEF LosePower, TypeOK, PC
  <1>4. UNCHANGED <<nseg, index, head, job, seen, stamp, acked, raced>>
    BY DEF LosePower
  <1>5. TypeOK'
    BY <1>0, <1>1, <1>2, <1>3, <1>4 DEF TypeOK
  <1> QED BY <1>0, <1>1, <1>4, <1>5, QuietLast DEF BaseInv

Sound == BaseInv /\ JobInv /\ LockInv

LEMMA SoundInit == Init => Sound
  BY BaseInit, JournalAssumption DEF Init, Sound, JobInv, LockInv, Holding, Free

LEMMA SoundStep ==
  ASSUME Sound, [Next]_vars
  PROVE  Sound'
  <1>1. TypeOK /\ BaseInv /\ JobInv /\ LockInv
    BY DEF Sound, BaseInv
  <1>2. JobInv' /\ LockInv'
    BY <1>1, JobStep, LockStep
  <1>3. BaseInv'
    <2>1. CASE UNCHANGED vars
      BY <1>1, <2>1, QuietLast DEF vars, files, BaseInv, TypeOK
    <2>2. ASSUME NEW p \in Proc, Step(p) PROVE BaseInv'
      BY <1>1, <2>2, ReplayBase, AppendBase, OtherBase DEF Step
    <2>3. ASSUME NEW p \in Proc, Disturb(p) PROVE BaseInv'
      BY <1>1, <2>3, OtherBase
    <2>4. CASE LosePower
      BY <1>1, <2>4, LosePowerBase
    <2> QED BY <2>1, <2>2, <2>3, <2>4 DEF Next
  <1> QED BY <1>2, <1>3 DEF Sound

THEOREM SoundAlways == Spec => []Sound
  <1>1. Sound /\ [Next]_vars => Sound'
    BY SoundStep
  <1> QED BY <1>1, SoundInit, PTL DEF Spec

\* Every variable keeps its type, whatever is raced, cut or lost: no segment that is
\* read is without a last frame.
THEOREM TypeCorrect == Spec => []TypeOK
  <1>1. Sound => TypeOK
    BY DEF Sound, BaseInv
  <1> QED BY <1>1, SoundAlways, PTL

\* Only the last segment grows, and only by the holder of append.lock, whatever
\* repairs race, whatever is lost and however often processes die.
THEOREM SealedUntouchedAlways == Spec => SealedUntouched
  <1>1. Sound /\ [Next]_vars =>
          [\A f \in frames' \ frames :
             f.seg = nseg /\ lock \in Proc /\ pc[lock] = "write"]_vars
    <2> SUFFICES ASSUME Sound, [Next]_vars, NEW f \in frames' \ frames
                 PROVE  f.seg = nseg /\ lock \in Proc /\ pc[lock] = "write"
      OBVIOUS
    <2>1. PICK p \in Proc : Write(p)
      BY DEF Next, Step, Replay, Append, Disturb, Start, Survey, CheckIndex, Scan,
             ScanBlocked, Repair, RepairBlocked, Truncate, Kept, Reindex, Lock, Load,
             LoadOther, LoadBlocked, Observe, Create, Publish, Fsync, Exit, Submit, Fault,
             ShortWrite, Crash, Reopen, LosePower, files, vars
    <2>2. f = NewFrame(p) /\ pc[p] = "write"
      BY <2>1 DEF Write
    <2>3. f.seg = nseg
      BY <2>2 DEF NewFrame
    <2>4. lock = p
      BY <2>2 DEF Sound, LockInv, Holding
    <2> QED BY <2>2, <2>3, <2>4
  <1> QED BY <1>1, SoundAlways, PTL DEF Spec, SealedUntouched

------------------------------------------------------------------------------
(* The chain.                                                               *)

\* h is the head of the whole journal.
Tip(h) ==
  \/ frames = {} /\ h = Genesis
  \/ \E f \in frames :
       f.seq = h.seq /\ f.hash = h.hash /\ \A g \in frames : g.seq <= f.seq

ChainInv ==
  /\ Linked(frames, Genesis)
  /\ \A f \in frames : f.hash <= stamp /\ f.seg \in 1..nseg
  /\ \A f, g \in frames : f.seg < g.seg => f.seq < g.seq
  /\ \A k \in 1..nseg : k < nseg => InSegment(k) # {}

\* What the holder of the lock knows on its way to the write and the sync.
WriterInv ==
  \A p \in Proc :
    /\ pc[p] \in {"create", "publish", "write"} => Tip(head[p]) /\ nseg # 0
    /\ pc[p] = "create" => InSegment(nseg) # {}
    /\ pc[p] = "fsync" => Written(p) \in frames

\* An incomplete frame keeps writers away until a repair cut it off; so a repair that
\* compared the size of the segment is right about it when it cuts.
TornInv ==
  /\ torn \subseteq 1..nseg
  /\ \A p \in Proc : pc[p] \in {"create", "publish", "write"} => nseg \notin torn
  /\ \A p \in Proc : pc[p] = "truncate" => TailUnchanged(p)

JournalInv ==
  Sound /\ KnownInv /\ ChainInv /\ WriterInv /\ TornInv /\ AckedSurvives

LEMMA JournalInit == Init => JournalInv
  BY SoundInit
  DEF Init, JournalInv, KnownInv, ChainInv, WriterInv, TornInv, AckedSurvives, Linked, NoIndex

\* The head a compare-and-append verifies is the head of the whole journal.
LEMMA TipAtLoad ==
  ASSUME TypeOK, LastInv, KnownInv, ChainInv, Loadable, NEW p \in Proc, Expected(p)
  PROVE  Tip(head[p])
  <1>0. /\ frames \in SUBSET Frame /\ nseg \in Nat /\ nseg \in Int
        /\ index \in [sealed : Nat, content : SUBSET Frame]
        /\ \A k : InSegment(k) \in SUBSET Frame /\ InSegment(k) \subseteq frames
    BY DEF TypeOK, InSegment
  <1>1. HasLast(InSegment(nseg)) /\ HasLast(index.content)
    BY Lasts
  <1>2. HeadOf(ActiveFrames) = head[p]
    BY DEF Expected
  <1>3. CASE InSegment(nseg) # {}
    <2> DEFINE l == LastOf(InSegment(nseg))
    <2>1. l \in InSegment(nseg) /\ \A g \in InSegment(nseg) : g.seq <= l.seq
      BY <1>0, <1>1, <1>3, LastIn
    <2>2. l \in frames /\ l.seg = nseg
      BY <2>1 DEF InSegment
    <2>3. head[p] = [seq |-> l.seq, hash |-> l.hash]
      BY <1>2, <1>3 DEF HeadOf, ActiveFrames
    <2>4. ASSUME NEW g \in frames PROVE g.seq <= l.seq
      <3>1. CASE g.seg = nseg
        BY <2>1, <3>1 DEF InSegment
      <3>2. CASE g.seg # nseg
        <4>1. g.seg \in 1..nseg /\ g \in Frame /\ l \in Frame
          BY <1>0, <2>2 DEF ChainInv
        <4>2. g.seg < l.seg
          BY <1>0, <2>2, <3>2, <4>1
        <4>3. g.seq < l.seq
          BY <2>2, <4>2 DEF ChainInv
        <4> HIDE DEF l
        <4> QED BY <4>1, <4>3 DEF Frame
      <3> QED BY <3>1, <3>2
    <2> HIDE DEF l
    <2> QED BY <2>2, <2>3, <2>4 DEF Tip
  <1>4. CASE InSegment(nseg) = {} /\ nseg <= 1
    <2>1. frames = {}
      BY <1>0, <1>4 DEF ChainInv, InSegment
    <2>2. index.content = {}
      BY <2>1 DEF KnownInv
    <2> QED BY <1>2, <1>4, <2>1, <2>2 DEF HeadOf, ActiveFrames, Tip
  <1>5. CASE InSegment(nseg) = {} /\ nseg > 1
    <2> DEFINE l == LastOf(index.content)
    <2>1. index # NoIndex /\ IndexVerified(nseg)
      BY <1>0, <1>5 DEF Loadable, IndexVerified
    <2>2. index.sealed + 1 = nseg /\ InSegment(index.sealed) = index.content
      BY <2>1 DEF IndexVerified
    <2>3. index.sealed \in 1..nseg /\ index.sealed < nseg
      BY <1>0, <1>5, <2>2
    <2>4. index.content # {}
      BY <2>2, <2>3 DEF ChainInv
    <2>5. l \in index.content /\ \A g \in index.content : g.seq <= l.seq
      BY <1>0, <1>1, <2>4, LastIn
    <2>6. l \in frames /\ l.seg = index.sealed
      BY <2>2, <2>5 DEF InSegment
    <2>7. head[p] = [seq |-> l.seq, hash |-> l.hash]
      BY <1>2, <1>5, <2>4 DEF HeadOf, ActiveFrames
    <2>8. ASSUME NEW g \in frames PROVE g.seq <= l.seq
      <3>0. g.seg \in 1..nseg /\ g.seg # nseg /\ g \in Frame /\ l \in Frame
        BY <1>0, <1>5, <2>6 DEF ChainInv, InSegment
      <3>1. CASE g.seg = index.sealed
        BY <2>2, <2>5, <3>1 DEF InSegment
      <3>2. CASE g.seg # index.sealed
        <4>1. g.seg < l.seg
          BY <1>0, <2>2, <2>3, <2>6, <3>0, <3>2
        <4>2. g.seq < l.seq
          BY <2>6, <4>1 DEF ChainInv
        <4> HIDE DEF l
        <4> QED BY <3>0, <4>2 DEF Frame
      <3> QED BY <3>1, <3>2
    <2> HIDE DEF l
    <2> QED BY <2>6, <2>7, <2>8 DEF Tip
  <1> QED BY <1>0, <1>3, <1>4, <1>5

\* Steps that leave the frames, the segments and the hashes alone, and take no
\* process towards a write.
LEMMA SteadyStep ==
  ASSUME JournalInv, UNCHANGED <<frames, nseg, stamp>>,
         \A q \in Proc :
           /\ pc'[q] \in {"create", "publish", "write", "fsync"} =>
                head'[q] = head[q] /\ job'[q] = job[q]
           /\ pc'[q] = "write" => pc[q] \in {"publish", "write"}
           /\ pc'[q] \in {"create", "publish", "fsync"} => pc[q] = pc'[q],
         acked' \subseteq frames
  PROVE  ChainInv' /\ WriterInv' /\ AckedSurvives'
  <1>1. ChainInv'
    BY DEF JournalInv, ChainInv, Linked, InSegment
  <1>2. WriterInv'
    BY DEF JournalInv, WriterInv, Tip, Written, InSegment
  <1>3. AckedSurvives'
    BY DEF AckedSurvives
  <1> QED BY <1>1, <1>2, <1>3

LEMMA LoadStep ==
  ASSUME JournalInv, NEW p \in Proc, Load(p)
  PROVE  ChainInv' /\ WriterInv' /\ AckedSurvives'
  <1>0. /\ TypeOK /\ LastInv /\ KnownInv /\ ChainInv /\ WriterInv /\ LockInv
        /\ pc \in [Proc -> PC] /\ nseg \in Nat /\ frames \in SUBSET Frame
    BY DEF JournalInv, Sound, BaseInv, TypeOK
  <1>1. Tip(head[p])
    BY <1>0, TipAtLoad DEF Load
  <1>2. nseg = 0 => frames = {}
    BY <1>0 DEF ChainInv
  <1>3. /\ nseg' = IF nseg = 0 THEN 1 ELSE nseg
        /\ UNCHANGED <<frames, head, job, stamp, acked>>
    BY DEF Load
  <1>4. ChainInv'
    BY <1>0, <1>2, <1>3 DEF ChainInv, Linked, InSegment
  <1>5. /\ pc' = [pc EXCEPT ![p] = IF Cardinality(InSegment(nseg')) >= SegmentCap
                                   THEN "create" ELSE "write"]
        /\ pc[p] = "load"
    BY DEF Load, Goto
  <1>6. Cardinality(InSegment(nseg')) >= SegmentCap => InSegment(nseg') # {}
    BY JournalAssumption, FS_EmptySet
  <1>7. \A q \in Proc : q # p => pc[q] \notin {"create", "publish", "write", "fsync"}
    BY <1>0, <1>5 DEF LockInv, Holding
  <1>8. WriterInv'
    <2>1. \A q \in Proc : q # p => pc'[q] = pc[q]
      BY <1>0, <1>5
    <2>2. pc'[p] \in {"create", "write"}
      BY <1>0, <1>5
    <2>3. pc'[p] = "create" => InSegment(nseg)' # {}
      BY <1>0, <1>3, <1>5, <1>6 DEF InSegment
    <2>4. Tip(head[p])' /\ nseg' # 0
      BY <1>0, <1>1, <1>3 DEF Tip
    <2> QED BY <1>7, <2>1, <2>2, <2>3, <2>4 DEF WriterInv
  <1>9. AckedSurvives'
    BY <1>3 DEF JournalInv, AckedSurvives
  <1> QED BY <1>4, <1>8, <1>9

LEMMA LoadOtherStep ==
  ASSUME JournalInv, NEW p \in Proc, LoadOther(p)
  PROVE  ChainInv' /\ WriterInv' /\ AckedSurvives'
  <1>0. /\ TypeOK /\ ChainInv /\ LockInv
        /\ pc \in [Proc -> PC] /\ nseg \in Nat /\ frames \in SUBSET Frame
    BY DEF JournalInv, Sound, BaseInv, TypeOK
  <1>1. nseg = 0 => frames = {}
    BY <1>0 DEF ChainInv
  <1>2. /\ nseg' = IF nseg = 0 THEN 1 ELSE nseg
        /\ UNCHANGED <<frames, head, job, stamp, acked>>
        /\ pc[p] = "load" /\ pc' = [pc EXCEPT ![p] = "observe"]
    BY DEF LoadOther, Goto
  <1>3. ChainInv'
    BY <1>0, <1>1, <1>2 DEF ChainInv, Linked, InSegment
  <1>4. \A q \in Proc : pc'[q] \notin {"create", "publish", "write", "fsync"}
    BY <1>0, <1>2 DEF LockInv, Holding
  <1> QED BY <1>2, <1>3, <1>4 DEF WriterInv, JournalInv, AckedSurvives

LEMMA CreateStep ==
  ASSUME JournalInv, NEW p \in Proc, Create(p)
  PROVE  ChainInv' /\ WriterInv' /\ AckedSurvives'
  <1>0. /\ ChainInv /\ LockInv /\ WriterInv
        /\ pc \in [Proc -> PC] /\ nseg \in Nat /\ frames \in SUBSET Frame
    BY DEF JournalInv, Sound, BaseInv, TypeOK
  <1>1. /\ nseg' = nseg + 1 /\ UNCHANGED <<frames, head, job, stamp, acked>>
        /\ pc[p] = "create" /\ pc' = [pc EXCEPT ![p] = "publish"]
    BY DEF Create, Goto
  <1>2. InSegment(nseg) # {} /\ Tip(head[p])
    BY <1>0, <1>1 DEF WriterInv
  <1>3. ChainInv'
    <2>1. \A f \in frames : f.seg \in 1..nseg'
      BY <1>0, <1>1 DEF ChainInv
    <2>2. \A k \in 1..nseg' : k < nseg' => InSegment(k) # {}
      BY <1>0, <1>1, <1>2 DEF ChainInv
    <2> QED BY <1>0, <1>1, <2>1, <2>2 DEF ChainInv, Linked, InSegment
  <1>4. \A q \in Proc : q # p => pc'[q] = pc[q]
                                 /\ pc[q] \notin {"create", "publish", "write", "fsync"}
    BY <1>0, <1>1 DEF LockInv, Holding
  <1>5. pc'[p] = "publish" /\ Tip(head[p])' /\ nseg' # 0
    BY <1>0, <1>1, <1>2 DEF Tip
  <1>6. WriterInv'
    BY <1>4, <1>5 DEF WriterInv
  <1> QED BY <1>1, <1>3, <1>6 DEF JournalInv, AckedSurvives

LEMMA WriteStep ==
  ASSUME JournalInv, NEW p \in Proc, Write(p)
  PROVE  /\ ChainInv' /\ WriterInv' /\ AckedSurvives'
         /\ NewFrame(p) \in Frame
         /\ \A g \in frames : g.seq < NewFrame(p).seq /\ g.hash # NewFrame(p).hash
         /\ \/ NewFrame(p).seq = 1 /\ NewFrame(p).prev = 0
            \/ \E g \in frames : g.seq + 1 = NewFrame(p).seq /\ g.hash = NewFrame(p).prev
  <1> DEFINE f == NewFrame(p)
  <1>0. /\ ChainInv /\ LockInv /\ WriterInv
        /\ pc \in [Proc -> PC] /\ nseg \in Nat /\ frames \in SUBSET Frame
        /\ head[p] \in Head /\ stamp \in Nat
    BY DEF JournalInv, Sound, BaseInv, TypeOK
  <1>1. /\ frames' = frames \cup {f} /\ stamp' = stamp + 1
        /\ UNCHANGED <<nseg, head, job, acked>>
        /\ pc[p] = "write" /\ pc' = [pc EXCEPT ![p] = "fsync"]
    BY DEF Write, Goto
  <1>2. Tip(head[p]) /\ nseg # 0
    BY <1>0, <1>1 DEF WriterInv
  <1>3. job[p] \in Draft
    BY <1>1 DEF JournalInv, Sound, JobInv, Holding
  <1>4. /\ f \in Frame /\ f.seq = head[p].seq + 1 /\ f.hash = stamp + 1
        /\ f.prev = head[p].hash /\ f.seg = nseg
    BY <1>0, <1>3 DEF NewFrame, Frame, Head
  <1>5. \A g \in frames : g.seq < f.seq
    <2>1. ASSUME NEW g \in frames PROVE g.seq <= head[p].seq
      BY <1>0, <1>2 DEF Tip, Frame
    <2> HIDE DEF f
    <2> QED BY <1>0, <1>4, <2>1 DEF Frame, Head
  <1>6. \A g \in frames : g.hash <= stamp /\ g.hash # f.hash
    <2> HIDE DEF f
    <2> QED BY <1>0, <1>4 DEF ChainInv, Frame
  <1>7. \/ f.seq = 1 /\ f.prev = 0
        \/ \E g \in frames : g.seq + 1 = f.seq /\ g.hash = f.prev
    <2>1. CASE frames = {} /\ head[p] = Genesis
      BY <1>4, <2>1 DEF Genesis
    <2>2. CASE \E g \in frames : g.seq = head[p].seq /\ g.hash = head[p].hash
      BY <1>4, <2>2
    <2> QED BY <1>2, <2>1, <2>2 DEF Tip
  <1> HIDE DEF f
  <1>8. Linked(frames, Genesis)'
    <2>1. \A g, h \in frames' : g.seq = h.seq => g = h
      BY <1>0, <1>1, <1>4, <1>5 DEF ChainInv, Linked, Frame
    <2>2. \A g \in frames : \/ g.seq = Genesis.seq + 1 /\ g.prev = Genesis.hash
                            \/ \E h \in frames : g.seq = h.seq + 1 /\ g.prev = h.hash
      BY <1>0 DEF ChainInv, Linked
    <2>3. \/ f.seq = Genesis.seq + 1 /\ f.prev = Genesis.hash
          \/ \E h \in frames : f.seq = h.seq + 1 /\ f.prev = h.hash
      BY <1>7 DEF Genesis
    <2>4. \A g \in frames' : \/ g.seq = Genesis.seq + 1 /\ g.prev = Genesis.hash
                             \/ \E h \in frames' : g.seq = h.seq + 1 /\ g.prev = h.hash
      BY <1>1, <2>2, <2>3
    <2> QED BY <2>1, <2>4 DEF Linked, Genesis
  <1>9. \A g \in frames' : g.hash <= stamp' /\ g.seg \in 1..nseg'
    BY <1>0, <1>1, <1>2, <1>4, <1>6 DEF ChainInv, Frame
  <1>10. \A g, h \in frames' : g.seg < h.seg => g.seq < h.seq
    BY <1>0, <1>1, <1>4, <1>5 DEF ChainInv, Frame
  <1>11. \A k \in 1..nseg' : k < nseg' => InSegment(k)' # {}
    BY <1>0, <1>1 DEF ChainInv, InSegment
  <1>12. ChainInv'
    BY <1>8, <1>9, <1>10, <1>11 DEF ChainInv
  <1>13. WriterInv'
    <2>1. \A q \in Proc : q # p => pc'[q] = pc[q]
                                   /\ pc[q] \notin {"create", "publish", "write", "fsync"}
      BY <1>0, <1>1 DEF LockInv, Holding
    <2>2. pc'[p] = "fsync" /\ Written(p)' \in frames'
      BY <1>0, <1>1 DEF f, Written, NewFrame
    <2> QED BY <2>1, <2>2 DEF WriterInv
  <1>14. AckedSurvives'
    BY <1>1 DEF JournalInv, AckedSurvives
  <1> QED BY <1>4, <1>5, <1>6, <1>7, <1>12, <1>13, <1>14 DEF f

\* Nothing else touches the frames, and what is acknowledged is one of them.
LEMMA OtherStep ==
  ASSUME JournalInv, ~PowerLoss, [Next]_vars,
         \A p \in Proc : ~Load(p) /\ ~LoadOther(p) /\ ~Create(p) /\ ~Write(p)
  PROVE  /\ UNCHANGED <<frames, nseg, stamp>>
         /\ acked' = acked \/ \E f \in frames : acked' = acked \cup {f}
         /\ ChainInv' /\ WriterInv' /\ AckedSurvives'
  <1>0. /\ TypeOK /\ LastInv /\ KnownInv /\ TornInv /\ WriterInv
        /\ pc \in [Proc -> PC] /\ head \in [Proc -> Head] /\ frames \in SUBSET Frame
        /\ nseg \in Int /\ index \in [sealed : Nat, content : SUBSET Frame]
        /\ job \in [Proc -> Draft \cup {NoDraft}]
    BY DEF JournalInv, Sound, BaseInv, TypeOK
  <1> DEFINE Quiet(q) ==
        /\ pc'[q] \in {"create", "publish", "write", "fsync"} =>
             head'[q] = head[q] /\ job'[q] = job[q]
        /\ pc'[q] = "write" => pc[q] \in {"publish", "write"}
        /\ pc'[q] \in {"create", "publish", "fsync"} => pc[q] = pc'[q]
  <1> DEFINE Goal == /\ UNCHANGED <<frames, nseg, stamp>>
                     /\ acked' = acked \/ \E f \in frames : acked' = acked \cup {f}
                     /\ \A q \in Proc : Quiet(q)
  <1>1. ASSUME NEW p \in Proc, Truncate(p) PROVE Goal
    <2>1. TailUnchanged(p)
      BY <1>0, <1>1 DEF Truncate, TornInv
    <2>2. frames' = frames /\ UNCHANGED <<nseg, head, job, stamp, acked>>
      BY <1>1, <2>1, CutKeeps DEF Truncate
    <2>3. \E l \in {"idle", "reindex"} : pc' = [pc EXCEPT ![p] = l]
      BY <1>1 DEF Truncate, AfterTail, Goto
    <2> QED BY <1>0, <2>2, <2>3
  <1>2. ASSUME NEW p \in Proc,
               \/ Start(p) \/ Survey(p) \/ CheckIndex(p) \/ Scan(p) \/ ScanBlocked(p)
               \/ Repair(p) \/ RepairBlocked(p) \/ Reindex(p)
        PROVE  Goal
    <2>1. UNCHANGED <<frames, nseg, stamp, acked>>
          /\ \A q \in Proc : q # p => head'[q] = head[q] /\ job'[q] = job[q]
      BY <1>0, <1>2
      DEF Start, Survey, CheckIndex, Scan, ScanBlocked, Repair, RepairBlocked, Reindex, files
    <2>2. \E l \in {"survey", "index", "scan", "repair", "truncate", "reindex", "idle",
                   "blocked"} :
            pc' = [pc EXCEPT ![p] = l]
      BY <1>2 DEF Start, Survey, CheckIndex, Scan, ScanBlocked, Repair, RepairBlocked,
                  Reindex, AfterTail, Goto
    <2> QED BY <1>0, <2>1, <2>2
  <1>4. ASSUME NEW p \in Proc, Lock(p) \/ LoadBlocked(p) \/ Publish(p) PROVE Goal
    <2>1. UNCHANGED <<frames, nseg, stamp, acked, head, job>>
      BY <1>4 DEF Lock, LoadBlocked, Publish, files
    <2>2. \/ pc' = [pc EXCEPT ![p] = "load"]
          \/ pc' = [pc EXCEPT ![p] = "blocked"]
          \/ pc' = [pc EXCEPT ![p] = "write"] /\ pc[p] = "publish"
      BY <1>4 DEF Lock, LoadBlocked, Publish, Goto
    <2> QED BY <1>0, <2>1, <2>2
  <1>5. ASSUME NEW p \in Proc, Observe(p) PROVE Goal
    <2>1. ActiveFrames \in SUBSET Frame /\ HasLast(ActiveFrames) /\ ActiveFrames \subseteq frames
      <3>1. InSegment(nseg) \subseteq frames /\ HasLast(InSegment(nseg))
        BY <1>0, Lasts DEF InSegment
      <3>2. index.content \subseteq frames /\ HasLast(index.content)
        BY <1>0, Lasts DEF KnownInv
      <3> QED BY <1>0, <3>1, <3>2 DEF ActiveFrames
    <2>2. ActiveFrames # {} => LastOf(ActiveFrames) \in frames
      BY <2>1, LastIn
    <2>3. /\ UNCHANGED <<frames, nseg, stamp>>
          /\ acked' = acked \/ \E f \in frames : acked' = acked \cup {f}
          /\ \A q \in Proc : q # p => head'[q] = head[q] /\ job'[q] = job[q]
      BY <1>0, <1>5, <2>2 DEF Observe
    <2>4. \E l \in {"idle", "survey"} : pc' = [pc EXCEPT ![p] = l]
      BY <1>5 DEF Observe, Goto
    <2> QED BY <1>0, <2>3, <2>4
  <1>6. ASSUME NEW p \in Proc, Fsync(p) PROVE Goal
    <2>1. Written(p) \in frames
      BY <1>0, <1>6 DEF WriterInv, Fsync
    <2>2. /\ UNCHANGED <<frames, nseg, stamp>> /\ acked' = acked \cup {Written(p)}
          /\ \A q \in Proc : q # p => head'[q] = head[q] /\ job'[q] = job[q]
          /\ pc' = [pc EXCEPT ![p] = "idle"]
      BY <1>0, <1>6 DEF Fsync, Goto
    <2> QED BY <1>0, <2>1, <2>2
  <1>7. ASSUME NEW p \in Proc, Exit(p) \/ (\E d \in Draft : Submit(p, d)) \/ Disturb(p)
        PROVE  Goal
    <2>1. UNCHANGED <<frames, nseg, stamp, acked, head>>
          /\ \A q \in Proc : q # p => job'[q] = job[q]
      BY <1>0, <1>7 DEF Exit, Submit, Disturb, Fault, ShortWrite, Crash, Reopen, files
    <2>2. \E l \in {"down", "lock", "blocked"} : pc' = [pc EXCEPT ![p] = l]
      BY <1>7 DEF Exit, Submit, Disturb, Fault, ShortWrite, Crash, Reopen, Goto
    <2> QED BY <1>0, <2>1, <2>2
  <1>8. ASSUME LosePower PROVE Goal
    BY <1>8 DEF LosePower
  <1>9. ASSUME UNCHANGED vars PROVE Goal
    BY <1>9 DEF vars, files
  <1>10. Goal
    BY <1>1, <1>2, <1>4, <1>5, <1>6, <1>7, <1>8, <1>9
    DEF Next, Step, Replay, Append
  <1>11. acked' \subseteq frames
    BY <1>10 DEF JournalInv, AckedSurvives
  <1> QED BY <1>10, <1>11, SteadyStep

\* What readers know stays in the segments as long as no frame is cut off.
LEMMA KnownStep ==
  ASSUME TypeOK, KnownInv, ~PowerLoss, [Next]_vars, frames \subseteq frames'
  PROVE  KnownInv'
  <1>0. /\ seen \in [Proc -> Seen]
        /\ \A k : InSegment(k) \subseteq frames
    BY DEF TypeOK, InSegment
  <1> DEFINE Goal == /\ index' = index \/ index'.content = {}
                        \/ \E q \in Proc : index'.content = seen[q].sealed
                     /\ \A q \in Proc : \/ seen'[q].sealed = seen[q].sealed
                                        \/ \E k : seen'[q].sealed = InSegment(k)
  <1>1. ASSUME NEW p \in Proc,
               \/ Start(p) \/ ScanBlocked(p) \/ Repair(p) \/ RepairBlocked(p) \/ Truncate(p)
               \/ Lock(p) \/ LoadOther(p) \/ LoadBlocked(p) \/ Observe(p) \/ Create(p)
               \/ Write(p) \/ Fsync(p) \/ Exit(p) \/ (\E d \in Draft : Submit(p, d))
               \/ Disturb(p)
        PROVE  Goal
    <2>1. UNCHANGED <<index, seen>>
      BY <1>1
      DEF Start, ScanBlocked, Repair, RepairBlocked, Truncate, Lock, LoadOther, LoadBlocked,
          Observe, Create, Write, Fsync, Exit, Submit, Disturb, Fault, ShortWrite, Crash,
          Reopen, files
    <2> QED BY <2>1
  <1>2. ASSUME NEW p \in Proc, Survey(p) \/ CheckIndex(p) PROVE Goal
    <2>1. index' = index
      BY <1>2 DEF Survey, CheckIndex, files
    <2>2. \A q \in Proc : seen'[q].sealed = seen[q].sealed
      BY <1>0, <1>2 DEF Survey, CheckIndex, Seen
    <2> QED BY <2>1, <2>2
  <1>3. ASSUME NEW p \in Proc, Scan(p) \/ Load(p) PROVE Goal
    <2>1. index' = index
      BY <1>3 DEF Scan, Load, files
    <2>2. PICK k : seen'[p].sealed = InSegment(k)
      <3>1. CASE Scan(p)
        BY <1>0, <3>1 DEF Scan, Seen
      <3>2. CASE Load(p)
        BY <1>0, <3>2 DEF Load, Seen
      <3> QED BY <1>3, <3>1, <3>2
    <2>3. \A q \in Proc : q # p => seen'[q] = seen[q]
      BY <1>0, <1>3 DEF Scan, Load
    <2> QED BY <2>1, <2>2, <2>3
  <1>4. ASSUME NEW p \in Proc, Reindex(p) \/ Publish(p) PROVE Goal
    <2>1. seen' = seen
      BY <1>4 DEF Reindex, Publish
    <2>2. index'.content = {} \/ index'.content = seen[p].sealed
      BY <1>4 DEF Reindex, Publish, Rebuilt, NoIndex
    <2> QED BY <2>1, <2>2
  <1>5. ASSUME UNCHANGED vars PROVE Goal
    BY <1>5 DEF vars, files
  <1>6. Goal
    BY <1>1, <1>2, <1>3, <1>4, <1>5 DEF Next, Step, Replay, Append, LosePower
  <1>7. index'.content \subseteq frames
    BY <1>6 DEF KnownInv
  <1>8. ASSUME NEW q \in Proc PROVE seen'[q].sealed \subseteq frames
    BY <1>0, <1>6 DEF KnownInv
  <1> QED BY <1>7, <1>8 DEF KnownInv

\* A process whose step is not its own keeps what it was about to cut.
LEMMA StillUnchanged ==
  ASSUME NEW q \in Proc, TailUnchanged(q), seen'[q] = seen[q], seen[q].n \in torn',
         InSegment(seen[q].n)' = InSegment(seen[q].n)
  PROVE  TailUnchanged(q)'
  BY DEF TailUnchanged, InSegment

LEMMA TornStep ==
  ASSUME JournalInv, ~PowerLoss, [Next]_vars, ~raced'
  PROVE  TornInv'
  <1>0. /\ TypeOK /\ TornInv /\ ChainInv /\ WriterInv /\ LockInv
        /\ pc \in [Proc -> PC] /\ seen \in [Proc -> Seen] /\ nseg \in Nat
        /\ torn \subseteq 1..nseg /\ torn \in SUBSET Nat
    BY DEF JournalInv, Sound, BaseInv, TypeOK, TornInv
  <1>1. ASSUME NEW p \in Proc,
               \/ Start(p) \/ Survey(p) \/ CheckIndex(p) \/ Scan(p) \/ ScanBlocked(p)
               \/ RepairBlocked(p) \/ Reindex(p) \/ Lock(p) \/ LoadBlocked(p) \/ Observe(p)
               \/ Fsync(p) \/ Exit(p) \/ (\E d \in Draft : Submit(p, d)) \/ Fault(p)
               \/ Crash(p) \/ Reopen(p)
        PROVE  TornInv'
    <2>1. UNCHANGED <<frames, torn, nseg>>
      BY <1>1
      DEF Start, Survey, CheckIndex, Scan, ScanBlocked, RepairBlocked, Reindex, Lock,
          LoadBlocked, Observe, Fsync, Exit, Submit, Fault, Crash, Reopen, files
    <2>2. \E l \in {"down", "blocked", "survey", "index", "scan", "repair", "reindex", "idle",
                    "lock", "load"} : pc' = [pc EXCEPT ![p] = l]
      BY <1>1
      DEF Start, Survey, CheckIndex, Scan, ScanBlocked, RepairBlocked, Reindex, Lock,
          LoadBlocked, Observe, Fsync, Exit, Submit, Fault, Crash, Reopen, AfterTail, Goto
    <2>3. \A q \in Proc : q # p => seen'[q] = seen[q]
      BY <1>0, <1>1
      DEF Start, Survey, CheckIndex, Scan, ScanBlocked, RepairBlocked, Reindex, Lock,
          LoadBlocked, Observe, Fsync, Exit, Submit, Fault, Crash, Reopen, files
    <2>4. \A q \in Proc : pc'[q] \in {"create", "publish", "write", "truncate"} =>
                            q # p /\ pc'[q] = pc[q]
      BY <1>0, <2>2
    <2> QED BY <1>0, <2>1, <2>3, <2>4 DEF TornInv, TailUnchanged, InSegment
  <1>2. ASSUME NEW p \in Proc, Repair(p) PROVE TornInv'
    <2>1. /\ UNCHANGED <<frames, torn, nseg, seen>> /\ TailUnchanged(p)
          /\ pc' = [pc EXCEPT ![p] = "truncate"]
      BY <1>2 DEF Repair, files, Goto
    <2> QED BY <1>0, <2>1 DEF TornInv, TailUnchanged, InSegment
  <1>3. ASSUME NEW p \in Proc, Truncate(p) PROVE TornInv'
    <2>1. /\ TailUnchanged(p) /\ pc[p] = "truncate"
      BY <1>0, <1>3 DEF Truncate, TornInv
    <2>2. /\ frames' = frames /\ UNCHANGED <<nseg, seen>> /\ torn' = torn \ {seen[p].n}
          /\ \E l \in {"idle", "reindex"} : pc' = [pc EXCEPT ![p] = l]
      BY <1>3, <2>1, CutKeeps DEF Truncate, AfterTail, Goto
    <2>3. ~OtherRepair(p)
      BY <1>3 DEF Truncate
    <2>4. \A q \in Proc : pc'[q] = "truncate" =>
                            q # p /\ pc[q] = "truncate" /\ seen[q].n # seen[p].n
      BY <1>0, <2>2, <2>3 DEF OtherRepair
    <2>5. \A q \in Proc : pc'[q] \in {"create", "publish", "write"} => pc[q] = pc'[q]
      BY <1>0, <2>2
    <2> QED BY <1>0, <2>2, <2>4, <2>5 DEF TornInv, TailUnchanged, InSegment
  <1>4. ASSUME NEW p \in Proc, Load(p) \/ LoadOther(p) PROVE TornInv'
    <2>1. /\ UNCHANGED <<frames, torn>> /\ nseg' = IF nseg = 0 THEN 1 ELSE nseg
          /\ nseg \notin torn
      BY <1>4 DEF Load, LoadOther, Loadable
    <2>2. \E l \in {"create", "write", "observe"} : pc' = [pc EXCEPT ![p] = l]
      BY <1>4 DEF Load, LoadOther, Goto
    <2>3. \A q \in Proc : q # p => seen'[q] = seen[q]
      BY <1>0, <1>4 DEF Load, LoadOther
    <2>4. torn \subseteq 1..nseg' /\ nseg' \notin torn
      BY <1>0, <2>1
    <2> QED BY <1>0, <2>1, <2>2, <2>3, <2>4 DEF TornInv, TailUnchanged, InSegment
  <1>5. ASSUME NEW p \in Proc, Create(p) PROVE TornInv'
    <2>1. /\ UNCHANGED <<frames, torn, seen>> /\ nseg' = nseg + 1
          /\ pc' = [pc EXCEPT ![p] = "publish"]
      BY <1>5 DEF Create, Goto
    <2>2. torn \subseteq 1..nseg' /\ nseg' \notin torn
      BY <1>0, <2>1
    <2> QED BY <1>0, <2>1, <2>2 DEF TornInv, TailUnchanged, InSegment
  <1>6. ASSUME NEW p \in Proc, Publish(p) PROVE TornInv'
    <2>1. /\ UNCHANGED <<frames, torn, seen, nseg>> /\ pc[p] = "publish"
          /\ pc' = [pc EXCEPT ![p] = "write"]
      BY <1>6 DEF Publish, Goto
    <2> QED BY <1>0, <2>1 DEF TornInv, TailUnchanged, InSegment
  <1>7. ASSUME NEW p \in Proc, Write(p) PROVE TornInv'
    <2>1. /\ UNCHANGED <<torn, seen, nseg>> /\ pc[p] = "write"
          /\ pc' = [pc EXCEPT ![p] = "fsync"]
          /\ frames' = frames \cup {NewFrame(p)} /\ NewFrame(p).seg = nseg
      BY <1>7 DEF Write, Goto, NewFrame
    <2>2. nseg \notin torn
      BY <1>0, <2>1 DEF TornInv
    <2>3. \A k \in torn : InSegment(k)' = InSegment(k)
      BY <2>1, <2>2 DEF InSegment
    <2>4. \A q \in Proc : pc'[q] = "truncate" => TailUnchanged(q)'
      BY <1>0, <2>1, <2>3 DEF TornInv, TailUnchanged, InSegment
    <2> QED BY <1>0, <2>1, <2>4 DEF TornInv
  <1>8. ASSUME NEW p \in Proc, ShortWrite(p) PROVE TornInv'
    <2>1. /\ UNCHANGED <<frames, seen, nseg>> /\ pc[p] = "write"
          /\ \E l \in {"blocked", "down"} : pc' = [pc EXCEPT ![p] = l]
          /\ torn' = torn \cup {nseg}
      BY <1>8 DEF ShortWrite, Goto
    <2>2. \A q \in Proc : pc'[q] \notin {"create", "publish", "write"}
      BY <1>0, <2>1 DEF LockInv, Holding
    <2>3. nseg \in 1..nseg
      BY <1>0, <2>1 DEF WriterInv
    <2> QED BY <1>0, <2>1, <2>2, <2>3 DEF TornInv, TailUnchanged, InSegment
  <1>9. CASE UNCHANGED vars
    BY <1>0, <1>9 DEF vars, files, TornInv, TailUnchanged, InSegment
  <1> QED BY <1>1, <1>2, <1>3, <1>4, <1>5, <1>6, <1>7, <1>8, <1>9
          DEF Next, Step, Replay, Append, Disturb, LosePower

LEMMA JournalStep ==
  ASSUME JournalInv, ~PowerLoss, [Next]_vars, ~raced'
  PROVE  JournalInv'
  <1>1. Sound'
    BY SoundStep DEF JournalInv
  <1>2. ChainInv' /\ WriterInv' /\ AckedSurvives'
    BY LoadStep, LoadOtherStep, CreateStep, WriteStep, OtherStep
  <1>3. frames \subseteq frames'
    <2>1. CASE \E p \in Proc : Load(p) \/ LoadOther(p) \/ Create(p) \/ Write(p)
      BY <2>1 DEF Load, LoadOther, Create, Write
    <2>2. CASE \A p \in Proc : ~Load(p) /\ ~LoadOther(p) /\ ~Create(p) /\ ~Write(p)
      BY <2>2, OtherStep
    <2> QED BY <2>1, <2>2
  <1>4. KnownInv'
    BY <1>3, KnownStep DEF JournalInv, Sound, BaseInv
  <1>5. TornInv'
    BY TornStep
  <1> QED BY <1>1, <1>2, <1>4, <1>5 DEF JournalInv

\* Once two repairs have overlapped, they have.
LEMMA RacedStays ==
  ASSUME [Next]_vars, ~raced'
  PROVE  ~raced
  BY DEF Next, Step, Replay, Append, Disturb, Start, Survey, CheckIndex, Scan,
         ScanBlocked, Repair, RepairBlocked, Truncate, Reindex, Lock, Load, LoadOther,
         LoadBlocked, Observe, Create, Publish, Write, Fsync, Exit, Submit, Fault,
         ShortWrite, Crash, Reopen, LosePower, vars

\* Until two repairs overlap, nothing acknowledged is lost and the journal is one chain:
\* an incomplete frame keeps every writer away from what a repair is about to cut.
THEOREM JournalInvariant ==
  ASSUME ~PowerLoss
  PROVE  Spec => [](~raced => JournalInv)
  <1>1. (~raced => JournalInv) /\ [Next]_vars => (~raced => JournalInv)'
    <2> SUFFICES ASSUME ~raced => JournalInv, [Next]_vars, ~raced'
                 PROVE  JournalInv'
      OBVIOUS
    <2>1. ~raced
      BY RacedStays
    <2> QED BY <2>1, JournalStep
  <1> QED BY <1>1, JournalInit, PTL DEF Spec

\* No acknowledged event is lost, whatever crashes, retries and rotations go on beside
\* a repair, as long as no second repair of the same tail does.
THEOREM AckedKeptAlways ==
  ASSUME ~PowerLoss
  PROVE  Spec => []AckedKept
  <1>1. (~raced => JournalInv) => AckedKept
    BY DEF JournalInv, AckedKept
  <1> QED BY <1>1, JournalInvariant, PTL

\* The segment files hold one hash chain until two repairs overlap.
THEOREM OneChainAlways ==
  ASSUME ~PowerLoss
  PROVE  Spec => []OneChain
  <1>1. (~raced => JournalInv) => OneChain
    BY DEF JournalInv, ChainInv, OneChain
  <1> QED BY <1>1, JournalInvariant, PTL

------------------------------------------------------------------------------
(* The journal implements its contract.                                     *)

AsLogged(f) == [seq |-> f.seq, hash |-> f.hash, prev |-> f.prev, draft |-> f.draft]
Logged(S) == {AsLogged(f) : f \in S}

LEMMA ContractStep ==
  ASSUME JournalInv, ~PowerLoss, [Next]_vars, ~raced, ~raced'
  PROVE  [Contract!Next]_(Contract!cvars)
  <1>0. frames \in SUBSET Frame /\ raced' = raced
    <2>1. Sound /\ Sound'
      BY SoundStep DEF JournalInv
    <2> QED BY <2>1 DEF Sound, BaseInv, TypeOK
  <1>1. CASE \E p \in Proc : Write(p)
    <2>1. PICK p \in Proc : Write(p)
      BY <1>1
    <2> DEFINE f == NewFrame(p)  a == AsLogged(f)
    <2>2. frames' = frames \cup {f} /\ acked' = acked
      BY <2>1 DEF Write
    <2>3. /\ f \in Frame
          /\ \A g \in frames : g.seq < f.seq /\ g.hash # f.hash
          /\ \/ f.seq = 1 /\ f.prev = 0
             \/ \E g \in frames : g.seq + 1 = f.seq /\ g.hash = f.prev
      BY <2>1, WriteStep
    <2> HIDE DEF f
    <2>4. /\ a \in Contract!Frame /\ a.seq = f.seq /\ a.hash = f.hash /\ a.prev = f.prev
      BY <2>3 DEF AsLogged, Contract!Frame, Frame
    <2>5. \A g \in Logged(frames) : g.seq < a.seq /\ g.hash # a.hash
      BY <2>3, <2>4 DEF Logged, AsLogged
    <2>6. \/ a.seq = 1 /\ a.prev = 0
          \/ \E g \in Logged(frames) : g.seq + 1 = a.seq /\ g.hash = a.prev
      <3>1. CASE f.seq = 1 /\ f.prev = 0
        BY <2>4, <3>1
      <3>2. CASE \E g \in frames : g.seq + 1 = f.seq /\ g.hash = f.prev
        <4>1. PICK g \in frames : g.seq + 1 = f.seq /\ g.hash = f.prev
          BY <3>2
        <4>2. /\ AsLogged(g) \in Logged(frames)
              /\ AsLogged(g).seq = g.seq /\ AsLogged(g).hash = g.hash
          BY <4>1 DEF Logged, AsLogged
        <4> HIDE DEF a
        <4> QED BY <2>4, <4>1, <4>2
      <3> QED BY <2>3, <3>1, <3>2
    <2>7. Logged(frames') = Logged(frames) \cup {a}
      BY <2>2 DEF Logged
    <2>8. a \in Logged(frames')
      BY <2>7
    <2> HIDE DEF a
    <2>9. Contract!Extends(a)
      BY <2>4, <2>5, <2>6 DEF Contract!Extends, Logged, AsLogged
    <2>10. Contract!Extend
      BY <1>0, <2>2, <2>7, <2>8, <2>9 DEF Contract!Extend, Logged, AsLogged
    <2> QED BY <2>10 DEF Contract!Next
  <1>2. CASE \E p \in Proc : Load(p) \/ LoadOther(p) \/ Create(p)
    <2>1. UNCHANGED <<frames, acked>>
      BY <1>2 DEF Load, LoadOther, Create
    <2> QED BY <1>0, <2>1 DEF Contract!cvars
  <1>3. CASE \A p \in Proc : ~Load(p) /\ ~LoadOther(p) /\ ~Create(p) /\ ~Write(p)
    <2>1. frames' = frames /\ (acked' = acked \/ \E f \in frames : acked' = acked \cup {f})
      BY <1>3, OtherStep
    <2>2. CASE acked' = acked
      BY <1>0, <2>1, <2>2 DEF Contract!cvars
    <2>3. CASE \E f \in frames : acked' = acked \cup {f}
      <3>1. PICK f \in frames : acked' = acked \cup {f}
        BY <2>3
      <3>2. Logged(acked') = Logged(acked) \cup {AsLogged(f)} /\ AsLogged(f) \in Logged(frames)
        BY <3>1 DEF Logged
      <3>3. Contract!Acknowledge
        BY <1>0, <2>1, <3>2 DEF Contract!Acknowledge, Logged, AsLogged
      <3> QED BY <3>3 DEF Contract!Next
    <2> QED BY <2>1, <2>2, <2>3
  <1> QED BY <1>1, <1>2, <1>3

\* Segments, rotation, the derived index, lock-free replay and its repairs are
\* invisible: callers see one log that only grows, until two repairs overlap.
THEOREM ContractImplemented ==
  ASSUME ~PowerLoss
  PROVE  Spec => ImplementsContract
  <1> DEFINE Inv == Sound /\ (~raced => JournalInv)
  <1>1. Init => Contract!Init
    BY DEF Init, Contract!Init
  <1>2. Inv /\ Inv' /\ [Next]_vars => [Contract!Next]_(Contract!cvars)
    <2> SUFFICES ASSUME Inv, Inv', [Next]_vars
                 PROVE  [Contract!Next]_(Contract!cvars)
      OBVIOUS
    <2>1. CASE raced'
      <3>1. raced' = TRUE
        BY <2>1 DEF Sound, BaseInv, TypeOK
      <3> QED BY <3>1 DEF Contract!Next, Contract!Break
    <2>2. CASE ~raced'
      <3>1. ~raced
        BY <2>2, RacedStays
      <3> QED BY <2>2, <3>1, ContractStep
    <2> QED BY <2>1, <2>2
  <1>3. Spec => []Inv
    BY SoundAlways, JournalInvariant, PTL
  <1> QED BY <1>1, <1>2, <1>3, PTL DEF Spec, ImplementsContract, Contract!Spec

------------------------------------------------------------------------------
(* What the callers of Journal hold: the head that a process replayed or was *)
(* told stays in the journal, and an event that it appends, retries or       *)
(* appends again after a restart is journaled once.                          *)

\* h is the head of some beginning of the journal.
OnChain(h) == h = Genesis \/ \E f \in frames : f.seq = h.seq /\ f.hash = h.hash

\* Program points at which a process has nothing to append.
Reading == {"survey", "index", "scan", "repair", "truncate", "reindex", "idle"}

\* An event a process may still append is not in the part of the journal that it
\* knows: that is why a writer whose head is the last writes a new event.
HeadInv ==
  /\ \A p \in Proc : OnChain(head[p])
  /\ \A p \in Proc : pc[p] \in Reading => job[p] = NoDraft
  /\ \A p \in Proc : Wanted(p, job[p])
  /\ AppendedOnce

\* Nobody knows anything yet.
LEMMA HeadInit == Init => HeadInv
  BY DEF Init, HeadInv, OnChain, Wanted, AppendedOnce

\* The head of a set of frames is on the chain.
LEMMA HeadOfOnChain ==
  ASSUME NEW S \in SUBSET Frame, S \subseteq frames, HasLast(S)
  PROVE  OnChain(HeadOf(S))
  BY LastIn DEF HeadOf, OnChain

\* A step that writes no frame, as far as one process goes: it goes on with what it
\* had, or ends an append or a replay, or begins an append.
Keeps(q) ==
  /\ head'[q] = head[q] /\ job'[q] = job[q]
  /\ pc'[q] \in Reading => pc[q] \in Reading

Settles(q) == job'[q] = NoDraft /\ OnChain(head'[q])

Begins(q) ==
  /\ pc'[q] \notin Reading /\ head'[q] = head[q]
  /\ job'[q] \in Draft /\ Wanted(q, job'[q])

LEMMA QuietHeads ==
  ASSUME TypeOK, HeadInv, frames' = frames,
         \A q \in Proc : Keeps(q) \/ Settles(q) \/ Begins(q)
  PROVE  HeadInv'
  <1>1. \A f \in frames : f.draft # NoDraft
    BY JournalAssumption DEF TypeOK, Frame, NoDraft
  <1>2. \A q \in Proc : OnChain(head[q])'
    BY DEF HeadInv, OnChain, Keeps, Settles, Begins
  <1>3. \A q \in Proc : pc'[q] \in Reading => job'[q] = NoDraft
    BY DEF HeadInv, Keeps, Settles, Begins
  <1>4. \A q \in Proc : Wanted(q, job[q])'
    BY <1>1 DEF HeadInv, Wanted, Keeps, Settles, Begins
  <1>5. AppendedOnce'
    BY DEF HeadInv, AppendedOnce
  <1> QED BY <1>2, <1>3, <1>4, <1>5 DEF HeadInv

\* A frame is written behind every head that anybody knows.
LEMMA WriteHeads ==
  ASSUME JournalInv, HeadInv, NEW p \in Proc, Write(p)
  PROVE  HeadInv'
  <1> DEFINE f == NewFrame(p)
  <1>1. /\ frames' = frames \cup {f} /\ head' = head /\ job' = job
        /\ pc[p] = "write" /\ pc' = [pc EXCEPT ![p] = "fsync"]
    BY DEF Write, Goto
  <1>2. /\ f \in Frame /\ f.draft = job[p] /\ f.seq = head[p].seq + 1
        /\ \A g \in frames : g.seq < f.seq
    BY WriteStep DEF NewFrame
  <1>3. /\ head \in [Proc -> Head] /\ frames \in SUBSET Frame /\ pc \in [Proc -> PC]
    BY DEF JournalInv, Sound, BaseInv, TypeOK
  <1>4. \A g \in frames : g.draft # job[p]
    <2>1. ASSUME NEW g \in frames, g.draft = job[p] PROVE FALSE
      <3>1. g.seq > head[p].seq /\ g.seq < head[p].seq + 1
        BY <1>2, <2>1 DEF HeadInv, Wanted
      <3>2. g.seq \in Nat /\ head[p].seq \in Nat
        BY <1>3 DEF Frame, Head
      <3> QED BY <3>1, <3>2
    <2> QED BY <2>1
  <1> HIDE DEF f
  <1>5. \A q \in Proc : OnChain(head[q])'
    BY <1>1 DEF HeadInv, OnChain
  <1>6. \A q \in Proc : pc'[q] \in Reading => job'[q] = NoDraft
    BY <1>1, <1>3 DEF HeadInv, Reading
  <1>7. ASSUME NEW q \in Proc PROVE head[q].seq < f.seq
    <2>1. CASE head[q] = Genesis
      BY <1>2, <1>3, <2>1 DEF Genesis, Head
    <2>2. CASE \E g \in frames : g.seq = head[q].seq
      BY <1>2, <2>2
    <2> QED BY <2>1, <2>2 DEF HeadInv, OnChain
  <1>8. \A q \in Proc : Wanted(q, job[q])'
    BY <1>1, <1>2, <1>3, <1>7 DEF HeadInv, Wanted, Frame, Head
  <1>9. AppendedOnce'
    BY <1>1, <1>2, <1>4 DEF HeadInv, AppendedOnce
  <1> QED BY <1>5, <1>6, <1>8, <1>9 DEF HeadInv

\* Every other step.
LEMMA OtherHeads ==
  ASSUME JournalInv, HeadInv, ~PowerLoss, [Next]_vars,
         \A p \in Proc : ~Write(p)
  PROVE  HeadInv'
  <1>0. /\ TypeOK /\ LastInv /\ KnownInv /\ TornInv /\ WriterInv
        /\ pc \in [Proc -> PC] /\ head \in [Proc -> Head] /\ frames \in SUBSET Frame
        /\ job \in [Proc -> Draft \cup {NoDraft}] /\ nseg \in Int
        /\ seen \in [Proc -> Seen] /\ index \in [sealed : Nat, content : SUBSET Frame]
    BY DEF JournalInv, Sound, BaseInv, TypeOK
  <1> DEFINE Goal == /\ frames' = frames
                     /\ \A q \in Proc : Keeps(q) \/ Settles(q) \/ Begins(q)
  <1>1. ASSUME NEW p \in Proc, Start(p) PROVE Goal
    <2>1. /\ frames' = frames /\ head'[p] = Genesis /\ job'[p] = NoDraft
          /\ \A q \in Proc : q # p => /\ head'[q] = head[q] /\ job'[q] = job[q]
                                      /\ pc'[q] = pc[q]
      BY <1>0, <1>1 DEF Start, files, Goto
    <2> QED BY <2>1 DEF Keeps, Settles, OnChain
  <1>2. ASSUME NEW p \in Proc,
               \/ Survey(p) \/ CheckIndex(p) \/ ScanBlocked(p) \/ Reindex(p)
               \/ Repair(p) \/ RepairBlocked(p)
        PROVE  Goal
    <2>1. /\ UNCHANGED <<frames, head, job>> /\ pc[p] \in Reading
          /\ \A q \in Proc : q # p => pc'[q] = pc[q]
      BY <1>0, <1>2
      DEF Survey, CheckIndex, ScanBlocked, Reindex, Repair, RepairBlocked, files, Goto,
          Reading
    <2> QED BY <2>1 DEF Keeps
  <1>3. ASSUME NEW p \in Proc, Scan(p) PROVE Goal
    <2>1. /\ frames' = frames /\ job' = job /\ head'[p] = HeadOf(UpTo(seen[p].n))
          /\ pc[p] \in Reading
          /\ \A q \in Proc : q # p => head'[q] = head[q] /\ pc'[q] = pc[q]
      BY <1>0, <1>3 DEF Scan, files, Goto, Reading
    <2>2. OnChain(HeadOf(UpTo(seen[p].n)))
      <3>1. seen[p].n \in Int
        BY <1>0 DEF Seen
      <3>2. /\ UpTo(seen[p].n) \subseteq frames /\ UpTo(seen[p].n) \in SUBSET Frame
            /\ HasLast(UpTo(seen[p].n))
        BY <1>0, <3>1, Lasts DEF UpTo
      <3> QED BY <3>2, HeadOfOnChain
    <2>3. job'[p] = NoDraft
      BY <2>1 DEF HeadInv
    <2> QED BY <2>1, <2>2, <2>3 DEF Keeps, Settles
  <1>4. ASSUME NEW p \in Proc, Truncate(p) PROVE Goal
    <2>1. TailUnchanged(p)
      BY <1>0, <1>4 DEF Truncate, TornInv
    <2>2. /\ UNCHANGED <<frames, head, job>> /\ pc[p] \in Reading
          /\ \A q \in Proc : q # p => pc'[q] = pc[q]
      BY <1>0, <1>4, <2>1, CutKeeps DEF Truncate, Goto, Reading
    <2> QED BY <2>2 DEF Keeps
  <1>6. ASSUME NEW p \in Proc,
               \/ Lock(p) \/ Load(p) \/ LoadOther(p) \/ LoadBlocked(p)
               \/ Create(p) \/ Publish(p)
        PROVE  Goal
    <2>1. /\ UNCHANGED <<frames, head, job>>
          /\ \E l \in {"load", "create", "write", "observe", "blocked", "publish"} :
               pc' = [pc EXCEPT ![p] = l]
      BY <1>6 DEF Lock, Load, LoadOther, LoadBlocked, Create, Publish, files, Goto
    <2> QED BY <1>0, <2>1 DEF Keeps, Reading
  <1>7. ASSUME NEW p \in Proc, Observe(p) PROVE Goal
    <2>1. ActiveFrames \in SUBSET Frame /\ HasLast(ActiveFrames) /\ ActiveFrames \subseteq frames
      <3>1. InSegment(nseg) \subseteq frames /\ HasLast(InSegment(nseg))
        BY <1>0, Lasts DEF InSegment
      <3>2. index.content \subseteq frames /\ HasLast(index.content)
        BY <1>0, Lasts DEF KnownInv
      <3> QED BY <1>0, <3>1, <3>2 DEF ActiveFrames
    <2>2. OnChain(HeadOf(ActiveFrames))
      BY <2>1, HeadOfOnChain
    <2>3. /\ frames' = frames /\ job'[p] = NoDraft
          /\ head'[p] \in {head[p], HeadOf(ActiveFrames)}
          /\ \A q \in Proc : q # p => /\ head'[q] = head[q] /\ job'[q] = job[q]
                                      /\ pc'[q] = pc[q]
      BY <1>0, <1>7 DEF Observe, Goto
    <2> QED BY <2>2, <2>3 DEF Keeps, Settles, HeadInv
  <1>8. ASSUME NEW p \in Proc, Fsync(p) PROVE Goal
    <2>1. Written(p) \in frames
      BY <1>0, <1>8 DEF WriterInv, Fsync
    <2>2. /\ frames' = frames /\ job'[p] = NoDraft
          /\ head'[p] = [seq |-> Written(p).seq, hash |-> Written(p).hash]
          /\ \A q \in Proc : q # p => /\ head'[q] = head[q] /\ job'[q] = job[q]
                                      /\ pc'[q] = pc[q]
      BY <1>0, <1>8 DEF Fsync, Goto
    <2>3. OnChain(head'[p])
      BY <2>1, <2>2 DEF OnChain
    <2> QED BY <2>2, <2>3 DEF Keeps, Settles
  <1>9. ASSUME NEW p \in Proc, NEW d \in Draft, Submit(p, d) PROVE Goal
    <2>1. /\ frames' = frames /\ head' = head /\ job'[p] = d /\ pc'[p] = "lock"
          /\ Wanted(p, d)
          /\ \A q \in Proc : q # p => job'[q] = job[q] /\ pc'[q] = pc[q]
      BY <1>0, <1>9 DEF Submit, files, Goto
    <2> QED BY <2>1 DEF Keeps, Begins, Reading
  <1>10. ASSUME NEW p \in Proc, Exit(p) \/ Disturb(p) PROVE Goal
    <2>1. /\ UNCHANGED <<frames, head, job>>
          /\ \E l \in {"down", "blocked", "lock"} : pc' = [pc EXCEPT ![p] = l]
      BY <1>10 DEF Exit, Disturb, Fault, ShortWrite, Crash, Reopen, files, Goto
    <2> QED BY <1>0, <2>1 DEF Keeps, Reading
  <1>11. ASSUME LosePower PROVE Goal
    BY <1>11 DEF LosePower
  <1>12. ASSUME UNCHANGED vars PROVE Goal
    BY <1>12 DEF vars, files, Keeps
  <1>13. Goal
    BY <1>1, <1>2, <1>3, <1>4, <1>6, <1>7, <1>8, <1>9, <1>10, <1>11, <1>12
    DEF Next, Step, Replay, Append
  <1> QED BY <1>0, <1>13, QuietHeads

\* Both invariants hold in every reachable state until two repairs overlap.
LEMMA HeadsInvariance ==
  ASSUME ~PowerLoss
  PROVE  Spec => [](~raced => JournalInv /\ HeadInv)
  <1>1. Init => JournalInv /\ HeadInv
    BY JournalInit, HeadInit
  <1>2. (~raced => JournalInv /\ HeadInv) /\ [Next]_vars => (~raced => JournalInv /\ HeadInv)'
    <2> SUFFICES ASSUME ~raced => JournalInv /\ HeadInv, [Next]_vars, ~raced'
                 PROVE  JournalInv' /\ HeadInv'
      OBVIOUS
    <2>1. JournalInv /\ HeadInv
      BY RacedStays
    <2>2. JournalInv'
      BY <2>1, JournalStep
    <2>3. HeadInv'
      BY <2>1, WriteHeads, OtherHeads
    <2> QED BY <2>2, <2>3
  <1> QED BY <1>1, <1>2, PTL DEF Spec

------------------------------------------------------------------------------
(* The theorems.                                                            *)

\* compare_and_append_draft journals an event once, however often its caller retries
\* it after an unknown outcome, replays in between or is started again; until two
\* repairs overlap.
THEOREM AppendedOnceAlways ==
  ASSUME ~PowerLoss
  PROVE  Spec => [](~raced => AppendedOnce)
  <1>1. (~raced => JournalInv /\ HeadInv) => (~raced => AppendedOnce)
    BY DEF HeadInv
  <1> QED BY <1>1, HeadsInvariance, PTL

\* The head that replay_journal or an append gave to a caller stays a head of the
\* journal, whatever is repaired, rotated or appended beside it, until two repairs
\* overlap.
THEOREM HeadsOnChainAlways ==
  ASSUME ~PowerLoss
  PROVE  Spec => []HeadsOnChain
  <1>1. (~raced => JournalInv /\ HeadInv) => HeadsOnChain
    BY DEF HeadInv, OnChain, HeadsOnChain
  <1> QED BY <1>1, HeadsInvariance, PTL
=============================================================================
