----------------------------- MODULE LeaseProofs -----------------------------
(***************************************************************************)
(* Theorems about CoordinatorLease, for every set of coordinators and      *)
(* every TTL, skew and clock error.  Each safety property rests on one     *)
(* inductive invariant that says what a cursor at the head and a fencing   *)
(* token are worth.                                                        *)
(***************************************************************************)
EXTENDS CoordinatorLease, TLAPS

------------------------------------------------------------------------------
(* Type correctness.                                                        *)

LEMMA ReadingInt == \A r \in Reading : r \in Int
  BY LeaseAssumption DEF Reading

LEMMA LaterInt == \A t \in Int : Later(t) \in Int
  BY LeaseAssumption DEF Later, Horizon

\* Every step of a lease event keeps the types, whoever writes it.
LEMMA AppendLeaseType ==
  ASSUME TypeOK, NEW c \in Coord, NEW r \in Int, NEW e \in Int,
         NEW l \in [kind : Kind, owner : Coord \cup {None}, token : 0..MaxToken],
         AppendLease(c, l, e, r)
  PROVE  /\ lease' \in [kind : Kind, owner : Coord \cup {None}, token : 0..MaxToken]
         /\ left' \in Int /\ since' \in Int
         /\ tail' \in Nat
         /\ current' \in SUBSET Coord /\ reported' \in SUBSET Nat
         /\ view' \in [Coord -> Lease]
         /\ vleft' \in [Coord -> Int]
  <1>1. l \in Lease /\ l.token \in Nat
    BY LeaseAssumption DEF Lease
  <1> QED BY <1>1 DEF TypeOK, AppendLease, Record

LEMMA AppendEventType ==
  ASSUME TypeOK, NEW c \in Coord, NEW r \in Int,
         AppendEvent(c, r)
  PROVE  /\ lease' = lease /\ left' = left /\ since' \in Int
         /\ tail' \in Nat
         /\ current' \in SUBSET Coord /\ reported' \in SUBSET Nat
         /\ view' = view /\ vleft' = vleft
  BY DEF TypeOK, AppendEvent, Record

LEMMA ReadJournalType ==
  ASSUME TypeOK, NEW c \in Coord, ReadJournal(c)
  PROVE  /\ lease' = lease /\ left' = left /\ since' = since /\ tail' = tail
         /\ current' \in SUBSET Coord /\ reported' \in SUBSET Nat
         /\ view' \in [Coord -> Lease]
         /\ vleft' \in [Coord -> Int]
  <1>1. lease \in Lease
    BY LeaseAssumption DEF TypeOK, Lease
  <1> QED BY <1>1 DEF TypeOK, ReadJournal

LEMMA GotoType ==
  ASSUME TypeOK, NEW c \in Coord, NEW l \in PC, Goto(c, l)
  PROVE  pc' \in [Coord -> PC]
  BY DEF TypeOK, Goto

LEMMA TypeInit == Init => TypeOK
  BY LeaseAssumption DEF Init, TypeOK, NoLease, Lease, Kind, PC

LEMMA AcquisitionType ==
  ASSUME TypeOK, NEW c \in Coord, Acquisition(c)
  PROVE  TypeOK'
  <1> USE DEF Runs
  <1>1. CASE Recover(c)
    BY <1>1, ReadJournalType, GotoType DEF Recover, TypeOK, PC
  <1>2. CASE AcquiredAlready(c)
    BY <1>2, GotoType DEF AcquiredAlready, TypeOK, PC, journal
  <1>3. CASE Probe(c)
    BY <1>3, GotoType DEF Probe, TypeOK, PC, journal
  <1>4. CASE ProbeRejected(c)
    BY <1>4, GotoType DEF ProbeRejected, TypeOK, PC, journal
  <1>5. CASE Acquire(c)
    <2>1. PICK r \in Reading :
            AppendLease(c, [kind |-> "acquired", owner |-> c, token |-> NextToken(c)],
                        TTL + r, r)
      BY <1>5 DEF Acquire
    <2>2. /\ NextToken(c) \in 0..MaxToken
          /\ r \in Int /\ TTL + r \in Int
      BY <1>5, LeaseAssumption, ReadingInt DEF Acquire, NextToken, TypeOK, Lease
    <2>3. [kind |-> "acquired", owner |-> c, token |-> NextToken(c)]
            \in [kind : Kind, owner : Coord \cup {None}, token : 0..MaxToken]
      BY <2>2 DEF Kind
    <2>4. pc' \in [Coord -> PC]
      BY <1>5, GotoType DEF Acquire, PC
    <2>5. /\ lease' \in [kind : Kind, owner : Coord \cup {None}, token : 0..MaxToken]
          /\ left' \in Int /\ since' \in Int
          /\ tail' \in Nat
          /\ current' \in SUBSET Coord /\ reported' \in SUBSET Nat
          /\ view' \in [Coord -> Lease]
          /\ vleft' \in [Coord -> Int]
      BY <2>1, <2>2, <2>3, AppendLeaseType
    <2> QED BY <1>5, <2>4, <2>5 DEF Acquire, TypeOK
  <1>6. CASE AcquireRejected(c)
    BY <1>6, GotoType DEF AcquireRejected, TypeOK, PC, journal
  <1>7. CASE Confirm(c)
    <2>1. lease.token \in Nat
      BY LeaseAssumption DEF TypeOK
    <2>2. token' \in [Coord -> Nat]
      BY <1>7, <2>1 DEF Confirm, TypeOK
    <2>3. pc' \in [Coord -> PC]
      BY <1>7, GotoType DEF Confirm, PC
    <2> QED BY <1>7, <2>2, <2>3, ReadJournalType DEF Confirm, TypeOK
  <1>8. CASE ConfirmBlocked(c)
    BY <1>8, GotoType DEF ConfirmBlocked, TypeOK, PC, journal
  <1> QED BY <1>1, <1>2, <1>3, <1>4, <1>5, <1>6, <1>7, <1>8 DEF Acquisition

LEMMA WorkType ==
  ASSUME TypeOK, NEW c \in Coord, Work(c)
  PROVE  TypeOK'
  <1> USE DEF Runs
  <1>1. CASE Renew(c)
    <2>1. PICK r \in Reading :
            AppendLease(c, [lease EXCEPT !.kind = "renewed"], TTL + r, r)
      BY <1>1 DEF Renew
    <2>2. r \in Int /\ TTL + r \in Int
      BY LeaseAssumption, ReadingInt
    <2>3. [lease EXCEPT !.kind = "renewed"]
            \in [kind : Kind, owner : Coord \cup {None}, token : 0..MaxToken]
      BY DEF Kind, TypeOK
    <2>4. /\ lease' \in [kind : Kind, owner : Coord \cup {None}, token : 0..MaxToken]
          /\ left' \in Int /\ since' \in Int
          /\ tail' \in Nat
          /\ current' \in SUBSET Coord /\ reported' \in SUBSET Nat
          /\ view' \in [Coord -> Lease]
          /\ vleft' \in [Coord -> Int]
      BY <2>1, <2>2, <2>3, AppendLeaseType
    <2> QED BY <1>1, <2>4 DEF Renew, TypeOK
  <1>2. CASE Admit(c)
    BY <1>2, GotoType DEF Admit, TypeOK, PC, journal
  <1>3. CASE Request(c)
    <2>1. PICK r \in Reading : AppendEvent(c, r)
      BY <1>3 DEF Request
    <2>2. pc' \in [Coord -> PC]
      BY <1>3, GotoType DEF Request, PC
    <2> QED BY <1>3, <2>1, <2>2, ReadingInt, AppendEventType DEF Request, TypeOK
  <1>4. CASE Recheck(c)
    BY <1>4, GotoType DEF Recheck, TypeOK, PC, journal
  <1>5. CASE Observe(c)
    <2>1. PICK r \in Reading : AppendEvent(c, r)
      BY <1>5 DEF Observe
    <2>2. pc' \in [Coord -> PC]
      BY <1>5, GotoType DEF Observe, PC
    <2> QED BY <1>5, <2>1, <2>2, ReadingInt, AppendEventType DEF Observe, TypeOK
  <1>6. CASE Finish(c)
    <2>1. PICK r \in Reading : AppendEvent(c, r)
      BY <1>6 DEF Finish
    <2> QED BY <1>6, <2>1, ReadingInt, AppendEventType DEF Finish, TypeOK
  <1>7. CASE Release(c)
    <2>1. PICK r \in Reading :
            AppendLease(c, [lease EXCEPT !.kind = "released"], r, r)
      BY <1>7 DEF Release
    <2>2. r \in Int
      BY ReadingInt
    <2>3. [lease EXCEPT !.kind = "released"]
            \in [kind : Kind, owner : Coord \cup {None}, token : 0..MaxToken]
      BY DEF Kind, TypeOK
    <2>4. pc' \in [Coord -> PC]
      BY <1>7, GotoType DEF Release, PC
    <2>5. /\ lease' \in [kind : Kind, owner : Coord \cup {None}, token : 0..MaxToken]
          /\ left' \in Int /\ since' \in Int
          /\ tail' \in Nat
          /\ current' \in SUBSET Coord /\ reported' \in SUBSET Nat
          /\ view' \in [Coord -> Lease]
          /\ vleft' \in [Coord -> Int]
      BY <2>1, <2>2, <2>3, AppendLeaseType
    <2> QED BY <1>7, <2>4, <2>5 DEF Release, TypeOK
  <1>8. CASE Stop(c)
    BY <1>8, GotoType DEF Stop, TypeOK, PC, journal
  <1> QED BY <1>1, <1>2, <1>3, <1>4, <1>5, <1>6, <1>7, <1>8 DEF Work

LEMMA EnvironmentType ==
  ASSUME TypeOK, Lost \/ Tick \/ \E c \in Coord : Environment(c)
  PROVE  TypeOK'
  <1>1. CASE Lost
    <2>1. lease' \in [kind : Kind, owner : Coord \cup {None}, token : 0..MaxToken]
      BY <1>1 DEF Lost, TypeOK, Kind
    <2>2. left' \in Int /\ since' \in Int
      BY <1>1, ReadingInt DEF Lost
    <2>3. tail' \in Nat /\ reported' \in SUBSET Nat
      BY <1>1, LeaseAssumption DEF Lost, TypeOK
    <2> QED BY <1>1, <2>1, <2>2, <2>3 DEF Lost, TypeOK
  <1>2. CASE Tick
    <2>1. vleft' \in [Coord -> Int]
      BY <1>2, LaterInt DEF Tick, TypeOK
    <2>2. left' \in Int /\ since' \in Int
      BY <1>2, LaterInt DEF Tick, TypeOK
    <2> QED BY <1>2, <2>1, <2>2 DEF Tick, TypeOK
  <1>3. ASSUME NEW c \in Coord, Environment(c) PROVE TypeOK'
    <2>1. CASE Die(c)
      BY <2>1, GotoType DEF Die, TypeOK, PC, journal
    <2>2. CASE ReusePid(c)
      BY <2>2 DEF ReusePid, TypeOK, journal
    <2>3. CASE FreePid(c)
      BY <2>3 DEF FreePid, TypeOK, journal
    <2> QED BY <1>3, <2>1, <2>2, <2>3 DEF Environment
  <1> QED BY <1>1, <1>2, <1>3

\* Every variable keeps its type in every behaviour.
THEOREM TypeCorrect == Spec => []TypeOK
  <1>1. TypeOK /\ [Next]_vars => TypeOK'
    <2> SUFFICES ASSUME TypeOK, [Next]_vars PROVE TypeOK'
      OBVIOUS
    <2>1. CASE UNCHANGED vars
      BY <2>1 DEF vars, journal, TypeOK
    <2>2. CASE Next
      BY <2>2, AcquisitionType, WorkType, EnvironmentType DEF Next
    <2> QED BY <2>1, <2>2
  <1> QED BY <1>1, TypeInit, PTL DEF Spec

------------------------------------------------------------------------------
(* Fencing.                                                                 *)

\* A cursor at the head shows the lease as it is.
CursorInv ==
  \A c \in current : view[c] = lease /\ vleft[c] = left

\* A coordinator at work whose cursor is at the head holds the latest token.
HolderInv ==
  \A c \in current : pc[c] \in Holder => token[c] = lease.token

\* Tokens do not run ahead of the lease, and the latest one is the owner's.
TokenInv ==
  /\ Active(lease) => lease.token # 0
  /\ \A c \in Coord :
       /\ token[c] <= lease.token
       /\ token[c] = lease.token /\ token[c] # 0 => lease.owner = c

FencingInv ==
  TypeOK /\ CursorInv /\ HolderInv /\ TokenInv /\ Fenced /\ TokensDistinct

LEMMA FencingInit == Init => FencingInv
  BY TypeInit
  DEF Init, FencingInv, CursorInv, HolderInv, TokenInv, Fenced, TokensDistinct,
      NoLease, Active

\* Steps that only move a coordinator between program points, or leave the
\* journal, the cursors and the tokens alone.
LEMMA QuietFencing ==
  ASSUME FencingInv, TypeOK',
         UNCHANGED <<journal, view, vleft, token>>,
         \A c \in Coord : pc'[c] \in Holder => pc[c] \in Holder
  PROVE  FencingInv'
  BY DEF FencingInv, CursorInv, HolderInv, TokenInv, Fenced, TokensDistinct,
         journal, Active, TypeOK

LEMMA EventFencing ==
  ASSUME FencingInv, TypeOK', NEW c \in Coord, NEW r \in Reading,
         AppendEvent(c, r), pc[c] \in Holder, UNCHANGED token
  PROVE  FencingInv'
  <1>1. c \in current /\ token[c] = lease.token
    BY DEF AppendEvent, Accepted, FencingInv, HolderInv
  <1>2. current' = {c} /\ tail' = token[c]
        /\ UNCHANGED <<lease, left, view, vleft>>
    BY DEF AppendEvent, Record
  <1> QED BY <1>1, <1>2
    DEF FencingInv, CursorInv, HolderInv, TokenInv, Fenced, TokensDistinct, Active

LEMMA LeaseFencing ==
  ASSUME FencingInv, TypeOK', NEW c \in Coord, NEW r \in Int, NEW e \in Int,
         NEW l \in [kind : Kind, owner : Coord \cup {None}, token : 0..MaxToken],
         AppendLease(c, l, e, r), UNCHANGED token,
         pc'[c] \in Holder => token[c] = l.token,
         l.token # 0,
         \/ l.token > lease.token
         \/ l.token = lease.token /\ l.owner = lease.owner
  PROVE  FencingInv'
  <1>1. /\ current' = {c} /\ tail' = l.token /\ lease' = l /\ left' = e
        /\ view'[c] = l /\ vleft'[c] = e
    BY DEF AppendLease, Record, FencingInv, TypeOK
  <1>2. lease.token \in Nat /\ l.token \in Nat /\ \A d \in Coord : token[d] \in Nat
    BY LeaseAssumption DEF FencingInv, TypeOK
  <1>3. CursorInv' /\ HolderInv' /\ Fenced'
    BY <1>1 DEF CursorInv, HolderInv, Fenced
  <1>4. TokenInv'
    BY <1>1, <1>2 DEF FencingInv, TokenInv, Active
  <1> QED BY <1>3, <1>4 DEF FencingInv, TokensDistinct

LEMMA AcquisitionFencing ==
  ASSUME FencingInv, TypeOK', NEW c \in Coord, Acquisition(c)
  PROVE  FencingInv'
  <1> USE DEF Runs, Goto
  <1>0. pc \in [Coord -> PC]
    BY DEF FencingInv, TypeOK
  <1>1. CASE Recover(c)
    <2>1. /\ current' = current \cup {c}
          /\ view' = [view EXCEPT ![c] = lease]
          /\ vleft' = [vleft EXCEPT ![c] = left]
          /\ pc' = [pc EXCEPT ![c] = "recovered"]
          /\ UNCHANGED <<lease, left, tail, token>>
      BY <1>1 DEF Recover, ReadJournal
    <2>2. CursorInv'
      BY <2>1 DEF FencingInv, CursorInv, TypeOK
    <2>3. HolderInv'
      BY <2>1, <1>0 DEF FencingInv, HolderInv, Holder, TypeOK
    <2> QED BY <2>1, <2>2, <2>3
      DEF FencingInv, TokenInv, Fenced, TokensDistinct, Active
  <1>2. CASE AcquiredAlready(c)
    BY <1>0, <1>2, QuietFencing DEF AcquiredAlready, Holder
  <1>3. CASE Probe(c)
    BY <1>0, <1>3, QuietFencing DEF Probe, Holder
  <1>4. CASE ProbeRejected(c)
    BY <1>0, <1>4, QuietFencing DEF ProbeRejected, Holder
  <1>5. CASE Acquire(c)
    <2> DEFINE l == [kind |-> "acquired", owner |-> c, token |-> NextToken(c)]
    <2>1. PICK r \in Reading : Accepted(c, r) /\ AppendLease(c, l, TTL + r, r)
      BY <1>5 DEF Acquire
    <2>2. view[c] = lease
      BY <2>1 DEF Accepted, FencingInv, CursorInv
    <2>3. lease.token \in Nat /\ l.token = lease.token + 1 /\ l.token \in 0..MaxToken
      BY <1>5, <2>2, LeaseAssumption DEF Acquire, FencingInv, TypeOK, NextToken
    <2>4. l \in [kind : Kind, owner : Coord \cup {None}, token : 0..MaxToken]
      BY <2>3 DEF Kind
    <2>5. r \in Int /\ TTL + r \in Int
      BY LeaseAssumption, ReadingInt
    <2>6. pc'[c] \notin Holder /\ UNCHANGED token
      BY <1>0, <1>5 DEF Acquire, Holder
    <2>7. l.token > lease.token /\ l.token # 0
      BY <2>3
    <2> HIDE DEF l
    <2> QED BY <2>1, <2>4, <2>5, <2>6, <2>7, LeaseFencing
  <1>6. CASE AcquireRejected(c)
    BY <1>0, <1>6, QuietFencing DEF AcquireRejected, Holder
  <1>8. CASE ConfirmBlocked(c)
    BY <1>0, <1>8, QuietFencing DEF ConfirmBlocked, Holder
  <1>7. CASE Confirm(c)
    <2>1. /\ current' = current \cup {c}
          /\ view' = [view EXCEPT ![c] = lease]
          /\ vleft' = [vleft EXCEPT ![c] = left]
          /\ UNCHANGED <<lease, left, tail>>
      BY <1>7 DEF Confirm, ReadJournal
    <2>2. CursorInv' /\ Fenced'
      BY <2>1 DEF FencingInv, CursorInv, TypeOK, Fenced
    <2>3. CASE Holds(c)
      <3>1. pc' = [pc EXCEPT ![c] = "holding"] /\ token' = [token EXCEPT ![c] = lease.token]
        BY <1>7, <2>3 DEF Confirm
      <3>2. lease.token \in Nat /\ token \in [Coord -> Nat]
        BY LeaseAssumption DEF FencingInv, TypeOK
      <3>3. HolderInv'
        BY <1>0, <2>1, <3>1, <3>2 DEF FencingInv, HolderInv, TypeOK
      <3>4. TokenInv'
        BY <2>1, <2>3, <3>1, <3>2 DEF FencingInv, TokenInv, Holds, Active
      <3>5. TokensDistinct'
        BY <2>1, <2>3, <3>1, <3>2 DEF FencingInv, TokenInv, TokensDistinct, Holds
      <3> QED BY <2>2, <3>3, <3>4, <3>5 DEF FencingInv
    <2>4. CASE ~Holds(c)
      <3>1. pc' = [pc EXCEPT ![c] = "idle"] /\ UNCHANGED token
        BY <1>7, <2>4 DEF Confirm
      <3>2. HolderInv'
        BY <1>0, <2>1, <3>1 DEF FencingInv, HolderInv, Holder, TypeOK
      <3> QED BY <2>1, <2>2, <3>1, <3>2
        DEF FencingInv, TokenInv, TokensDistinct, Active
    <2> QED BY <2>3, <2>4
  <1> QED BY <1>1, <1>2, <1>3, <1>4, <1>5, <1>6, <1>7, <1>8 DEF Acquisition

LEMMA WorkFencing ==
  ASSUME FencingInv, TypeOK', NEW c \in Coord, Work(c)
  PROVE  FencingInv'
  <1> USE DEF Runs, Goto
  <1>0. pc \in [Coord -> PC]
    BY DEF FencingInv, TypeOK
  <1>1. CASE Renew(c)
    <2> DEFINE l == [lease EXCEPT !.kind = "renewed"]
    <2>1. PICK r \in Reading : Accepted(c, r) /\ AppendLease(c, l, TTL + r, r)
      BY <1>1 DEF Renew
    <2>2. l \in [kind : Kind, owner : Coord \cup {None}, token : 0..MaxToken]
          /\ l.token = lease.token /\ l.owner = lease.owner
      BY DEF FencingInv, TypeOK, Kind
    <2>3. r \in Int /\ TTL + r \in Int
      BY LeaseAssumption, ReadingInt
    <2>4. token[c] = lease.token /\ lease.token # 0 /\ UNCHANGED token
      BY <1>1, <2>1 DEF Renew, Accepted, FencingInv, HolderInv, TokenInv, Holds, Holder
    <2> HIDE DEF l
    <2> QED BY <2>1, <2>2, <2>3, <2>4, LeaseFencing
  <1>2. CASE Admit(c)
    BY <1>0, <1>2, QuietFencing DEF Admit, Holder
  <1>3. CASE Request(c)
    <2>1. PICK r \in Reading : AppendEvent(c, r)
      BY <1>3 DEF Request
    <2>2. pc[c] \in Holder /\ UNCHANGED token
      BY <1>3 DEF Request, Holder
    <2> QED BY <2>1, <2>2, EventFencing
  <1>4. CASE Recheck(c)
    BY <1>0, <1>4, QuietFencing DEF Recheck, Holder
  <1>5. CASE Observe(c)
    <2>1. PICK r \in Reading : AppendEvent(c, r)
      BY <1>5 DEF Observe
    <2>2. pc[c] \in Holder /\ UNCHANGED token
      BY <1>5 DEF Observe, Holder
    <2> QED BY <2>1, <2>2, EventFencing
  <1>6. CASE Finish(c)
    <2>1. PICK r \in Reading : AppendEvent(c, r)
      BY <1>6 DEF Finish
    <2>2. pc[c] \in Holder /\ UNCHANGED token
      BY <1>6 DEF Finish, Holder
    <2> QED BY <2>1, <2>2, EventFencing
  <1>7. CASE Release(c)
    <2> DEFINE l == [lease EXCEPT !.kind = "released"]
    <2>1. PICK r \in Reading : AppendLease(c, l, r, r)
      BY <1>7 DEF Release
    <2>2. l \in [kind : Kind, owner : Coord \cup {None}, token : 0..MaxToken]
          /\ l.token = lease.token /\ l.owner = lease.owner
      BY DEF FencingInv, TypeOK, Kind
    <2>3. r \in Int
      BY ReadingInt
    <2>4. lease.token # 0 /\ pc'[c] \notin Holder /\ UNCHANGED token
      BY <1>0, <1>7 DEF Release, FencingInv, TokenInv, Holds, Holder
    <2> HIDE DEF l
    <2> QED BY <2>1, <2>2, <2>3, <2>4, LeaseFencing
  <1>8. CASE Stop(c)
    BY <1>0, <1>8, QuietFencing DEF Stop, Holder
  <1> QED BY <1>1, <1>2, <1>3, <1>4, <1>5, <1>6, <1>7, <1>8 DEF Work

LEMMA EnvironmentFencing ==
  ASSUME FencingInv, TypeOK', Lost \/ Tick \/ \E c \in Coord : Environment(c)
  PROVE  FencingInv'
  <1>1. CASE Lost
    <2>1. /\ lease' = [lease EXCEPT !.kind = "lost"] /\ current' = {}
          /\ tail' = lease.token
          /\ UNCHANGED token
      BY <1>1 DEF Lost
    <2>2. lease'.kind = "lost" /\ lease'.token = lease.token /\ lease'.owner = lease.owner
      BY <2>1 DEF FencingInv, TypeOK
    <2> QED BY <2>1, <2>2
      DEF FencingInv, CursorInv, HolderInv, TokenInv, Fenced, TokensDistinct, Active
  <1>2. CASE Tick
    <2>1. \A c \in Coord : vleft[c] = left => vleft'[c] = left'
      BY <1>2 DEF Tick, FencingInv, TypeOK
    <2> QED BY <1>2, <2>1
      DEF Tick, FencingInv, CursorInv, HolderInv, TokenInv, Fenced, TokensDistinct,
          Active, TypeOK
  <1>3. ASSUME NEW c \in Coord, Environment(c) PROVE FencingInv'
    <2>0. pc \in [Coord -> PC]
      BY DEF FencingInv, TypeOK
    <2>1. CASE Die(c)
      BY <2>0, <2>1, QuietFencing DEF Die, Goto, Holder
    <2>2. CASE ReusePid(c)
      BY <2>2, QuietFencing DEF ReusePid
    <2>3. CASE FreePid(c)
      BY <2>3, QuietFencing DEF FreePid
    <2> QED BY <1>3, <2>1, <2>2, <2>3 DEF Environment
  <1> QED BY <1>1, <1>2, <1>3

LEMMA FencingStep == FencingInv /\ TypeOK' /\ [Next]_vars => FencingInv'
  <1> SUFFICES ASSUME FencingInv, TypeOK', [Next]_vars PROVE FencingInv'
    OBVIOUS
  <1>1. CASE UNCHANGED vars
    BY <1>1, QuietFencing DEF vars
  <1>2. CASE Next
    BY <1>2, AcquisitionFencing, WorkFencing, EnvironmentFencing DEF Next
  <1> QED BY <1>1, <1>2

THEOREM FencingInvariant == Spec => []FencingInv
  BY TypeCorrect, FencingInit, FencingStep, PTL DEF Spec

\* A coordinator that was superseded adds nothing to the journal, whatever the
\* clocks and the process probe say.
THEOREM FencedAlways == Spec => []Fenced
  <1>1. FencingInv => Fenced
    BY DEF FencingInv
  <1> QED BY <1>1, FencingInvariant, PTL

\* No two coordinators ever work under the same fencing token.
THEOREM TokensDistinctAlways == Spec => []TokensDistinct
  <1>1. FencingInv => TokensDistinct
    BY DEF FencingInv
  <1> QED BY <1>1, FencingInvariant, PTL

------------------------------------------------------------------------------
(* Exclusive effects: with a process probe that is never wrong about a live *)
(* process, and no recovery actor that reports a live lease lost.           *)

\* A contender that went past the probe saw the owner's process gone, and it
\* does not come back; a coordinator in an effect is a live process.
ProbedInv ==
  \A c \in Coord :
    /\ pc[c] = "probed" /\ Active(view[c]) /\ view[c].owner # c
         => proc[view[c].owner] # "alive"
    /\ pc[c] = "effect" => proc[c] = "alive"

ExclusiveInv == FencingInv /\ ProbedInv /\ EffectsExclusive

LEMMA ExclusiveInit == Init => ExclusiveInv
  BY FencingInit DEF Init, ExclusiveInv, ProbedInv, EffectsExclusive

LEMMA ExclusiveStep ==
  ASSUME ~ProbeErrs, ~LossReports
  PROVE  ExclusiveInv /\ FencingInv' /\ [Next]_vars => ExclusiveInv'
  <1> SUFFICES ASSUME ExclusiveInv, FencingInv', [Next]_vars
               PROVE  ProbedInv' /\ EffectsExclusive'
    BY DEF ExclusiveInv
  <1>0. /\ pc \in [Coord -> PC] /\ proc \in [Coord -> {"alive", "dead", "reused", "gone"}]
        /\ view \in [Coord -> Lease] /\ token \in [Coord -> Nat]
        /\ lease \in [kind : Kind, owner : Coord \cup {None}, token : 0..MaxToken]
        /\ lease.token \in Nat
    BY LeaseAssumption DEF ExclusiveInv, FencingInv, TypeOK
  <1>1. ASSUME NEW c \in Coord, Recover(c) PROVE ProbedInv' /\ EffectsExclusive'
    BY <1>0, <1>1 DEF Recover, ReadJournal, Goto, ExclusiveInv, ProbedInv,
                      EffectsExclusive, Holds, Active
  <1>2. ASSUME NEW c \in Coord, AcquiredAlready(c) \/ ProbeRejected(c) \/ AcquireRejected(c)
                               \/ ConfirmBlocked(c)
        PROVE  ProbedInv' /\ EffectsExclusive'
    BY <1>0, <1>2 DEF AcquiredAlready, ProbeRejected, AcquireRejected,
      ConfirmBlocked, journal, Goto,
                      ExclusiveInv, ProbedInv, EffectsExclusive, Holds, Active
  <1>3. ASSUME NEW c \in Coord, Probe(c) PROVE ProbedInv' /\ EffectsExclusive'
    <2>1. pc' = [pc EXCEPT ![c] = "probed"] /\ UNCHANGED <<lease, view, token, proc>>
      BY <1>3 DEF Probe, Goto, journal
    <2>2. Active(view[c]) /\ view[c].owner # c => proc[view[c].owner] # "alive"
      BY <1>3 DEF Probe, SeemsDead
    <2> QED BY <1>0, <2>1, <2>2
      DEF ExclusiveInv, ProbedInv, EffectsExclusive, Holds, Active
  <1>4. ASSUME NEW c \in Coord, Acquire(c) PROVE ProbedInv' /\ EffectsExclusive'
    <2>1. PICK r \in Reading :
            /\ Accepted(c, r)
            /\ AppendLease(c, [kind |-> "acquired", owner |-> c, token |-> NextToken(c)],
                           TTL + r, r)
      BY <1>4 DEF Acquire
    <2>2. view[c] = lease
      BY <2>1 DEF Accepted, ExclusiveInv, FencingInv, CursorInv
    <2>3. pc[c] = "probed" /\ pc' = [pc EXCEPT ![c] = "confirm"]
          /\ UNCHANGED <<proc, token>>
      BY <1>4 DEF Acquire, Runs, Goto
    <2>4. \A d \in Coord : pc[d] # "effect"
      BY <2>2, <2>3 DEF ExclusiveInv, ProbedInv, EffectsExclusive, Holds
    <2>5. \A d \in Coord : d # c => view'[d] = view[d]
      BY <1>0, <2>1 DEF AppendLease
    <2> QED BY <1>0, <2>3, <2>4, <2>5 DEF ExclusiveInv, ProbedInv, EffectsExclusive
  <1>5. ASSUME NEW c \in Coord, Confirm(c) PROVE ProbedInv' /\ EffectsExclusive'
    <2>1. /\ view' = [view EXCEPT ![c] = lease] /\ UNCHANGED <<lease, proc>>
          /\ pc[c] = "confirm"
      BY <1>5 DEF Confirm, ReadJournal, Runs
    <2>2. \/ pc' = [pc EXCEPT ![c] = "holding"]
          \/ pc' = [pc EXCEPT ![c] = "idle"]
      BY <1>5 DEF Confirm, Goto
    <2>3. \A d \in Coord : d # c => token'[d] = token[d]
      BY <1>0, <1>5 DEF Confirm
    <2>4. ProbedInv'
      BY <1>0, <2>1, <2>2 DEF ExclusiveInv, ProbedInv
    <2>5. EffectsExclusive'
      BY <1>0, <2>1, <2>2, <2>3 DEF ExclusiveInv, EffectsExclusive, Holds
    <2> QED BY <2>4, <2>5
  <1>6. ASSUME NEW c \in Coord, Renew(c) PROVE ProbedInv' /\ EffectsExclusive'
    <2>1. PICK r \in Reading : AppendLease(c, [lease EXCEPT !.kind = "renewed"], TTL + r, r)
      BY <1>6 DEF Renew
    <2>2. /\ lease'.kind = "renewed" /\ lease'.owner = lease.owner
          /\ lease'.token = lease.token
          /\ \A d \in Coord : d # c => view'[d] = view[d]
      BY <1>0, <2>1 DEF AppendLease
    <2>3. pc[c] # "probed" /\ UNCHANGED <<pc, proc, token>>
      BY <1>6 DEF Renew, Runs
    <2> QED BY <1>0, <2>2, <2>3
      DEF ExclusiveInv, ProbedInv, EffectsExclusive, Holds, Active
  <1>7. ASSUME NEW c \in Coord, Admit(c) \/ Stop(c) PROVE ProbedInv' /\ EffectsExclusive'
    BY <1>0, <1>7 DEF Admit, Stop, journal, Goto, ExclusiveInv, ProbedInv,
                      EffectsExclusive, Holds, Active
  <1>8. ASSUME NEW c \in Coord, Request(c) \/ Observe(c) \/ Finish(c)
        PROVE  ProbedInv' /\ EffectsExclusive'
    <2>1. UNCHANGED <<lease, view, token, proc>>
      BY <1>8 DEF Request, Observe, Finish, AppendEvent
    <2>2. \/ UNCHANGED pc
          \/ pc' = [pc EXCEPT ![c] = "requested"]
          \/ pc' = [pc EXCEPT ![c] = "holding"]
      BY <1>8 DEF Request, Observe, Finish, Goto
    <2> QED BY <1>0, <2>1, <2>2
      DEF ExclusiveInv, ProbedInv, EffectsExclusive, Holds, Active
  <1>9. ASSUME NEW c \in Coord, Recheck(c) PROVE ProbedInv' /\ EffectsExclusive'
    <2>1. /\ proc[c] = "alive" /\ pc' = [pc EXCEPT ![c] = "effect"]
          /\ UNCHANGED <<lease, view, token, proc>>
          /\ Holds(c) /\ lease.token = token[c]
      BY <1>9 DEF Recheck, Runs, Goto, journal, AllowsAdmission, Holds
    <2> QED BY <1>0, <2>1
      DEF ExclusiveInv, ProbedInv, EffectsExclusive, Holds, Active
  <1>10. ASSUME NEW c \in Coord, Release(c) PROVE ProbedInv' /\ EffectsExclusive'
    <2>1. PICK r \in Reading : AppendLease(c, [lease EXCEPT !.kind = "released"], r, r)
      BY <1>10 DEF Release
    <2>2. Holds(c) /\ pc[c] = "holding" /\ pc' = [pc EXCEPT ![c] = "done"]
          /\ UNCHANGED <<proc, token>>
      BY <1>10 DEF Release, Runs, Goto
    <2>3. \A d \in Coord : pc[d] # "effect"
      BY <2>2 DEF ExclusiveInv, EffectsExclusive, Holds
    <2>4. \A d \in Coord : d # c => view'[d] = view[d]
      BY <1>0, <2>1 DEF AppendLease
    <2> QED BY <1>0, <2>2, <2>3, <2>4 DEF ExclusiveInv, ProbedInv, EffectsExclusive
  <1>11. ASSUME NEW c \in Coord, Die(c) PROVE ProbedInv' /\ EffectsExclusive'
    BY <1>0, <1>11 DEF Die, Goto, journal, ExclusiveInv, ProbedInv, EffectsExclusive,
                       Holds, Active, Lease
  <1>12. ASSUME NEW c \in Coord, ReusePid(c) \/ FreePid(c)
         PROVE  ProbedInv' /\ EffectsExclusive'
    <2>1. /\ proc[c] # "alive" /\ UNCHANGED <<lease, view, token, pc>>
          /\ \E s \in {"reused", "gone"} : proc' = [proc EXCEPT ![c] = s]
      BY <1>12 DEF ReusePid, FreePid, journal
    <2>2. \A o : proc[o] # "alive" => proc'[o] # "alive"
      BY <1>0, <2>1
    <2>3. \A d \in Coord : proc[d] = "alive" => proc'[d] = "alive"
      BY <1>0, <2>1
    <2> QED BY <1>0, <2>1, <2>2, <2>3
      DEF ExclusiveInv, ProbedInv, EffectsExclusive, Holds, Active
  <1>13. CASE Tick
    BY <1>13 DEF Tick, ExclusiveInv, ProbedInv, EffectsExclusive, Holds, Active
  <1>14. CASE Lost
    BY <1>14 DEF Lost
  <1>15. CASE UNCHANGED vars
    BY <1>15 DEF vars, journal, ExclusiveInv, ProbedInv, EffectsExclusive, Holds, Active
  <1> QED BY <1>1, <1>2, <1>3, <1>4, <1>5, <1>6, <1>7, <1>8, <1>9, <1>10, <1>11, <1>12,
             <1>13, <1>14, <1>15 DEF Next, Acquisition, Work, Environment

\* While a coordinator calls a provider the lease in the journal is its own,
\* even if it was suspended in the call until long after the lease expired.
THEOREM EffectsExclusiveAlways ==
  ASSUME ~ProbeErrs, ~LossReports
  PROVE  Spec => []EffectsExclusive
  <1>1. ExclusiveInv /\ FencingInv' /\ [Next]_vars => ExclusiveInv'
    BY ExclusiveStep
  <1>2. ExclusiveInv => EffectsExclusive
    BY DEF ExclusiveInv
  <1> QED BY <1>1, <1>2, ExclusiveInit, FencingInvariant, PTL DEF Spec

------------------------------------------------------------------------------
(* The admission and the takeover window: clocks within the agreed skew.    *)

\* A coordinator at work whose lease was not reported lost sees it as the journal
\* has it, or it was superseded and its own lease has run out.
WindowInv ==
  \A c \in Coord :
    pc[c] \in Holder /\ token[c] \notin reported =>
      IF token[c] = lease.token
      THEN Active(lease) /\ view[c] = lease /\ vleft[c] = left
      ELSE vleft[c] <= 0

LEMMA WindowInit == Init => WindowInv
  BY DEF Init, WindowInv, Holder

LEMMA QuietWindow ==
  ASSUME WindowInv,
         UNCHANGED <<lease, left, reported, view, vleft, token>>,
         \A c \in Coord : pc'[c] \in Holder => pc[c] \in Holder
  PROVE  WindowInv'
  BY DEF WindowInv, Active

LEMMA WindowStep ==
  ASSUME Drift <= Skew
  PROVE  FencingInv /\ FencingInv' /\ WindowInv /\ [Next]_vars => WindowInv'
  <1> SUFFICES ASSUME FencingInv, FencingInv', WindowInv, [Next]_vars
               PROVE  WindowInv'
    OBVIOUS
  <1>0. /\ pc \in [Coord -> PC] /\ view \in [Coord -> Lease] /\ token \in [Coord -> Nat]
        /\ vleft \in [Coord -> Int] /\ left \in Int
        /\ lease \in [kind : Kind, owner : Coord \cup {None}, token : 0..MaxToken]
        /\ lease.token \in Nat
    BY LeaseAssumption DEF FencingInv, TypeOK
  <1>1. ASSUME NEW c \in Coord, Recover(c) PROVE WindowInv'
    <2>1. /\ UNCHANGED <<lease, left, reported, token>> /\ pc' = [pc EXCEPT ![c] = "recovered"]
          /\ \A d \in Coord : d # c => view'[d] = view[d] /\ vleft'[d] = vleft[d]
      BY <1>0, <1>1 DEF Recover, ReadJournal, Goto
    <2> QED BY <1>0, <2>1 DEF WindowInv, Holder, Active
  <1>2. ASSUME NEW c \in Coord,
               \/ AcquiredAlready(c) \/ Probe(c) \/ ProbeRejected(c) \/ AcquireRejected(c)
               \/ ConfirmBlocked(c) \/ Admit(c) \/ Recheck(c) \/ Stop(c) \/ Environment(c)
        PROVE  WindowInv'
    <2>1. UNCHANGED <<lease, left, reported, view, vleft, token>>
      BY <1>2 DEF AcquiredAlready, Probe, ProbeRejected, AcquireRejected,
         ConfirmBlocked, Admit, Recheck,
                  Stop, Environment, Die, ReusePid, FreePid, journal
    <2>2. \A d \in Coord : pc'[d] \in Holder => pc[d] \in Holder
      BY <1>0, <1>2
      DEF AcquiredAlready, Probe, ProbeRejected, AcquireRejected,
         ConfirmBlocked, Admit, Recheck, Stop,
          Environment, Die, ReusePid, FreePid, Runs, Goto, Holder
    <2> QED BY <2>1, <2>2, QuietWindow
  <1>3. ASSUME NEW c \in Coord, Acquire(c) PROVE WindowInv'
    <2>1. PICK r \in Reading :
            /\ Accepted(c, r)
            /\ Active(view[c]) => TakeoverDue(vleft[c], r)
            /\ AppendLease(c, [kind |-> "acquired", owner |-> c, token |-> NextToken(c)],
                           TTL + r, r)
      BY <1>3 DEF Acquire
    <2>2. view[c] = lease /\ vleft[c] = left
      BY <2>1 DEF Accepted, FencingInv, CursorInv
    <2>3. Active(lease) => left <= 0
      BY <1>0, <2>1, <2>2, LeaseAssumption DEF TakeoverDue, Reading
    <2>4. lease'.token = lease.token + 1
      BY <1>0, <2>1, <2>2 DEF AppendLease, NextToken
    <2>5. /\ UNCHANGED <<token, reported>> /\ pc' = [pc EXCEPT ![c] = "confirm"]
          /\ \A d \in Coord : d # c => vleft'[d] = vleft[d]
      BY <1>0, <1>3, <2>1 DEF Acquire, Goto, AppendLease, Record
    <2>6. \A d \in Coord : token[d] < lease'.token
      BY <1>0, <2>4 DEF FencingInv, TokenInv
    <2>7. ASSUME NEW d \in Coord, pc'[d] \in Holder, token'[d] \notin reported'
          PROVE  vleft'[d] <= 0
      <3>1. /\ d # c /\ pc[d] \in Holder /\ vleft'[d] = vleft[d]
            /\ token[d] \notin reported
        BY <1>0, <2>5, <2>7 DEF Holder
      <3> QED BY <1>0, <2>3, <3>1 DEF WindowInv
    <2>8. \A d \in Coord : token'[d] # lease'.token
      BY <1>0, <2>4, <2>5, <2>6
    <2> QED BY <2>7, <2>8 DEF WindowInv
  <1>4. ASSUME NEW c \in Coord, Confirm(c) PROVE WindowInv'
    <2>1. /\ UNCHANGED <<lease, left, reported>>
          /\ view'[c] = lease /\ vleft'[c] = left
          /\ \A d \in Coord : d # c =>
               view'[d] = view[d] /\ vleft'[d] = vleft[d] /\ token'[d] = token[d]
                 /\ pc'[d] = pc[d]
      BY <1>0, <1>4 DEF Confirm, ReadJournal, Goto
    <2>2. pc'[c] \in Holder => Active(lease) /\ token'[c] = lease.token
      BY <1>0, <1>4 DEF Confirm, Goto, Holds, Holder
    <2> QED BY <2>1, <2>2 DEF WindowInv, Active
  <1>5. ASSUME NEW c \in Coord, Renew(c) \/ Release(c) PROVE WindowInv'
    <2>1. PICK l, e, r :
            /\ AppendLease(c, l, e, r)
            /\ l.token = lease.token
            /\ pc'[c] \in Holder => Active(l)
      <3>1. CASE Renew(c)
        <4>1. PICK r \in Reading :
                AppendLease(c, [lease EXCEPT !.kind = "renewed"], TTL + r, r)
          BY <3>1 DEF Renew
        <4>2. /\ [lease EXCEPT !.kind = "renewed"].token = lease.token
              /\ Active([lease EXCEPT !.kind = "renewed"])
          BY <1>0 DEF Active
        <4> QED BY <4>1, <4>2
      <3>2. CASE Release(c)
        <4>1. PICK r \in Reading :
                AppendLease(c, [lease EXCEPT !.kind = "released"], r, r)
          BY <3>2 DEF Release
        <4>2. [lease EXCEPT !.kind = "released"].token = lease.token
          BY <1>0
        <4>3. pc'[c] \notin Holder
          BY <1>0, <3>2 DEF Release, Goto, Holder
        <4> QED BY <4>1, <4>2, <4>3
      <3> QED BY <1>5, <3>1, <3>2
    <2>2. /\ lease' = l /\ left' = e /\ view'[c] = l /\ vleft'[c] = e
          /\ \A d \in Coord : d # c => view'[d] = view[d] /\ vleft'[d] = vleft[d]
      BY <1>0, <2>1 DEF AppendLease
    <2>3. /\ Holds(c) /\ UNCHANGED <<token, reported>>
          /\ \A d \in Coord : d # c => pc'[d] = pc[d]
      BY <1>0, <1>5, <2>1 DEF Renew, Release, Goto, AppendLease, Record
    <2>4. \A d \in Coord : d # c => token[d] # lease.token
      BY <2>3 DEF FencingInv, TokenInv, Holds
    <2>5. pc'[c] \in Holder => token[c] = lease.token
      <3>1. c \in current /\ pc[c] \in Holder
        BY <1>5 DEF Renew, Release, Accepted, Runs, Holder
      <3> QED BY <3>1 DEF FencingInv, HolderInv
    <2> QED BY <2>1, <2>2, <2>3, <2>4, <2>5 DEF WindowInv
  <1>6. ASSUME NEW c \in Coord, Request(c) \/ Observe(c) \/ Finish(c) PROVE WindowInv'
    <2>1. UNCHANGED <<lease, left, reported, view, vleft, token>>
      BY <1>6 DEF Request, Observe, Finish, AppendEvent, Record
    <2>2. \A d \in Coord : pc'[d] \in Holder => pc[d] \in Holder
      BY <1>0, <1>6 DEF Request, Observe, Finish, Runs, Goto, Holder
    <2> QED BY <2>1, <2>2, QuietWindow
  <1>7. CASE Tick
    <2>1. \A d \in Coord : /\ vleft[d] = left => vleft'[d] = left'
                           /\ vleft[d] <= 0 => vleft'[d] <= 0
      BY <1>0, <1>7 DEF Tick, Later
    <2>2. UNCHANGED <<lease, reported, view, token, pc>>
      BY <1>7 DEF Tick
    <2> QED BY <2>1, <2>2 DEF WindowInv, Active
  <1>8. CASE Lost
    <2>1. /\ UNCHANGED <<pc, view, vleft, token>>
          /\ lease'.token = lease.token
          /\ reported' = reported \cup {lease.token}
      BY <1>0, <1>8 DEF Lost
    <2> QED BY <2>1 DEF WindowInv
  <1>9. CASE UNCHANGED vars
    BY <1>9, QuietWindow DEF vars, journal
  <1> QED BY <1>1, <1>2, <1>3, <1>4, <1>5, <1>6, <1>7, <1>8, <1>9
          DEF Next, Acquisition, Work

\* A coordinator that passes its admission check has not been superseded.
LEMMA AdmitUnsuperseded ==
  ASSUME Drift <= Skew, TypeOK, WindowInv, [Next]_vars,
         NEW c \in Coord, pc[c] = "holding", pc'[c] = "admitted"
  PROVE  lease.token = token[c] \/ token[c] \in reported
  <1>0. pc \in [Coord -> PC] /\ vleft \in [Coord -> Int]
    BY DEF TypeOK
  <1>1. Admit(c)
    <2>1. CASE UNCHANGED vars
      BY <2>1 DEF vars
    <2>2. CASE Lost \/ Tick
      BY <2>2 DEF Lost, Tick
    <2>3. ASSUME NEW d \in Coord, Acquisition(d) PROVE FALSE
      BY <1>0, <2>3
      DEF Acquisition, Recover, AcquiredAlready, Probe, ProbeRejected, Acquire,
          AcquireRejected, Confirm, ConfirmBlocked, Goto
    <2>4. ASSUME NEW d \in Coord, Environment(d) PROVE FALSE
      BY <1>0, <2>4 DEF Environment, Die, ReusePid, FreePid, Goto
    <2>5. ASSUME NEW d \in Coord, Work(d) PROVE d = c /\ Admit(d)
      BY <1>0, <2>5
      DEF Work, Renew, Admit, Request, Recheck, Observe, Finish, Release, Stop, Goto
    <2> QED BY <2>1, <2>2, <2>3, <2>4, <2>5 DEF Next
  <1>2. \E r \in Reading : r < vleft[c] - Skew
    BY <1>1 DEF Admit, AllowsAdmission, Safe
  <1>3. vleft[c] > 0
    BY <1>0, <1>2, LeaseAssumption DEF Reading
  <1> QED BY <1>0, <1>3 DEF WindowInv, Holder

\* Even if a live holder is taken for dead, nobody is admitted to dispatch who
\* has been superseded, when every clock is within the agreed skew and nobody
\* reported the lease lost.
THEOREM AdmittedUnsupersededAlways ==
  ASSUME Drift <= Skew
  PROVE  Spec => AdmittedUnsuperseded
  <1>1. FencingInv /\ FencingInv' /\ WindowInv /\ [Next]_vars => WindowInv'
    BY WindowStep
  <1>2. TypeOK /\ WindowInv /\ [Next]_vars =>
          [\A c \in Coord : pc[c] = "holding" /\ pc'[c] = "admitted" =>
                              lease.token = token[c] \/ token[c] \in reported]_vars
    BY AdmitUnsuperseded
  <1>3. FencingInv => TypeOK
    BY DEF FencingInv
  <1> QED BY <1>1, <1>2, <1>3, WindowInit, FencingInvariant, PTL
          DEF Spec, AdmittedUnsuperseded
=============================================================================
