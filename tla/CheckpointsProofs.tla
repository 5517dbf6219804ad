-------------------------- MODULE CheckpointsProofs --------------------------
(***************************************************************************)
(* Theorems about Checkpoints, for any number of starts, events, crashes,  *)
(* power losses and losses of an event: a replay from a checkpoint         *)
(* recovers what a replay from the first event would, an alarm is          *)
(* justified, and the pointer names a whole object, but for an object that *)
(* was taken before it was durable or moved away from under the pointer.   *)
(***************************************************************************)
EXTENDS Checkpoints, SequenceTheorems, TLAPS

------------------------------------------------------------------------------
(* The inductive invariant.                                                 *)

Checkpoint == {c \in Content : c.through # <<>>}

\* Program points at which an object of the process is open or named, ...
Writing == {"write", "sync", "settle", "point", "pointed"}

\* ... and those at which it found an object in place.
Meeting == {"compare", "displace", "recreate"}

PC == {"down", "object", "scan", "up", "observe", "create"} \cup Writing \cup Meeting

TypeOK ==
  /\ events \in Seq(Id) /\ written \in 0..MaxEvents /\ synced \in 0..Len(events)
  /\ nextSegment \in BOOLEAN /\ sealedOpen \in BOOLEAN
  /\ objects \in [Id -> File \cup {None}]
  /\ current \in Checkpoint \cup {None} /\ maybe \subseteq Checkpoint \cup {None}
  /\ pc \in [Proc -> PC]
  /\ read \in [Proc -> Checkpoint \cup {None}] /\ mine \in [Proc -> Checkpoint \cup {None}]
  /\ found \in [Proc -> {"absent", "loaded", "discarded"}]
  /\ snap \in [Proc -> Seq(Id)]

\* Who looks for an object has a pointer, who publishes has a checkpoint, and who has
\* just appended knows an event.
HandsInv ==
  \A p \in Proc :
    /\ pc[p] = "object" => read[p] # None
    /\ found[p] = "loaded" => read[p] # None
    /\ pc[p] \in {"create"} \cup Writing \cup Meeting => mine[p] # None
    /\ pc[p] = "observe" => snap[p] # <<>>

\* Every checkpoint that some file or process names.
Contents ==
  ({current} \cup maybe \cup {read[p] : p \in Proc} \cup {mine[p] : p \in Proc}) \ {None}

\* An event that cannot go unnoticed: it is durable, or a history names it, or will
\* if a power loss takes it, behind a frame of a sealed segment.
Safe == IF sealedOpen THEN Len(events) ELSE synced

Durable(k) == k \in lost \cup adopted \cup {events[i] : i \in 1..Safe}

\* Where c and the journal share an event, they share all events before it.
Agrees(c) ==
  \A i \in DOMAIN c.through, j \in DOMAIN events :
    c.through[i] = events[j] => i = j /\ \A k \in 1..i : c.through[k] = events[k]

ChainInv ==
  /\ \A i \in DOMAIN events : events[i] <= written
  /\ \A i, j \in DOMAIN events : events[i] = events[j] => i = j
  /\ \A c \in Contents :
       /\ \A i \in DOMAIN c.through : c.through[i] <= written /\ Durable(c.through[i])
       /\ Agrees(c)
  /\ \A p \in Proc :
       pc[p] = "observe" => \A i \in DOMAIN snap[p] : Durable(snap[p][i])

\* The object of a checkpoint that the pointer names, or may name after a power loss,
\* is durable, and that of a checkpoint being published is as far as its publisher is;
\* unless it was taken before it was durable, or moved away.
Excused == taken \cup moved

Settled(c) ==
  LET o == objects[Key(c)] IN
  o # None /\ o.content = c /\ o.whole /\ o.data /\ o.entry

Publishes(p) ==
  LET o == objects[Key(mine[p])] IN
  /\ o # None /\ o.content = mine[p]
  /\ pc[p] \in {"write", "sync"} => o.by = p
  /\ pc[p] # "write" => o.whole
  /\ pc[p] \in {"settle", "point", "pointed"} => o.data
  /\ pc[p] \in {"point", "pointed"} => o.entry

PointerInv ==
  /\ \A c \in ({current} \cup maybe) \ {None} : Settled(c) \/ Key(c) \in Excused
  /\ \A p \in Proc : pc[p] \in Writing => Publishes(p) \/ Key(mine[p]) \in Excused

IInv == TypeOK /\ HandsInv /\ ChainInv /\ AlarmsJustified /\ PointerInv

------------------------------------------------------------------------------
(* Checkpoints and the journal.                                             *)

\* The event of a checkpoint.
LEMMA KeyType ==
  ASSUME NEW c \in Checkpoint
  PROVE  /\ c.through \in Seq(Id) /\ Len(c.through) \in Nat \ {0}
         /\ DOMAIN c.through = 1..Len(c.through) /\ Len(c.through) \in DOMAIN c.through
         /\ Key(c) \in Id /\ c # None
  <1>1. c.through \in Seq(Id) /\ c.through # <<>> /\ c # None
    BY CheckpointsAssumption DEF Checkpoint, Content
  <1>2. Len(c.through) \in Nat \ {0} /\ DOMAIN c.through = 1..Len(c.through)
    BY <1>1
  <1> QED BY <1>1, <1>2 DEF Key

\* A beginning of a sequence and what is behind it are the sequence.
LEMMA Completes ==
  ASSUME NEW S, NEW s \in Seq(S), NEW t \in Seq(S), Len(t) <= Len(s),
         \A i \in 1..Len(t) : t[i] = s[i]
  PROVE  t \o SubSeq(s, Len(t) + 1, Len(s)) = s
  <1> DEFINE a == SubSeq(s, 1, Len(t))  b == SubSeq(s, Len(t) + 1, Len(s))
  <1>1. Len(s) \in Nat /\ Len(t) \in Nat
    BY LenProperties
  <1>2. \A i \in 1..Len(t) : s[i] \in S
    BY <1>1, ElementOfSeq
  <1>3. a \in Seq(S) /\ Len(a) = Len(t) /\ \A i \in 1..Len(t) : a[i] = s[i]
    <2>1. 1 \in Int /\ Len(t) \in Int
      BY <1>1
    <2>2. /\ a \in Seq(S)
          /\ Len(a) = IF 1 <= Len(t) THEN Len(t) - 1 + 1 ELSE 0
          /\ \A i \in 1..(Len(t) - 1 + 1) : a[i] = s[i + 1 - 1]
      BY <1>1, <1>2, <2>1
    <2> HIDE DEF a
    <2> QED BY <1>1, <2>2
  <1>4. a = t
    <2> HIDE DEF a
    <2> QED BY <1>3, SeqEqual
  <1>5. a \o b = SubSeq(s, 1, Len(s))
    <2>1. 1 \in 1..(Len(s) + 1) /\ Len(t) \in (1 - 1)..Len(s) /\ Len(s) \in Len(t)..Len(s)
      BY <1>1
    <2> QED BY <2>1, ConcatAdjacentSubSeq
  <1> QED BY <1>4, <1>5, SubSeqFull

\* A checkpoint whose event is where it was is a beginning of the journal, and what
\* is behind it completes it.
LEMMA Recovers ==
  ASSUME TypeOK, HandsInv, ChainInv, NEW p \in Proc, NEW indexed \in BOOLEAN
  PROVE  Recovered(p, indexed) = events
  <1>1. CASE ~Accelerated(p, indexed)
    BY <1>1 DEF Recovered
  <1>2. CASE Accelerated(p, indexed)
    <2>1. read[p] \in Checkpoint /\ read[p] \in Contents
      BY <1>2 DEF Accelerated, HandsInv, TypeOK, Contents
    <2>2. PICK t : t = read[p].through
      OBVIOUS
    <2>3. t \in Seq(Id) /\ Len(t) \in DOMAIN t /\ DOMAIN t = 1..Len(t)
          /\ Len(t) \in Nat \ {0}
      BY <2>1, <2>2, KeyType
    <2>4. Len(t) <= Len(events) /\ events[Len(t)] = t[Len(t)]
      BY <1>2, <2>2 DEF Accelerated, PositionValid, Present, Key
    <2>5. events \in Seq(Id) /\ Len(events) \in Nat /\ DOMAIN events = 1..Len(events)
      BY DEF TypeOK
    <2>6. \A k \in 1..Len(t) : t[k] = events[k]
      <3>1. Len(t) \in DOMAIN events
        BY <2>3, <2>4, <2>5
      <3>2. Agrees(read[p])
        BY <2>1 DEF ChainInv
      <3> QED BY <2>2, <2>3, <2>4, <3>1, <3>2 DEF Agrees
    <2>7. t \o SubSeq(events, Len(t) + 1, Len(events)) = events
      BY <2>3, <2>4, <2>5, <2>6, Completes
    <2> QED BY <1>2, <2>2, <2>7 DEF Recovered
  <1> QED BY <1>1, <1>2

------------------------------------------------------------------------------
(* Types, and what the processes have at hand.                              *)

\* A process that ends has nothing at hand.
LEMMA StopTypes ==
  ASSUME TypeOK, HandsInv, NEW p \in Proc, Stop(p)
  PROVE  /\ pc' \in [Proc -> PC]
         /\ read' \in [Proc -> Checkpoint \cup {None}]
         /\ mine' \in [Proc -> Checkpoint \cup {None}]
         /\ found' \in [Proc -> {"absent", "loaded", "discarded"}]
         /\ snap' \in [Proc -> Seq(Id)]
         /\ HandsInv'
  BY DEF TypeOK, HandsInv, Stop, Goto, PC, Writing, Meeting

\* What a publisher publishes has an event of its own.
LEMMA MineType ==
  ASSUME TypeOK, HandsInv, NEW p \in Proc, pc[p] \in {"create"} \cup Writing \cup Meeting
  PROVE  /\ mine[p] \in Checkpoint /\ mine[p] \in Content /\ Key(mine[p]) \in Id
         /\ mine[p] # None /\ mine[p] \in Contents
  <1>1. mine[p] \in Checkpoint /\ mine[p] # None
    BY DEF TypeOK, HandsInv
  <1> QED BY <1>1, KeyType DEF Checkpoint, Contents

\* An object that is being written, or whose files are, is one.
LEMMA ObjectsType ==
  ASSUME TypeOK, HandsInv, NEW p \in Proc,
         \/ Create(p) \/ Displace(p) \/ Recreate(p) \/ Write(p) \/ Sync(p) \/ Settle(p)
  PROVE  objects' \in [Id -> File \cup {None}]
  <1>1. objects \in [Id -> File \cup {None}]
    BY DEF TypeOK
  <1>2. CASE Create(p) \/ Recreate(p)
    <2>1. pc[p] \in {"create"} \cup Writing \cup Meeting
      BY <1>2 DEF Create, Recreate, Meeting
    <2>2. mine[p] \in Content
      BY <2>1, MineType
    <2>3. [content |-> mine[p], by |-> p, whole |-> FALSE, data |-> FALSE, entry |-> FALSE] \in File
      BY <2>2 DEF File
    <2> QED BY <1>1, <1>2, <2>3 DEF Create, Recreate, Opened
  <1>3. CASE Displace(p)
    BY <1>1, <1>3 DEF Displace
  <1>4. CASE Write(p) \/ Sync(p)
    <2>1. ASSUME NEW k \in Id, objects[k] # None
          PROVE  /\ [objects[k] EXCEPT !.whole = TRUE] \in File
                 /\ [objects[k] EXCEPT !.data = TRUE] \in File
      BY <1>1, <2>1 DEF File
    <2>2. Key(mine[p]) \in Id
      BY <1>4, MineType DEF Write, Sync, Writing
    <2>3. CASE Owns(p)
      <3>1. objects[Key(mine[p])] # None
        BY <2>3 DEF Owns, Object
      <3> QED BY <1>1, <1>4, <2>1, <2>2, <2>3, <3>1 DEF Write, Sync
    <2>4. CASE ~Owns(p)
      BY <1>1, <1>4, <2>4 DEF Write, Sync
    <2> QED BY <2>3, <2>4
  <1>5. CASE Settle(p)
    <2>1. ASSUME NEW k \in Id, objects[k] # None
          PROVE  [objects[k] EXCEPT !.entry = TRUE] \in File
      BY <1>1, <2>1 DEF File
    <2> QED BY <1>1, <1>5, <2>1 DEF Settle
  <1> QED BY <1>2, <1>3, <1>4, <1>5

\* What a power loss leaves of an object is an object, or nothing.
LEMMA LeftType ==
  ASSUME NEW o \in File \cup {None}, NEW r \in Left(o)
  PROVE  r \in File \cup {None}
  <1>1. CASE o = None
    BY <1>1 DEF Left
  <1>2. CASE o # None
    <2>1. o \in File /\ o.whole \in BOOLEAN
      BY <1>2 DEF File
    <2>2. r = None \/ \E w \in BOOLEAN :
            r = [o EXCEPT !.whole = w, !.data = TRUE, !.entry = TRUE]
      BY <1>2, <2>1 DEF Left
    <2> QED BY <2>1, <2>2 DEF File
  <1> QED BY <1>1, <1>2

\* No step breaks a type, or takes from a process what it needs.
LEMMA TypeStep ==
  ASSUME TypeOK, HandsInv, ChainInv, Next
  PROVE  TypeOK' /\ HandsInv'
  <1> USE DEF TypeOK, HandsInv
  <1>1. ASSUME NEW p \in Proc, ReadPointer(p) PROVE TypeOK' /\ HandsInv'
    BY <1>1 DEF ReadPointer, Goto, journal, files, history, PC, Writing, Meeting
  <1>2. ASSUME NEW p \in Proc, ReadObject(p) PROVE TypeOK' /\ HandsInv'
    BY <1>2 DEF ReadObject, Goto, journal, files, history, PC, Writing, Meeting
  <1>3. ASSUME NEW p \in Proc, Scan(p) PROVE TypeOK' /\ HandsInv'
    <2>1. snap' = [snap EXCEPT ![p] = events]
      BY <1>3, Recovers DEF Scan
    <2>2. snap'[p] # <<>> => [through |-> snap'[p], next |-> nextSegment] \in Checkpoint
      BY <2>1 DEF Checkpoint, Content
    <2>3. \/ Goto(p, "up") /\ UNCHANGED mine
          \/ /\ Goto(p, "create") /\ snap'[p] # <<>>
             /\ mine' = [mine EXCEPT ![p] = [through |-> snap'[p], next |-> nextSegment]]
      BY <1>3 DEF Scan
    <2>4. /\ pc' \in [Proc -> PC] /\ pc'[p] \in {"up", "create"}
          /\ \A q \in Proc \ {p} : pc'[q] = pc[q]
      BY <2>3 DEF Goto, PC
    <2>5. /\ mine' \in [Proc -> Checkpoint \cup {None}]
          /\ \A q \in Proc \ {p} : mine'[q] = mine[q]
          /\ pc'[p] = "create" => mine'[p] # None
      <3>1. CASE Goto(p, "up") /\ UNCHANGED mine
        BY <3>1 DEF Goto
      <3>2. CASE ~(Goto(p, "up") /\ UNCHANGED mine)
        <4>1. [through |-> snap'[p], next |-> nextSegment] \in Checkpoint
          BY <2>2, <2>3, <3>2
        <4>2. mine'[p] \in Checkpoint /\ mine' \in [Proc -> Checkpoint \cup {None}]
              /\ \A q \in Proc \ {p} : mine'[q] = mine[q]
          BY <2>3, <3>2, <4>1
        <4> QED BY <4>2, KeyType
      <3> QED BY <3>1, <3>2
    <2>6. /\ read' = [read EXCEPT ![p] = None] /\ found' = [found EXCEPT ![p] = "absent"]
          /\ UNCHANGED <<journal, files, lost, taken, moved, alarms, faults>>
      BY <1>3 DEF Scan
    <2> QED BY <2>1, <2>4, <2>5, <2>6 DEF journal, files, Writing, Meeting
  <1>4. ASSUME NEW p \in Proc, ScanTruncated(p) PROVE TypeOK' /\ HandsInv'
    BY <1>4, StopTypes DEF ScanTruncated, journal, files
  <1>5. ASSUME NEW p \in Proc, Append_(p) PROVE TypeOK' /\ HandsInv'
    <2>1. written + 1 \in Id
      BY <1>5, CheckpointsAssumption DEF Append_, Id
    <2>2. events' \in Seq(Id) /\ events' # <<>> /\ Len(events') \in Nat
      BY <1>5, <2>1 DEF Append_
    <2>3. /\ synced' \in 0..Len(events') /\ written' \in 0..MaxEvents
          /\ nextSegment' \in BOOLEAN /\ sealedOpen' \in BOOLEAN
      <3>1. synced' \in {synced, Len(events')} /\ written' = written + 1 /\ nextSegment' = FALSE
            /\ sealedOpen' \in BOOLEAN
        BY <1>5 DEF Append_
      <3>2. written + 1 \in 0..MaxEvents
        BY <2>1, CheckpointsAssumption DEF Id
      <3>3. synced' \in 0..Len(events')
        <4>1. Len(events') = Len(events) + 1 /\ Len(events) \in Nat
          BY <1>5, <2>1 DEF Append_
        <4> QED BY <2>2, <3>1, <4>1
      <3>4. nextSegment' \in BOOLEAN
        BY <3>1
      <3> QED BY <3>1, <3>2, <3>3, <3>4
    <2>4. /\ pc' = [pc EXCEPT ![p] = "observe"] /\ snap' = [snap EXCEPT ![p] = events']
          /\ UNCHANGED <<objects, current, maybe, read, found, mine>>
      BY <1>5 DEF Append_, Goto, files
    <2> QED BY <2>2, <2>3, <2>4 DEF PC, Writing, Meeting
  <1>6. ASSUME NEW p \in Proc, AppendCut(p) PROVE TypeOK' /\ HandsInv'
    <2>1. events' \in Seq(Id) /\ written' \in 0..MaxEvents /\ synced' \in 0..Len(events')
          /\ nextSegment' \in BOOLEAN /\ sealedOpen' = sealedOpen
      <3>1. CASE UNCHANGED <<events, written>> /\ nextSegment' = TRUE
        BY <1>6, <3>1 DEF AppendCut
      <3>2. CASE events' = Append(events, written + 1) /\ written' = written + 1
                 /\ nextSegment' = FALSE
        <4>1. written + 1 \in Id /\ written + 1 \in 0..MaxEvents
          BY <1>6, CheckpointsAssumption DEF AppendCut, Id
        <4>2. events' \in Seq(Id) /\ Len(events') = Len(events) + 1
          BY <3>2, <4>1
        <4>3. synced' = synced
          BY <1>6 DEF AppendCut
        <4>4. synced' \in 0..Len(events')
          BY <4>2, <4>3
        <4>5. nextSegment' \in BOOLEAN
          BY <3>2
        <4>6. sealedOpen' = sealedOpen
          BY <1>6 DEF AppendCut
        <4> QED BY <3>2, <4>1, <4>2, <4>4, <4>5, <4>6
      <3>3. \/ UNCHANGED <<events, written>> /\ nextSegment' = TRUE
            \/ events' = Append(events, written + 1) /\ written' = written + 1
               /\ nextSegment' = FALSE
        BY <1>6 DEF AppendCut
      <3> QED BY <3>1, <3>2, <3>3
    <2> QED BY <1>6, <2>1, StopTypes DEF AppendCut, files
  <1>7. ASSUME NEW p \in Proc, NotDue(p) PROVE TypeOK' /\ HandsInv'
    BY <1>7 DEF NotDue, Goto, journal, files, history, PC, Writing, Meeting
  <1>8. ASSUME NEW p \in Proc, Observe(p) PROVE TypeOK' /\ HandsInv'
    <2>1. [through |-> snap[p], next |-> nextSegment] \in Checkpoint
      BY <1>8 DEF Observe, Checkpoint, Content
    <2>2. [through |-> snap[p], next |-> nextSegment] # None
      BY <2>1, KeyType
    <2> HIDE DEF Checkpoint
    <2> QED BY <1>8, <2>1, <2>2 DEF Observe, Goto, journal, files, history, PC, Writing, Meeting
  <1>9. ASSUME NEW p \in Proc, ObserveBlocked(p) PROVE TypeOK' /\ HandsInv'
    BY <1>9, StopTypes DEF ObserveBlocked, journal, files
  <1>10. ASSUME NEW p \in Proc, Create(p) PROVE TypeOK' /\ HandsInv'
    <2>1. objects' \in [Id -> File \cup {None}]
      BY <1>10, ObjectsType
    <2>2. Goto(p, "write") \/ Goto(p, "compare")
      BY <1>10 DEF Create
    <2>3. pc[p] = "create" /\ UNCHANGED <<journal, current, maybe, read, found, snap, mine>>
      BY <1>10 DEF Create
    <2> QED BY <2>1, <2>2, <2>3 DEF Goto, journal, PC, Writing, Meeting
  <1>11. ASSUME NEW p \in Proc, Compare(p) PROVE TypeOK' /\ HandsInv'
    BY <1>11 DEF Compare, Goto, journal, files, history, PC, Writing, Meeting
  <1>12. ASSUME NEW p \in Proc, Displace(p) PROVE TypeOK' /\ HandsInv'
    BY <1>12, ObjectsType DEF Displace, Goto, journal, PC, Writing, Meeting
  <1>13. ASSUME NEW p \in Proc, Recreate(p) PROVE TypeOK' /\ HandsInv'
    BY <1>13, ObjectsType DEF Recreate, Goto, journal, PC, Writing, Meeting
  <1>14. ASSUME NEW p \in Proc, PublishFailed(p) PROVE TypeOK' /\ HandsInv'
    BY <1>14, StopTypes DEF PublishFailed, journal, files
  <1>15. ASSUME NEW p \in Proc, Write(p) \/ Sync(p) \/ Settle(p) PROVE TypeOK' /\ HandsInv'
    <2>1. objects' \in [Id -> File \cup {None}]
      BY <1>15, ObjectsType
    <2>2. /\ pc[p] \in Writing
          /\ Goto(p, "sync") \/ Goto(p, "settle") \/ Goto(p, "point")
          /\ UNCHANGED <<journal, current, maybe, read, found, snap, mine>>
      BY <1>15 DEF Write, Sync, Settle, Writing
    <2> QED BY <2>1, <2>2 DEF Goto, journal, PC, Writing, Meeting
  <1>16. ASSUME NEW p \in Proc, Point(p) PROVE TypeOK' /\ HandsInv'
    BY <1>16 DEF Point, Goto, journal, history, PC, Writing, Meeting
  <1>17. ASSUME NEW p \in Proc, SyncRoot(p) PROVE TypeOK' /\ HandsInv'
    BY <1>17 DEF SyncRoot, Goto, journal, history, PC, Writing, Meeting
  <1>18. ASSUME NEW p \in Proc, Crash(p) PROVE TypeOK' /\ HandsInv'
    BY <1>18, StopTypes DEF Crash, journal, files
  <1>19. ASSUME LosePower PROVE TypeOK' /\ HandsInv'
    <2>1. objects' \in [Id -> File \cup {None}]
      <3>1. PICK f \in [Id -> UNION {Left(objects[k]) : k \in Id}] :
              objects' = f /\ \A k \in Id : f[k] \in Left(objects[k])
        BY <1>19 DEF LosePower
      <3>2. \A k \in Id : f[k] \in File \cup {None}
        BY <3>1, LeftType
      <3> QED BY <3>1, <3>2
    <2>2. PICK n \in synced..Len(events) : events' = SubSeq(events, 1, n) /\ synced' = n
      BY <1>19 DEF LosePower
    <2>3. events' \in Seq(Id) /\ synced' \in 0..Len(events')
      BY <2>2
    <2>4. /\ nextSegment' \in BOOLEAN /\ written' = written
          /\ sealedOpen' \in BOOLEAN
          /\ current' \in Checkpoint \cup {None} /\ maybe' \subseteq Checkpoint \cup {None}
      BY <1>19 DEF LosePower
    <2>5. /\ pc' = [p \in Proc |-> "down"] /\ read' = [p \in Proc |-> None]
          /\ found' = [p \in Proc |-> "absent"] /\ snap' = [p \in Proc |-> <<>>]
          /\ mine' = [p \in Proc |-> None]
      BY <1>19 DEF LosePower
    <2> HIDE DEF HandsInv
    <2>6. HandsInv'
      BY <2>5 DEF HandsInv, Writing, Meeting
    <2> QED BY <2>1, <2>3, <2>4, <2>5, <2>6 DEF PC
  <1>20. ASSUME LoseEvent PROVE TypeOK' /\ HandsInv'
    <2>1. events' \in Seq(Id) /\ synced' \in 0..Len(events') /\ nextSegment' = FALSE
          /\ sealedOpen' \in BOOLEAN
      BY <1>20 DEF LoseEvent
    <2> QED BY <1>20, <2>1 DEF LoseEvent, files, process
  <1> QED
    BY <1>1, <1>2, <1>3, <1>4, <1>5, <1>6, <1>7, <1>8, <1>9, <1>10, <1>11, <1>12, <1>13,
       <1>14, <1>15, <1>16, <1>17, <1>18, <1>19, <1>20 DEF Next, Replay, Run, Publish

------------------------------------------------------------------------------
(* The chain.                                                               *)

\* What a step must keep when it takes no event anew: the journal is a beginning of
\* what it was, no event becomes unnoticed, and what it publishes is of the journal.
LEMMA ChainKept ==
  ASSUME TypeOK, TypeOK', ChainInv,
         Len(events') <= Len(events), \A i \in 1..Len(events') : events'[i] = events[i],
         written' = written, \A k \in Id : Durable(k) => Durable(k)',
         \A c \in Contents' :
           \/ c \in Contents
           \/ c.through = events /\ UNCHANGED events
              /\ \A i \in 1..Len(events) : Durable(events[i])',
         \A p \in Proc : pc'[p] = "observe" => pc[p] = "observe" /\ snap'[p] = snap[p]
  PROVE  ChainInv'
  <1>1. DOMAIN events = 1..Len(events) /\ DOMAIN events' = 1..Len(events')
        /\ Len(events) \in Nat /\ Len(events') \in Nat
    BY DEF TypeOK
  <1>2. \A i \in DOMAIN events' : i \in DOMAIN events /\ events'[i] = events[i]
    BY <1>1
  <1>3. (\A i \in DOMAIN events : events[i] <= written)'
    BY <1>2 DEF ChainInv
  <1>4. (\A i, j \in DOMAIN events : events[i] = events[j] => i = j)'
    BY <1>2 DEF ChainInv
  <1>5. ASSUME NEW c \in Contents', c \in Contents
        PROVE  /\ \A i \in DOMAIN c.through : c.through[i] <= written' /\ Durable(c.through[i])'
               /\ Agrees(c)'
    <2>1. c \in Checkpoint
      BY <1>5 DEF TypeOK, Contents
    <2>2. \A i \in DOMAIN c.through : c.through[i] \in Id
      BY <2>1, KeyType
    <2>3. \A i \in DOMAIN c.through : c.through[i] <= written /\ Durable(c.through[i])
      BY <1>5 DEF ChainInv
    <2>4. Agrees(c)'
      <3>1. SUFFICES ASSUME NEW i \in DOMAIN c.through, NEW j \in DOMAIN events',
                            c.through[i] = events'[j]
                     PROVE  i = j /\ \A k \in 1..i : c.through[k] = events'[k]
        BY DEF Agrees
      <3>2. i = j /\ \A k \in 1..i : c.through[k] = events[k]
        BY <1>2, <1>5, <3>1 DEF ChainInv, Agrees
      <3> QED BY <1>1, <3>2
    <2> QED BY <2>2, <2>3, <2>4
  <1>6. ASSUME NEW c \in Contents', c.through = events, UNCHANGED events,
               \A i \in 1..Len(events) : Durable(events[i])'
        PROVE  /\ \A i \in DOMAIN c.through : c.through[i] <= written' /\ Durable(c.through[i])'
               /\ Agrees(c)'
    <2>1. Agrees(c)'
      BY <1>1, <1>6 DEF Agrees, ChainInv
    <2> QED BY <1>1, <1>6, <2>1 DEF ChainInv
  <1>7. ASSUME NEW p \in Proc, pc'[p] = "observe"
        PROVE  (\A i \in DOMAIN snap[p] : Durable(snap[p][i]))'
    <2>1. snap'[p] = snap[p] /\ \A i \in DOMAIN snap[p] : Durable(snap[p][i])
      BY <1>7 DEF ChainInv
    <2>2. \A i \in DOMAIN snap[p] : snap[p][i] \in Id
      BY DEF TypeOK
    <2> QED BY <2>1, <2>2
  <1> QED BY <1>3, <1>4, <1>5, <1>6, <1>7 DEF ChainInv

\* A step that leaves the journal alone and names no new checkpoint keeps the chain.
LEMMA ChainQuiet ==
  ASSUME TypeOK, TypeOK', ChainInv, UNCHANGED journal,
         lost \subseteq lost', adopted \subseteq adopted', Contents' \subseteq Contents,
         \A p \in Proc : pc'[p] = "observe" => pc[p] = "observe" /\ snap'[p] = snap[p]
  PROVE  ChainInv'
  <1>1. UNCHANGED <<events, synced, sealedOpen, written>>
    BY DEF journal
  <1>2. Len(events') <= Len(events) /\ \A i \in 1..Len(events') : events'[i] = events[i]
    BY <1>1 DEF TypeOK
  <1>3. \A k \in Id : Durable(k) => Durable(k)'
    BY <1>1 DEF Durable, Safe
  <1> QED BY <1>1, <1>2, <1>3, ChainKept, Zenon

\* A new event is in no checkpoint.
LEMMA ChainLonger ==
  ASSUME TypeOK, TypeOK', ChainInv,
         events' = Append(events, written + 1), written' = written + 1, Safe <= Safe',
         lost' = lost, adopted' = adopted, Contents' \subseteq Contents,
         \A p \in Proc : pc'[p] = "observe" =>
           \/ pc[p] = "observe" /\ snap'[p] = snap[p]
           \/ snap'[p] = events' /\ Safe' = Len(events')
  PROVE  ChainInv'
  <1>0. /\ events \in Seq(Id) /\ events' \in Seq(Id) /\ written \in 0..MaxEvents
        /\ Safe \in 0..Len(events) /\ Safe' \in 0..Len(events')
        /\ \A k \in Id : k \in Nat
    <2>1. /\ events \in Seq(Id) /\ events' \in Seq(Id) /\ written \in 0..MaxEvents
          /\ synced \in 0..Len(events) /\ synced' \in 0..Len(events')
          /\ \A k \in Id : k \in Nat
      BY CheckpointsAssumption DEF TypeOK, Id
    <2>2. Len(events) \in Nat /\ Len(events') \in Nat
      BY <2>1
    <2> QED BY <2>1, <2>2 DEF Safe
  <1>1. /\ DOMAIN events = 1..Len(events) /\ DOMAIN events' = 1..(Len(events) + 1)
        /\ Len(events) \in Nat /\ Len(events') = Len(events) + 1 /\ written \in Nat
        /\ \A i \in 1..Len(events) : events'[i] = events[i] /\ events[i] \in Nat
        /\ events'[Len(events) + 1] = written + 1
        /\ Safe \in 0..Len(events) /\ Safe' \in 0..Len(events')
    <2>1. Len(events) \in Nat /\ DOMAIN events = 1..Len(events)
      BY <1>0
    <2>2. Len(events') = Len(events) + 1 /\ DOMAIN events' = 1..(Len(events) + 1)
          /\ \A i \in 1..Len(events) : events'[i] = events[i]
          /\ events'[Len(events) + 1] = written + 1
      BY <1>0
    <2>3. \A i \in 1..Len(events) : events[i] \in Nat
      BY <1>0
    <2>4. written \in Nat
      BY <1>0
    <2> QED BY <1>0, <2>1, <2>2, <2>3, <2>4
  <1>2. \A k \in Id : Durable(k) => Durable(k)'
    <2>1. \A i \in 1..Safe : i \in 1..Safe' /\ events'[i] = events[i]
      BY <1>1
    <2> QED BY <2>1 DEF Durable
  <1>3. (\A i \in DOMAIN events : events[i] <= written)'
    BY <1>1 DEF ChainInv
  <1>4. (\A i, j \in DOMAIN events : events[i] = events[j] => i = j)'
    <2>1. \A i \in 1..Len(events) : events[i] # written + 1
      BY <1>1 DEF ChainInv
    <2> QED BY <1>1, <2>1 DEF ChainInv
  <1>5. ASSUME NEW c \in Contents'
        PROVE  /\ \A i \in DOMAIN c.through : c.through[i] <= written' /\ Durable(c.through[i])'
               /\ Agrees(c)'
    <2>1. c \in Contents
      BY <1>5
    <2>2. \A i \in DOMAIN c.through : c.through[i] \in Id /\ c.through[i] \in Nat /\ i \in Nat
      <3>1. c \in Checkpoint
        BY <2>1 DEF TypeOK, Contents
      <3>2. c.through \in Seq(Id) /\ DOMAIN c.through = 1..Len(c.through)
            /\ Len(c.through) \in Nat \ {0}
        BY <3>1, KeyType
      <3>3. \A i \in DOMAIN c.through : c.through[i] \in Id /\ i \in Nat
        BY <3>2
      <3>4. \A k \in Id : k \in Nat
        BY CheckpointsAssumption DEF Id
      <3> QED BY <3>3, <3>4
    <2>3. \A i \in DOMAIN c.through : c.through[i] <= written /\ Durable(c.through[i])
      BY <2>1 DEF ChainInv
    <2>4. Agrees(c)'
      <3>1. SUFFICES ASSUME NEW i \in DOMAIN c.through, NEW j \in DOMAIN events',
                            c.through[i] = events'[j]
                     PROVE  i = j /\ \A k \in 1..i : c.through[k] = events'[k]
        BY DEF Agrees
      <3>2. j \in DOMAIN events /\ c.through[i] = events[j]
        BY <1>1, <2>2, <2>3, <3>1
      <3>3. i = j /\ \A k \in 1..i : c.through[k] = events[k]
        BY <2>1, <3>2 DEF ChainInv, Agrees
      <3> QED BY <1>1, <2>2, <3>2, <3>3
    <2> QED BY <1>1, <1>2, <2>2, <2>3, <2>4
  <1>6. ASSUME NEW p \in Proc, pc'[p] = "observe"
        PROVE  (\A i \in DOMAIN snap[p] : Durable(snap[p][i]))'
    <2>1. CASE pc[p] = "observe" /\ snap'[p] = snap[p]
      <3>1. \A i \in DOMAIN snap[p] : Durable(snap[p][i]) /\ snap[p][i] \in Id
        BY <2>1 DEF ChainInv, TypeOK
      <3> QED BY <1>2, <2>1, <3>1
    <2>2. CASE snap'[p] = events' /\ Safe' = Len(events')
      BY <1>1, <2>2 DEF Durable
    <2> QED BY <1>6, <2>1, <2>2
  <1> QED BY <1>3, <1>4, <1>5, <1>6 DEF ChainInv

\* A process that ends names less.
LEMMA StopNames ==
  ASSUME TypeOK, NEW p \in Proc, Stop(p), UNCHANGED files
  PROVE  /\ Contents' \subseteq Contents
         /\ \A q \in Proc : pc'[q] = "observe" => pc[q] = "observe" /\ snap'[q] = snap[q]
  <1>1. \A q \in Proc : read'[q] \in {read[q], None} /\ mine'[q] \in {mine[q], None}
    BY DEF TypeOK, Stop
  <1>2. UNCHANGED <<current, maybe>>
    BY DEF files
  <1>3. Contents' \subseteq Contents
    BY <1>1, <1>2 DEF Contents
  <1> QED BY <1>3 DEF TypeOK, Stop, Goto

\* No step breaks the chain.
LEMMA ChainStep ==
  ASSUME TypeOK, TypeOK', HandsInv, ChainInv, Next
  PROVE  ChainInv'
  <1>1. ASSUME NEW p \in Proc, ReadPointer(p) PROVE ChainInv'
    <2>1. UNCHANGED <<journal, current, maybe, mine, lost, adopted>>
      BY <1>1 DEF ReadPointer, files, history
    <2>2. \A q \in Proc : read'[q] \in {read[q], current}
      BY <1>1 DEF ReadPointer, TypeOK
    <2>3. Contents' \subseteq Contents
      BY <2>1, <2>2 DEF Contents
    <2>4. \A q \in Proc : pc'[q] = "observe" => pc[q] = "observe" /\ snap'[q] = snap[q]
      BY <1>1 DEF ReadPointer, Goto, TypeOK
    <2> QED BY <2>1, <2>3, <2>4, ChainQuiet
  <1>2. ASSUME NEW p \in Proc, ReadObject(p) \/ NotDue(p) \/ Compare(p) PROVE ChainInv'
    <2>1. UNCHANGED <<journal, files, read, mine, snap, lost, adopted>>
      BY <1>2 DEF ReadObject, NotDue, Compare, history
    <2>2. Contents' \subseteq Contents
      BY <2>1 DEF Contents, files
    <2>3. \A q \in Proc : pc'[q] = "observe" => pc[q] = "observe"
      BY <1>2 DEF ReadObject, NotDue, Compare, Goto, TypeOK
    <2> QED BY <2>1, <2>2, <2>3, ChainQuiet
  <1>3. ASSUME NEW p \in Proc, Scan(p) PROVE ChainInv'
    <2>1. snap' = [snap EXCEPT ![p] = events]
      BY <1>3, Recovers DEF Scan
    <2>2. /\ UNCHANGED <<journal, files, lost>> /\ read' = [read EXCEPT ![p] = None]
      BY <1>3 DEF Scan
    <2>3. UNCHANGED <<events, synced, sealedOpen, written, current, maybe>>
      BY <2>2 DEF journal, files
    <2>4. \/ Goto(p, "up") /\ UNCHANGED <<mine, adopted>>
          \/ /\ Goto(p, "create")
             /\ mine' = [mine EXCEPT ![p] = [through |-> snap'[p], next |-> nextSegment]]
             /\ adopted' = adopted \cup {events[i] : i \in (synced + 1)..Len(events)}
      BY <1>3 DEF Scan
    <2>5. adopted \subseteq adopted'
      BY <2>4
    <2>6. \A q \in Proc : pc'[q] = "observe" => pc[q] = "observe" /\ snap'[q] = snap[q]
      BY <2>1, <2>4 DEF Goto, TypeOK
    <2>7. \A q \in Proc : read'[q] \in {read[q], None}
      BY <2>2 DEF TypeOK
    <2>8. CASE UNCHANGED <<mine, adopted>>
      <3>1. Contents' \subseteq Contents
        BY <2>3, <2>7, <2>8 DEF Contents
      <3> QED BY <2>2, <2>5, <2>6, <3>1, ChainQuiet
    <2>9. CASE /\ mine' = [mine EXCEPT ![p] = [through |-> snap'[p], next |-> nextSegment]]
               /\ adopted' = adopted \cup {events[i] : i \in (synced + 1)..Len(events)}
      <3>1. PICK c : c = [through |-> events, next |-> nextSegment]
        OBVIOUS
      <3>2. \A q \in Proc : mine'[q] \in {mine[q], c}
        BY <2>1, <2>9, <3>1 DEF TypeOK
      <3>3. Contents' \subseteq Contents \cup {c}
        BY <2>3, <2>7, <3>2 DEF Contents
      <3>4. \A i \in 1..Len(events) : Durable(events[i])'
        BY <2>3, <2>9 DEF Durable, Safe, TypeOK
      <3>5. \A d \in Contents' : d \in Contents \/ d.through = events
        BY <3>1, <3>3
      <3>6. Len(events') <= Len(events) /\ \A i \in 1..Len(events') : events'[i] = events[i]
        BY <2>3 DEF TypeOK
      <3>7. \A k \in Id : Durable(k) => Durable(k)'
        BY <2>2, <2>3, <2>5 DEF Durable, Safe
      <3> QED BY <2>3, <2>6, <3>4, <3>5, <3>6, <3>7, ChainKept
    <2> QED BY <2>4, <2>8, <2>9
  <1>4. ASSUME NEW p \in Proc,
               ScanTruncated(p) \/ ObserveBlocked(p) \/ PublishFailed(p) \/ Crash(p)
        PROVE  ChainInv'
    <2>1. Stop(p) /\ UNCHANGED <<journal, files, lost, adopted>>
      BY <1>4 DEF ScanTruncated, ObserveBlocked, PublishFailed, Crash, history
    <2> QED BY <2>1, StopNames, ChainQuiet
  <1>5. ASSUME NEW p \in Proc, Create(p) \/ Displace(p) \/ Recreate(p) \/ Write(p)
                                \/ Sync(p) \/ Settle(p)
        PROVE  ChainInv'
    <2>1. UNCHANGED <<journal, current, maybe, read, mine, snap, lost, adopted>>
      BY <1>5 DEF Create, Displace, Recreate, Write, Sync, Settle, history
    <2>2. Contents' \subseteq Contents
      BY <2>1 DEF Contents
    <2>3. \A q \in Proc : pc'[q] = "observe" => pc[q] = "observe"
      BY <1>5 DEF Create, Displace, Recreate, Write, Sync, Settle, Goto, TypeOK
    <2> QED BY <2>1, <2>2, <2>3, ChainQuiet
  <1>6. ASSUME NEW p \in Proc, Point(p) \/ SyncRoot(p) PROVE ChainInv'
    <2>1. UNCHANGED <<journal, read, snap, lost, adopted>>
      BY <1>6 DEF Point, SyncRoot, history
    <2>2. /\ current' \in {current, mine[p]} /\ maybe' \subseteq maybe \cup {current, mine[p]}
          /\ \A q \in Proc : mine'[q] \in {mine[q], None}
      BY <1>6 DEF Point, SyncRoot, TypeOK
    <2>3. Contents' \subseteq Contents
      BY <2>1, <2>2 DEF Contents
    <2>4. \A q \in Proc : pc'[q] = "observe" => pc[q] = "observe"
      BY <1>6 DEF Point, SyncRoot, Goto, TypeOK
    <2> QED BY <2>1, <2>3, <2>4, ChainQuiet
  <1>7. ASSUME NEW p \in Proc, Observe(p) PROVE ChainInv'
    <2>1. UNCHANGED <<journal, files, read, snap, lost, adopted>>
      BY <1>7 DEF Observe, history
    <2>2. UNCHANGED <<events, synced, sealedOpen, written, current, maybe>>
      BY <2>1 DEF journal, files
    <2>3. pc[p] = "observe" /\ snap[p] = events
      BY <1>7 DEF Observe
    <2>4. PICK c : c = [through |-> events, next |-> nextSegment]
      OBVIOUS
    <2>5. \A q \in Proc : mine'[q] \in {mine[q], c}
      BY <1>7, <2>3, <2>4 DEF Observe, TypeOK
    <2>6. Contents' \subseteq Contents \cup {c}
      BY <2>1, <2>2, <2>5 DEF Contents
    <2>7. \A k \in Id : Durable(k) => Durable(k)'
      BY <2>1, <2>2 DEF Durable, Safe
    <2>8. \A i \in 1..Len(events) : Durable(events[i])'
      <3>1. \A i \in 1..Len(events) : Durable(events[i])
        BY <2>3 DEF ChainInv, TypeOK
      <3> QED BY <2>1, <2>2, <3>1 DEF Durable, Safe
    <2>9. \A d \in Contents' : d \in Contents \/ d.through = events
      BY <2>4, <2>6
    <2>10. Len(events') <= Len(events) /\ \A i \in 1..Len(events') : events'[i] = events[i]
      BY <2>2 DEF TypeOK
    <2>11. \A q \in Proc : pc'[q] = "observe" => pc[q] = "observe" /\ snap'[q] = snap[q]
      BY <1>7, <2>1 DEF Observe, Goto, TypeOK
    <2> QED BY <2>2, <2>7, <2>8, <2>9, <2>10, <2>11, ChainKept
  <1>8. ASSUME NEW p \in Proc, Append_(p) PROVE ChainInv'
    <2>1. /\ events' = Append(events, written + 1) /\ written' = written + 1
          /\ snap' = [snap EXCEPT ![p] = events']
          /\ Goto(p, "observe") /\ UNCHANGED <<current, maybe, read, mine, lost, adopted>>
      BY <1>8 DEF Append_, files, history
    <2>2. Contents' \subseteq Contents
      BY <2>1 DEF Contents
    <2>3. Safe' = Len(events')
      BY <1>8 DEF Append_, Safe
    <2>4. Safe <= Safe'
      <3>1. Len(events') = Len(events) + 1 /\ Len(events) \in Nat /\ synced \in 0..Len(events)
        BY <2>1 DEF TypeOK
      <3> QED BY <2>3, <3>1 DEF Safe
    <2>5. \A q \in Proc : pc'[q] = "observe" =>
            \/ pc[q] = "observe" /\ snap'[q] = snap[q]
            \/ snap'[q] = events' /\ Safe' = Len(events')
      BY <2>1, <2>3 DEF Goto, TypeOK
    <2> QED BY <2>1, <2>2, <2>4, <2>5, ChainLonger
  <1>9. ASSUME NEW p \in Proc, AppendCut(p) PROVE ChainInv'
    <2>1. Stop(p) /\ UNCHANGED <<synced, sealedOpen, files, lost, adopted>>
      BY <1>9 DEF AppendCut, history
    <2>2. /\ Contents' \subseteq Contents
          /\ \A q \in Proc : pc'[q] = "observe" => pc[q] = "observe" /\ snap'[q] = snap[q]
      BY <2>1, StopNames
    <2>3. \/ UNCHANGED <<events, written>>
          \/ events' = Append(events, written + 1) /\ written' = written + 1
      BY <1>9 DEF AppendCut
    <2>4. CASE UNCHANGED <<events, written>>
      <3>1. Len(events') <= Len(events) /\ \A i \in 1..Len(events') : events'[i] = events[i]
        BY <2>4 DEF TypeOK
      <3>2. \A k \in Id : Durable(k) => Durable(k)'
        BY <2>1, <2>4 DEF Durable, Safe
      <3> QED BY <2>2, <2>4, <3>1, <3>2, ChainKept
    <2>5. CASE events' = Append(events, written + 1) /\ written' = written + 1
      <3>1. Len(events') = Len(events) + 1 /\ Len(events) \in Nat /\ synced \in 0..Len(events)
        BY <2>5 DEF TypeOK
      <3>2. Safe <= Safe'
        BY <2>1, <3>1 DEF Safe
      <3> QED BY <2>1, <2>2, <2>5, <3>2, ChainLonger
    <2> QED BY <2>3, <2>4, <2>5
  <1>10. ASSUME LosePower PROVE ChainInv'
    <2>1. PICK n \in synced..Len(events) :
            /\ events' = SubSeq(events, 1, n) /\ synced' = n
            /\ lost' = IF sealedOpen THEN lost \cup {events[i] : i \in (n + 1)..Len(events)}
                                    ELSE lost
      BY <1>10 DEF LosePower
    <2>2. /\ pc' = [p \in Proc |-> "down"] /\ read' = [p \in Proc |-> None]
          /\ mine' = [p \in Proc |-> None] /\ sealedOpen' = FALSE
          /\ UNCHANGED <<written, adopted>>
      BY <1>10 DEF LosePower
    <2>3. {current'} \cup maybe' \subseteq maybe
      BY <1>10 DEF LosePower
    <2>4. Contents' \subseteq Contents
      BY <2>2, <2>3 DEF Contents
    <2>5. Len(events') <= Len(events) /\ \A i \in 1..Len(events') : events'[i] = events[i]
      BY <2>1 DEF TypeOK
    <2>6. \A k \in Id : Durable(k) => Durable(k)'
      <3>1. synced \in 0..Len(events) /\ Len(events) \in Nat /\ n \in synced..Len(events)
        BY <2>1 DEF TypeOK
      <3>2. \A i \in 1..n : events'[i] = events[i]
        BY <2>1, <3>1 DEF TypeOK
      <3>3. Safe' = n /\ lost \subseteq lost'
        BY <2>1, <2>2 DEF Safe
      <3>4. ASSUME NEW i \in 1..Safe
            PROVE  (i \in 1..n /\ events'[i] = events[i]) \/ events[i] \in lost'
        <4>1. CASE i \in 1..n
          BY <3>2, <4>1
        <4>2. CASE i \notin 1..n
          <5>1. sealedOpen /\ i \in (n + 1)..Len(events)
            BY <3>1, <4>2 DEF Safe
          <5> QED BY <2>1, <5>1
        <4> QED BY <4>1, <4>2
      <3> QED BY <2>2, <3>3, <3>4 DEF Durable
    <2>7. \A p \in Proc : pc'[p] # "observe"
      BY <2>2
    <2> QED BY <2>2, <2>4, <2>5, <2>6, <2>7, ChainKept
  <1>11. ASSUME LoseEvent PROVE ChainInv'
    <2>1. /\ events # <<>> /\ events' = SubSeq(events, 1, Len(events) - 1)
          /\ synced' = IF synced < Len(events) THEN synced ELSE Len(events) - 1
          /\ sealedOpen' = (sealedOpen /\ synced < Len(events) - 1)
          /\ lost' = lost \cup {events[Len(events)]}
          /\ UNCHANGED <<written, current, maybe, pc, read, snap, mine, adopted>>
      BY <1>11 DEF LoseEvent, files, process
    <2>2. Contents' \subseteq Contents
      BY <2>1 DEF Contents
    <2>3. Len(events') <= Len(events) /\ \A i \in 1..Len(events') : events'[i] = events[i]
      BY <2>1 DEF TypeOK
    <2>4. \A k \in Id : Durable(k) => Durable(k)'
      <3>1. /\ synced \in 0..Len(events) /\ Len(events) \in Nat \ {0}
            /\ Len(events') = Len(events) - 1
            /\ \A i \in 1..(Len(events) - 1) : events'[i] = events[i]
        <4>1. events \in Seq(Id) /\ events # <<>> /\ synced \in 0..Len(events)
          BY <2>1 DEF TypeOK
        <4>2. PICK n \in Nat \ {0} : Len(events) = n
          BY <4>1
        <4>3. events' = SubSeq(events, 1, n - 1)
          BY <2>1, <4>2
        <4>4. Len(events') = n - 1 /\ \A i \in 1..(n - 1) : events'[i] = events[i]
          BY <4>1, <4>2, <4>3
        <4> QED BY <4>1, <4>2, <4>4
      <3>2. Safe' = IF Safe < Len(events) THEN Safe ELSE Len(events) - 1
        <4>1. CASE sealedOpen /\ synced < Len(events) - 1
          <5>1. sealedOpen'
            BY <2>1, <4>1
          <5> QED BY <3>1, <4>1, <5>1 DEF Safe
        <4>2. CASE sealedOpen /\ ~(synced < Len(events) - 1)
          <5>1. ~sealedOpen'
            BY <2>1, <4>2
          <5> QED BY <2>1, <3>1, <4>2, <5>1 DEF Safe
        <4>3. CASE ~sealedOpen
          <5>1. ~sealedOpen'
            BY <2>1, <4>3
          <5> QED BY <2>1, <3>1, <4>3, <5>1 DEF Safe
        <4> QED BY <4>1, <4>2, <4>3
      <3>3. Safe \in 0..Len(events)
        BY <3>1 DEF Safe
      <3>4. \A i \in 1..Safe :
              \/ i \in 1..Safe' /\ events'[i] = events[i]
              \/ events[i] \in lost'
        <4>1. SUFFICES ASSUME NEW i \in 1..Safe
                       PROVE  (i \in 1..Safe' /\ events'[i] = events[i]) \/ events[i] \in lost'
          OBVIOUS
        <4>2. CASE i = Len(events)
          BY <2>1, <4>2
        <4>3. CASE i # Len(events)
          BY <3>1, <3>2, <3>3, <4>3
        <4> QED BY <4>2, <4>3
      <3> QED BY <2>1, <3>4 DEF Durable
    <2> QED BY <2>1, <2>2, <2>3, <2>4, ChainKept
  <1> QED
    BY <1>1, <1>2, <1>3, <1>4, <1>5, <1>6, <1>7, <1>8, <1>9, <1>10, <1>11
    DEF Next, Replay, Run, Publish

------------------------------------------------------------------------------
(* Alarms.                                                                  *)

\* An alarm names an event of a checkpoint that is not where it was; had it been taken
\* out by nobody, and not been adopted, it would be there.
LEMMA AlarmStep ==
  ASSUME TypeOK, HandsInv, ChainInv, AlarmsJustified, Next
  PROVE  AlarmsJustified'
  <1>1. ASSUME NEW p \in Proc, ScanTruncated(p) PROVE AlarmsJustified'
    <2>1. found[p] = "loaded" /\ ~Present(read[p])
      BY <1>1 DEF ScanTruncated, Truncated, AnchorSeen
    <2>2. PICK c : c = read[p]
      OBVIOUS
    <2>3. c \in Checkpoint /\ c \in Contents
      BY <2>1, <2>2 DEF HandsInv, TypeOK, Contents
    <2>4. Len(c.through) \in DOMAIN c.through
      BY <2>3, KeyType
    <2>5. Durable(Key(c)) /\ Agrees(c)
      BY <2>3, <2>4 DEF ChainInv, Key
    <2>6. Key(c) \in lost \cup adopted
      <3>1. SUFFICES ASSUME Key(c) \in {events[i] : i \in 1..Safe} PROVE FALSE
        BY <2>5 DEF Durable
      <3>2. PICK i \in 1..Safe : events[i] = Key(c)
        BY <3>1
      <3>3. i \in DOMAIN events /\ i <= Len(events)
        BY DEF Safe, TypeOK
      <3>4. i = Len(c.through)
        BY <2>4, <2>5, <3>2, <3>3 DEF Agrees, Key
      <3> QED BY <2>1, <2>2, <3>2, <3>3, <3>4 DEF Present
    <2>7. alarms' = alarms \cup {Key(c)} /\ lost' = lost /\ adopted' = adopted
      BY <1>1, <2>2 DEF ScanTruncated
    <2> QED BY <2>6, <2>7 DEF AlarmsJustified
  <1>2. ASSUME UNCHANGED alarms, lost \subseteq lost', adopted \subseteq adopted'
        PROVE  AlarmsJustified'
    BY <1>2 DEF AlarmsJustified
  <1>3. ASSUME NEW p \in Proc, Scan(p) PROVE AlarmsJustified'
    BY <1>2, <1>3 DEF Scan
  <1>4. ASSUME NEW p \in Proc,
               \/ ReadPointer(p) \/ ReadObject(p) \/ Append_(p) \/ AppendCut(p) \/ NotDue(p)
               \/ Observe(p) \/ ObserveBlocked(p) \/ Create(p) \/ Compare(p) \/ Displace(p)
               \/ Recreate(p) \/ PublishFailed(p) \/ Write(p) \/ Sync(p) \/ Settle(p)
               \/ Point(p) \/ SyncRoot(p) \/ Crash(p)
        PROVE  AlarmsJustified'
    <2>1. UNCHANGED <<lost, adopted, alarms>>
      BY <1>4 DEF ReadPointer, ReadObject, Append_, AppendCut, NotDue, Observe, ObserveBlocked,
         Create, Compare, Displace, Recreate, PublishFailed, Write, Sync, Settle, Point,
         SyncRoot, Crash, history
    <2> QED BY <1>2, <2>1
  <1>5. CASE LosePower
    <2>1. UNCHANGED <<alarms, adopted>> /\ lost \subseteq lost'
      BY <1>5 DEF LosePower
    <2> QED BY <1>2, <2>1
  <1>6. CASE LoseEvent
    BY <1>2, <1>6 DEF LoseEvent
  <1> QED BY <1>1, <1>3, <1>4, <1>5, <1>6 DEF Next, Replay, Run, Publish

------------------------------------------------------------------------------
(* The pointer.                                                             *)

\* A step that leaves the files alone and starts no publisher keeps them.
LEMMA PointerKept ==
  ASSUME TypeOK, PointerInv, UNCHANGED files, Excused \subseteq Excused',
         \A q \in Proc : pc'[q] \in Writing => pc'[q] = pc[q] /\ mine'[q] = mine[q]
  PROVE  PointerInv'
  <1>1. UNCHANGED <<objects, current, maybe>>
    BY DEF files
  <1> QED BY <1>1 DEF PointerInv, Settled, Publishes

\* What a step of one publisher must keep of the others and of the pointer, if it
\* changes the object at one event only.
LEMMA PointerChanged ==
  ASSUME TypeOK, HandsInv, PointerInv, NEW p \in Proc, NEW k \in Id,
         UNCHANGED <<current, maybe>>, Excused \subseteq Excused',
         \A l \in Id \ {k} : objects'[l] = objects[l],
         mine' = mine, \A q \in Proc \ {p} : pc'[q] = pc[q],
         \A c \in ({current} \cup maybe) \ {None} :
            Key(c) = k /\ Settled(c) => Settled(c)' \/ k \in Excused',
         \A q \in Proc \ {p} : pc[q] \in Writing /\ Key(mine[q]) = k /\ Publishes(q)
                              => Publishes(q)' \/ k \in Excused',
         pc'[p] \in Writing => Publishes(p)' \/ Key(mine[p]) \in Excused'
  PROVE  PointerInv'
  <1>1. ASSUME NEW c \in ({current'} \cup maybe') \ {None} PROVE Settled(c)' \/ Key(c) \in Excused'
    <2>1. c \in Checkpoint /\ (Settled(c) \/ Key(c) \in Excused)
      BY <1>1 DEF TypeOK, PointerInv
    <2>2. Key(c) \in Id
      BY <2>1, KeyType
    <2>3. CASE Key(c) = k
      BY <2>1, <2>3
    <2>4. CASE Key(c) # k
      BY <2>1, <2>2, <2>4 DEF Settled
    <2> QED BY <2>3, <2>4
  <1>2. ASSUME NEW q \in Proc, q # p
        PROVE  pc'[q] \in Writing => Publishes(q)' \/ Key(mine'[q]) \in Excused'
    <2>1. pc'[q] = pc[q] /\ mine'[q] = mine[q]
      BY <1>2
    <2>2. ASSUME pc[q] \in Writing, Publishes(q)
          PROVE  Publishes(q)' \/ Key(mine[q]) \in Excused'
      <3>1. Key(mine[q]) \in Id
        BY <2>2, MineType
      <3>2. CASE Key(mine[q]) = k
        BY <1>2, <2>2, <3>2
      <3>3. CASE Key(mine[q]) # k
        BY <2>1, <2>2, <3>1, <3>3 DEF Publishes
      <3> QED BY <3>2, <3>3
    <2> QED BY <2>1, <2>2 DEF PointerInv
  <1> QED BY <1>1, <1>2 DEF PointerInv

\* An object is created where there is none.
LEMMA PointerCreate ==
  ASSUME TypeOK, HandsInv, PointerInv, NEW p \in Proc, Create(p) \/ Recreate(p)
  PROVE  PointerInv'
  <1>1. /\ pc[p] \in {"create", "recreate"} /\ UNCHANGED <<current, maybe, taken, moved>>
        /\ mine' = mine
    BY DEF Create, Recreate, history
  <1>2. PICK k : k = Key(mine[p])
    OBVIOUS
  <1>3. k \in Id
    BY <1>1, <1>2, MineType DEF Meeting
  <1>4. CASE objects[k] = None
    <2>1. Opened(p) /\ Goto(p, "write")
      BY <1>2, <1>4 DEF Create, Recreate, Object
    <2>2. \A l \in Id \ {k} : objects'[l] = objects[l]
      BY <1>2, <2>1 DEF Opened, TypeOK
    <2>3. objects'[k] = [content |-> mine[p], by |-> p, whole |-> FALSE, data |-> FALSE,
                         entry |-> FALSE]
      BY <1>2, <1>3, <2>1 DEF Opened, TypeOK
    <2>4. objects'[k] # None
      <3>1. mine[p] \in Content
        BY <1>1, MineType DEF Meeting
      <3>2. objects'[k] \in File
        BY <2>3, <3>1 DEF File
      <3> QED BY <3>2, CheckpointsAssumption
    <2>5. pc'[p] = "write" /\ \A q \in Proc \ {p} : pc'[q] = pc[q]
      BY <2>1 DEF Goto, TypeOK
    <2>6. Publishes(p)'
      BY <1>1, <1>2, <2>3, <2>4, <2>5 DEF Publishes
    <2>7. \A c \in ({current} \cup maybe) \ {None} : Key(c) = k => ~Settled(c)
      BY <1>4 DEF Settled
    <2>8. \A q \in Proc : Key(mine[q]) = k => ~Publishes(q)
      BY <1>4 DEF Publishes
    <2> QED
      BY <1>1, <1>3, <2>2, <2>5, <2>6, <2>7, <2>8, PointerChanged DEF Excused
  <1>5. CASE objects[k] # None
    <2>1. Goto(p, "compare") /\ objects' = objects
      BY <1>2, <1>5 DEF Create, Recreate, Object
    <2>2. pc'[p] = "compare" /\ \A q \in Proc \ {p} : pc'[q] = pc[q]
      BY <2>1 DEF Goto, TypeOK
    <2>3. \A q \in Proc : pc'[q] \in Writing => pc'[q] = pc[q] /\ mine'[q] = mine[q]
      BY <1>1, <2>2 DEF Writing
    <2> QED BY <1>1, <2>1, <2>3, PointerKept DEF files, Excused
  <1> QED BY <1>4, <1>5

\* An object that is equal is taken as it is: with its data durable, or excused.
LEMMA PointerTake ==
  ASSUME TypeOK, HandsInv, PointerInv, NEW p \in Proc, Compare(p)
  PROVE  PointerInv'
  <1>1. /\ pc[p] = "compare" /\ UNCHANGED <<objects, current, maybe, moved>> /\ mine' = mine
        /\ taken \subseteq taken'
        /\ Goto(p, IF Same(p) THEN "settle" ELSE "displace")
    BY DEF Compare, files
  <1>2. PICK k : k = Key(mine[p])
    OBVIOUS
  <1>3. k \in Id
    BY <1>1, <1>2, MineType DEF Meeting
  <1>4. Excused \subseteq Excused' /\ \A q \in Proc \ {p} : pc'[q] = pc[q]
    BY <1>1 DEF Excused, Goto, TypeOK
  <1>5. ASSUME pc'[p] \in Writing PROVE Publishes(p)' \/ k \in Excused'
    <2>1. Same(p) /\ pc'[p] = "settle"
      BY <1>1, <1>5 DEF Goto, TypeOK, Writing
    <2>2. CASE objects[k].data
      BY <1>1, <1>2, <2>1, <2>2 DEF Same, Object, Publishes
    <2>3. CASE ~objects[k].data
      BY <1>2, <2>1, <2>3 DEF Compare, Object, Excused
    <2> QED BY <2>2, <2>3
  <1>6. \A c \in ({current} \cup maybe) \ {None} : Settled(c) => Settled(c)'
    BY <1>1 DEF Settled
  <1>7. \A q \in Proc \ {p} : Publishes(q) => Publishes(q)'
    BY <1>1, <1>4 DEF Publishes
  <1> QED BY <1>1, <1>2, <1>3, <1>4, <1>5, <1>6, <1>7, PointerChanged

\* An object that is moved away is missed by nobody, or excused.
LEMMA PointerDisplace ==
  ASSUME TypeOK, HandsInv, PointerInv, NEW p \in Proc, Displace(p)
  PROVE  PointerInv'
  <1>1. /\ pc[p] = "displace" /\ UNCHANGED <<current, maybe, taken>> /\ mine' = mine
        /\ pc'[p] = "recreate" /\ \A q \in Proc \ {p} : pc'[q] = pc[q]
    BY DEF Displace, Goto, TypeOK
  <1>2. PICK k : k = Key(mine[p])
    OBVIOUS
  <1>3. k \in Id
    BY <1>1, <1>2, MineType DEF Meeting
  <1>4. /\ \A l \in Id \ {k} : objects'[l] = objects[l]
        /\ moved' = IF Wanted(p, k) THEN moved \cup {k} ELSE moved
    BY <1>2 DEF Displace, TypeOK
  <1>5. Excused \subseteq Excused' /\ (Wanted(p, k) => k \in Excused')
    BY <1>1, <1>4 DEF Excused
  <1>6. \A c \in ({current} \cup maybe) \ {None} : Key(c) = k => Wanted(p, k)
    BY DEF Wanted
  <1>7. \A q \in Proc \ {p} : pc[q] \in Writing /\ Key(mine[q]) = k => Wanted(p, k)
    BY DEF Wanted, Writing
  <1>8. pc'[p] \notin Writing
    BY <1>1 DEF Writing
  <1> QED BY <1>1, <1>3, <1>4, <1>5, <1>6, <1>7, <1>8, PointerChanged

\* A publisher that writes and syncs does so to its own object, wherever that is.
LEMMA PointerWrite ==
  ASSUME TypeOK, HandsInv, PointerInv, NEW p \in Proc, Write(p) \/ Sync(p)
  PROVE  PointerInv'
  <1>1. /\ pc[p] \in {"write", "sync"} /\ UNCHANGED <<current, maybe, Excused>> /\ mine' = mine
        /\ pc'[p] = IF pc[p] = "write" THEN "sync" ELSE "settle"
        /\ \A q \in Proc \ {p} : pc'[q] = pc[q]
    BY DEF Write, Sync, Goto, TypeOK, history, Excused
  <1>2. PICK k : k = Key(mine[p])
    OBVIOUS
  <1>3. k \in Id
    BY <1>1, <1>2, MineType DEF Writing
  <1>4. Publishes(p) \/ k \in Excused
    BY <1>1, <1>2 DEF PointerInv, Writing
  <1>5. CASE ~Owns(p)
    <2>1. objects' = objects
      BY <1>5 DEF Write, Sync
    <2>2. k \in Excused
      BY <1>1, <1>2, <1>4, <1>5 DEF Publishes, Owns, Object
    <2> QED BY <1>1, <1>2, <1>3, <2>1, <2>2, PointerChanged
  <1>6. CASE Owns(p)
    <2>1. objects[k] # None /\ objects[k] \in File /\ objects[k].by = p
      BY <1>2, <1>3, <1>6 DEF Owns, Object, TypeOK
    <2>2. objects' = [objects EXCEPT ![k] = IF pc[p] = "write"
                                            THEN [objects[k] EXCEPT !.whole = TRUE]
                                            ELSE [objects[k] EXCEPT !.data = TRUE]]
      BY <1>2, <1>3, <1>6 DEF Write, Sync, TypeOK
    <2>3. \A l \in Id \ {k} : objects'[l] = objects[l]
      BY <1>3, <2>2 DEF TypeOK
    <2>4. PICK o : o = objects'[k]
      OBVIOUS
    <2>5. o = IF pc[p] = "write" THEN [objects[k] EXCEPT !.whole = TRUE]
                                 ELSE [objects[k] EXCEPT !.data = TRUE]
      BY <1>3, <2>2, <2>4 DEF TypeOK
    <2>6. /\ o \in File /\ o.content = objects[k].content /\ o.by = p /\ o.entry = objects[k].entry
          /\ objects[k].whole => o.whole
          /\ objects[k].data => o.data
          /\ IF pc[p] = "write" THEN o.whole ELSE o.data
      BY <2>1, <2>5 DEF File
    <2>7. o # None
      BY <2>6, CheckpointsAssumption
    <2>8. \A c \in ({current} \cup maybe) \ {None} : Key(c) = k /\ Settled(c) => Settled(c)'
      BY <2>4, <2>6, <2>7 DEF Settled
    <2>9. \A q \in Proc \ {p} : Key(mine[q]) = k /\ Publishes(q) => Publishes(q)'
      BY <1>1, <2>1, <2>4, <2>6, <2>7 DEF Publishes
    <2>10. Publishes(p) => Publishes(p)'
      BY <1>1, <1>2, <2>1, <2>4, <2>6, <2>7 DEF Publishes
    <2> QED
      BY <1>1, <1>2, <1>3, <1>4, <2>3, <2>8, <2>9, <2>10, PointerChanged
  <1> QED BY <1>5, <1>6

\* The directory is synced for everybody.
LEMMA PointerSettle ==
  ASSUME TypeOK, HandsInv, PointerInv, NEW p \in Proc, Settle(p)
  PROVE  PointerInv'
  <1>1. /\ pc[p] = "settle" /\ UNCHANGED <<current, maybe, Excused>> /\ mine' = mine
        /\ pc'[p] = "point" /\ \A q \in Proc \ {p} : pc'[q] = pc[q]
    BY DEF Settle, Goto, TypeOK, history, Excused
  <1>2. ASSUME NEW k \in Id, objects[k] # None
        PROVE  /\ objects'[k] # None /\ objects'[k].entry
               /\ objects'[k].content = objects[k].content /\ objects'[k].by = objects[k].by
               /\ objects[k].whole => objects'[k].whole
               /\ objects[k].data => objects'[k].data
    <2>1. objects[k] \in File /\ objects'[k] = [objects[k] EXCEPT !.entry = TRUE]
      BY <1>2 DEF Settle, TypeOK
    <2>2. objects'[k] \in File
      BY <2>1 DEF File
    <2> QED BY <2>1, <2>2, CheckpointsAssumption DEF File
  <1>3. ASSUME NEW c \in ({current'} \cup maybe') \ {None} PROVE Settled(c)' \/ Key(c) \in Excused'
    <2>1. c \in Checkpoint /\ (Settled(c) \/ Key(c) \in Excused)
      BY <1>1, <1>3 DEF TypeOK, PointerInv
    <2>2. Key(c) \in Id
      BY <2>1, KeyType
    <2> QED BY <1>1, <1>2, <2>1, <2>2 DEF Settled
  <1>4. ASSUME NEW q \in Proc, pc'[q] \in Writing
        PROVE  Publishes(q)' \/ Key(mine'[q]) \in Excused'
    <2>1. /\ pc[q] \in Writing /\ mine'[q] = mine[q]
          /\ pc'[q] # "write" => pc[q] # "write"
          /\ pc'[q] \in {"write", "sync"} => pc[q] \in {"write", "sync"}
          /\ pc'[q] \in {"point", "pointed"} => q = p \/ pc[q] \in {"point", "pointed"}
          /\ pc'[q] \in {"settle", "point", "pointed"} => pc[q] \in {"settle", "point", "pointed"}
      BY <1>1, <1>4 DEF Writing
    <2>2. Key(mine[q]) \in Id
      BY <2>1, MineType
    <2>3. Publishes(q) \/ Key(mine[q]) \in Excused
      BY <2>1 DEF PointerInv
    <2>4. ASSUME Publishes(q) PROVE Publishes(q)'
      <3>1. objects[Key(mine[q])] # None /\ objects'[Key(mine[q])] # None
        BY <1>2, <2>2, <2>4 DEF Publishes
      <3> QED BY <1>2, <2>1, <2>2, <2>4, <3>1 DEF Publishes
    <2> QED BY <1>1, <2>1, <2>3, <2>4
  <1> QED BY <1>3, <1>4 DEF PointerInv

\* The pointer is moved to an object that is as far as its publisher is.
LEMMA PointerMove ==
  ASSUME TypeOK, HandsInv, PointerInv, NEW p \in Proc, Point(p) \/ SyncRoot(p)
  PROVE  PointerInv'
  <1>1. /\ UNCHANGED <<objects, Excused>> /\ pc[p] \in {"point", "pointed"}
        /\ \A q \in Proc \ {p} : pc'[q] = pc[q] /\ mine'[q] = mine[q]
    BY DEF Point, SyncRoot, Goto, TypeOK, history, Excused
  <1>2. ASSUME NEW c \in ({current'} \cup maybe') \ {None} PROVE Settled(c)' \/ Key(c) \in Excused'
    <2>1. CASE c \in {current} \cup maybe
      BY <1>1, <1>2, <2>1 DEF PointerInv, Settled
    <2>2. CASE c \notin {current} \cup maybe
      <3>1. c = mine[p] /\ pc[p] = "point"
        BY <1>2, <2>2 DEF Point, SyncRoot
      <3>2. Publishes(p) \/ Key(mine[p]) \in Excused
        BY <3>1 DEF PointerInv, Writing
      <3> QED BY <1>1, <3>1, <3>2 DEF Publishes, Settled
    <2> QED BY <2>1, <2>2
  <1>3. ASSUME NEW q \in Proc
        PROVE  pc'[q] \in Writing => Publishes(q)' \/ Key(mine'[q]) \in Excused'
    <2>1. CASE q = p
      <3>1. \/ pc[p] = "point" /\ pc'[p] = "pointed" /\ mine'[p] = mine[p]
            \/ pc'[p] = "up"
        BY DEF Point, SyncRoot, Goto, TypeOK
      <3>2. Publishes(p) \/ Key(mine[p]) \in Excused
        BY <1>1 DEF PointerInv, Writing
      <3> QED BY <1>1, <2>1, <3>1, <3>2 DEF Publishes, Writing
    <2>2. CASE q # p
      BY <1>1, <2>2 DEF PointerInv, Publishes
    <2> QED BY <2>1, <2>2
  <1> QED BY <1>2, <1>3 DEF PointerInv

\* What was synced outlives a power loss.
LEMMA PointerLoss ==
  ASSUME TypeOK, HandsInv, PointerInv, LosePower
  PROVE  PointerInv'
  <1>1. /\ {current'} \cup maybe' \subseteq maybe /\ pc' = [p \in Proc |-> "down"]
        /\ Excused' = Excused
    BY DEF LosePower, Excused
  <1>2. \A k \in Id : objects'[k] \in Left(objects[k])
    BY DEF LosePower
  <1>3. ASSUME NEW c \in ({current'} \cup maybe') \ {None} PROVE Settled(c)' \/ Key(c) \in Excused'
    <2>1. c \in Checkpoint /\ (Settled(c) \/ Key(c) \in Excused)
      BY <1>1, <1>3 DEF TypeOK, PointerInv
    <2>2. ASSUME Settled(c) PROVE Settled(c)'
      <3>1. PICK o : o = objects[Key(c)]
        OBVIOUS
      <3>2. PICK r : r = objects'[Key(c)]
        OBVIOUS
      <3>3. Key(c) \in Id
        BY <2>1, KeyType
      <3>4. o # None /\ o \in File /\ o.content = c /\ o.whole /\ o.data /\ o.entry
        BY <2>2, <3>1, <3>3 DEF Settled, TypeOK
      <3>5. r \in Left(o)
        BY <1>2, <3>1, <3>2, <3>3
      <3>6. \E w \in {o.whole} : r = [o EXCEPT !.whole = w, !.data = TRUE, !.entry = TRUE]
        BY <3>4, <3>5 DEF Left
      <3>7. r \in File /\ r.content = c /\ r.whole /\ r.data /\ r.entry
        BY <3>4, <3>6 DEF File
      <3>8. r # None
        BY <3>7, CheckpointsAssumption
      <3> QED BY <3>2, <3>7, <3>8 DEF Settled
    <2> QED BY <1>1, <2>1, <2>2
  <1>4. \A q \in Proc : pc'[q] \notin Writing
    BY <1>1 DEF Writing
  <1> QED BY <1>3, <1>4 DEF PointerInv

\* No step leaves the pointer without its object.
LEMMA PointerStep ==
  ASSUME TypeOK, HandsInv, PointerInv, Next
  PROVE  PointerInv'
  <1>1. ASSUME NEW p \in Proc,
               \/ ReadPointer(p) \/ ReadObject(p) \/ Append_(p) \/ NotDue(p) \/ Observe(p)
        PROVE  PointerInv'
    <2>1. /\ UNCHANGED <<files, Excused>>
          /\ pc'[p] \notin Writing
          /\ \A q \in Proc \ {p} : pc'[q] = pc[q] /\ mine'[q] = mine[q]
      BY <1>1 DEF ReadPointer, ReadObject, Append_, NotDue, Observe, Goto, TypeOK, history,
         Writing, Excused
    <2> QED BY <2>1, PointerKept
  <1>2. ASSUME NEW p \in Proc, Scan(p) PROVE PointerInv'
    <2>1. UNCHANGED <<files, Excused>>
      BY <1>2 DEF Scan, Excused
    <2>2. (Goto(p, "up") /\ UNCHANGED mine)
          \/ (Goto(p, "create")
              /\ mine' = [mine EXCEPT ![p] = [through |-> snap'[p], next |-> nextSegment]])
      BY <1>2 DEF Scan
    <2>3. /\ pc'[p] \notin Writing
          /\ \A q \in Proc \ {p} : pc'[q] = pc[q] /\ mine'[q] = mine[q]
      BY <2>2 DEF Goto, TypeOK, Writing
    <2> QED BY <2>1, <2>3, PointerKept
  <1>3. ASSUME NEW p \in Proc,
               \/ ScanTruncated(p) \/ AppendCut(p) \/ ObserveBlocked(p) \/ PublishFailed(p)
               \/ Crash(p)
        PROVE  PointerInv'
    <2>1. Stop(p) /\ UNCHANGED <<files, Excused>>
      BY <1>3 DEF ScanTruncated, AppendCut, ObserveBlocked, PublishFailed, Crash, history,
         Excused
    <2>2. /\ pc'[p] \notin Writing
          /\ \A q \in Proc \ {p} : pc'[q] = pc[q] /\ mine'[q] = mine[q]
      BY <2>1 DEF Stop, Goto, TypeOK, Writing
    <2> QED BY <2>1, <2>2, PointerKept
  <1>4. CASE LoseEvent
    <2>1. UNCHANGED <<files, Excused, pc, mine>>
      BY <1>4 DEF LoseEvent, process, Excused
    <2> QED BY <2>1, PointerKept
  <1> QED
    BY <1>1, <1>2, <1>3, <1>4, PointerCreate, PointerTake, PointerDisplace,
       PointerWrite, PointerSettle, PointerMove, PointerLoss DEF Next, Replay, Run, Publish

------------------------------------------------------------------------------
(* Theorems.                                                                *)

\* The invariant is inductive.
LEMMA Inductive ==
  Spec => []IInv
  <1>1. Init => IInv
    <2> SUFFICES ASSUME Init PROVE IInv
      OBVIOUS
    <2>1. TypeOK
      <3>1. events \in Seq(Id) /\ Len(events) = 0
        BY DEF Init
      <3>2. written \in 0..MaxEvents /\ synced \in 0..Len(events) /\ nextSegment \in BOOLEAN
            /\ sealedOpen \in BOOLEAN
        <4>1. written = 0 /\ synced = 0
          BY DEF Init
        <4>2. nextSegment \in BOOLEAN /\ sealedOpen \in BOOLEAN
          BY DEF Init
        <4>3. 0 \in 0..MaxEvents /\ 0 \in 0..0
          BY CheckpointsAssumption
        <4> QED BY <3>1, <4>1, <4>2, <4>3
      <3>3. snap \in [Proc -> Seq(Id)]
        BY DEF Init
      <3>4. /\ objects \in [Id -> File \cup {None}]
            /\ current \in Checkpoint \cup {None} /\ maybe \subseteq Checkpoint \cup {None}
            /\ pc \in [Proc -> PC]
            /\ read \in [Proc -> Checkpoint \cup {None}]
            /\ mine \in [Proc -> Checkpoint \cup {None}]
            /\ found \in [Proc -> {"absent", "loaded", "discarded"}]
        BY DEF Init, PC
      <3> QED BY <3>1, <3>2, <3>3, <3>4 DEF TypeOK
    <2>2. HandsInv
      BY DEF Init, HandsInv, Writing, Meeting
    <2>3. Contents = {}
      BY DEF Init, Contents
    <2>4. ChainInv
      BY <2>3 DEF Init, ChainInv
    <2>5. AlarmsJustified /\ PointerInv
      BY DEF Init, AlarmsJustified, PointerInv, Writing
    <2> QED BY <2>1, <2>2, <2>4, <2>5 DEF IInv
  <1>2. IInv /\ [Next]_vars => IInv'
    <2>1. ASSUME IInv, Next PROVE IInv'
      BY <2>1, TypeStep, ChainStep, AlarmStep, PointerStep DEF IInv
    <2>2. ASSUME IInv, UNCHANGED vars PROVE IInv'
      <3>1. UNCHANGED <<events, synced, written, nextSegment, objects, current, maybe,
                        pc, read, found, snap, mine, adopted, lost, taken, moved, alarms,
                        sealedOpen>>
        BY <2>2 DEF vars, journal, files, process, history
      <3>2. TypeOK' /\ HandsInv' /\ AlarmsJustified'
        BY <2>2, <3>1 DEF IInv, TypeOK, HandsInv, AlarmsJustified
      <3>3. Contents' \subseteq Contents
        BY <3>1 DEF Contents
      <3>4. ChainInv'
        BY <2>2, <3>1, <3>2, <3>3, ChainQuiet DEF IInv, journal
      <3>5. PointerInv'
        BY <2>2, <3>1, PointerKept DEF IInv, files, Excused
      <3> QED BY <3>2, <3>4, <3>5 DEF IInv
    <2> QED BY <2>1, <2>2
  <1> QED BY <1>1, <1>2, PTL DEF Spec

\* RecoveredIsJournal: load_accelerated and replay_run recover the same journal with a
\* checkpoint as without one, for any number of starts that publish and replay at once,
\* after any number of crashes, power losses and losses of an event.
THEOREM RecoveredIsJournalAlways ==
  Spec => RecoveredIsJournal
  <1>1. IInv /\ [Next]_vars =>
          [\A p \in Proc : pc[p] = "scan" /\ pc'[p] \in {"up", "create"} => snap'[p] = events]_vars
    <2>1. SUFFICES ASSUME IInv, Next, NEW p \in Proc, pc[p] = "scan", pc'[p] \in {"up", "create"}
                   PROVE  snap'[p] = events
      OBVIOUS
    <2>2. ASSUME NEW q \in Proc, q # p, Replay(q) \/ Run(q) \/ Publish(q) \/ Crash(q)
          PROVE  pc'[p] = pc[p]
      <3>1. Replay(q) => pc'[p] = pc[p]
        <4>1. Scan(q) => Goto(q, "up") \/ Goto(q, "create")
          BY DEF Scan
        <4> QED BY <2>1, <2>2, <4>1 DEF Replay, ReadPointer, ReadObject, ScanTruncated, Stop, Goto,
               IInv, TypeOK
      <3>2. Run(q) => pc'[p] = pc[p]
        BY <2>1, <2>2 DEF Run, Append_, AppendCut, NotDue, Observe, ObserveBlocked, Stop, Goto,
           IInv, TypeOK
      <3>3. Publish(q) => pc'[p] = pc[p]
        BY <2>1, <2>2 DEF Publish, Create, Compare, Displace, Recreate, PublishFailed, Write,
           Sync, Settle, Point, SyncRoot, Stop, Goto, IInv, TypeOK
      <3>4. Crash(q) => pc'[p] = pc[p]
        BY <2>1, <2>2 DEF Crash, Stop, Goto, IInv, TypeOK
      <3> QED BY <2>2, <3>1, <3>2, <3>3, <3>4
    <2>3. pc'[p] # pc[p] /\ pc'[p] # "down"
      BY <2>1
    <2>4. ~LosePower /\ ~LoseEvent
      BY <2>1, <2>3 DEF LosePower, LoseEvent, process
    <2>5. Replay(p) \/ Run(p) \/ Publish(p) \/ Crash(p)
      BY <2>1, <2>2, <2>3, <2>4 DEF Next
    <2>6. Stop(p) => pc'[p] = "down"
      BY <2>1 DEF Stop, Goto, IInv, TypeOK
    <2>7. Scan(p)
      BY <2>1, <2>3, <2>5, <2>6 DEF Replay, Run, Publish, ReadPointer, ReadObject, ScanTruncated,
         Append_, AppendCut, NotDue, Observe, ObserveBlocked, Create, Compare, Displace, Recreate,
         PublishFailed, Write, Sync, Settle, Point, SyncRoot, Crash
    <2>8. snap' = [snap EXCEPT ![p] = events]
      BY <2>1, <2>7, Recovers DEF Scan, IInv
    <2> QED BY <2>1, <2>8 DEF IInv, TypeOK
  <1> QED BY <1>1, Inductive, PTL DEF Spec, RecoveredIsJournal

\* AlarmsJustified: JOURNAL_TRUNCATED and HASH_CHAIN_MISMATCH at the pointer's position
\* are reported only of an event that was taken away, or was published before it was
\* durable.
THEOREM AlarmsJustifiedAlways ==
  Spec => []AlarmsJustified
  <1>1. IInv => AlarmsJustified
    BY DEF IInv
  <1> QED BY <1>1, Inductive, PTL

\* PointerResolves: current.json names an object that is whole, even after a power loss,
\* for any number of starts and faults, unless a publisher took that object as it found it
\* before its data was durable, or moved it away while the pointer named it or another
\* was publishing it.
THEOREM PointerResolvesAlways ==
  Spec => []PointerResolves
  <1>1. IInv => PointerResolves
    BY DEF IInv, PointerInv, PointerResolves, Settled, Resolves, Excused
  <1> QED BY <1>1, Inductive, PTL
=============================================================================
