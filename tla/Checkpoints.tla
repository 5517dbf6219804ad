----------------------------- MODULE Checkpoints -----------------------------
(***************************************************************************)
(* Checkpoints of a run (services/checkpoints.py,                          *)
(* services/execution_checkpoints.py, services/replay.py): immutable       *)
(* objects, the pointer current.json to one of them, and the replay that   *)
(* starts from it instead of from the first event.  A start of the         *)
(* coordinator replays and may publish what it recovered; a coordinator    *)
(* publishes after its own events; nothing excludes two of them at once.   *)
(*                                                                         *)
(* Abstractions.  An event has an identity that stands for its hash, so    *)
(* that an identity determines the events before it; the journal is        *)
(* Journal's: an append is atomic, and takes effect only at the head its   *)
(* writer knows.  What a checkpoint contains is a function of the events   *)
(* it goes through and of its position in the segments, of which only      *)
(* "at the start of an empty next segment" is told apart.  Reading one     *)
(* file is atomic, and so is the scan of the segments.  A frame that a     *)
(* power loss tears out of a sealed segment takes what stands behind it    *)
(* along: no replay from the first event gets past it.                     *)
(***************************************************************************)
EXTENDS Naturals, Sequences

CONSTANTS
  Proc,       \* starts of the coordinator
  None,       \* no object, no pointer
  Takeovers,  \* the events that begin a new coordinator epoch
  MaxEvents,  \* bound: events ever written
  MaxFaults   \* bound: crashes, power losses and losses of an event

Id == 1..MaxEvents
Content == [through : Seq(Id), next : BOOLEAN]
File == [content : Content, by : Proc, whole : BOOLEAN, data : BOOLEAN, entry : BOOLEAN]

ASSUME CheckpointsAssumption ==
  /\ MaxEvents \in Nat \ {0} /\ MaxFaults \in Nat /\ Takeovers \subseteq Id
  /\ None \notin Content /\ None \notin File

VARIABLES
  events,       \* the journal
  synced,       \* how many of them are durable, up to the first that is not
  sealedOpen,   \* a rotation sealed a frame that nobody had synced, and nobody will
  written,      \* events ever written
  nextSegment,  \* an empty segment follows, left by a rotation that stopped
  objects,      \* the object of the checkpoint through each event
  current,      \* current.json: the content it names, by its hash
  maybe,        \* what current.json may be after a power loss
  pc,           \* where each process is
  read,         \* the pointer it read
  found,        \* CheckpointLoadStatus
  snap,         \* the events its snapshot goes through
  mine,         \* the content it is publishing
  adopted,      \* history: events that a replay published before they were durable
  lost,         \* history: events that were taken out of the journal
  taken,        \* history: objects that a publisher found in place, compared equal
                \*   and took as they were, before their data was durable
  moved,        \* history: objects that a publisher moved to corrupt/ while the
                \*   pointer named them or another one was publishing them
  alarms,       \* history: events that a replay missed: JOURNAL_TRUNCATED, or
                \*   HASH_CHAIN_MISMATCH at the position of the pointer
  faults

journal == <<events, synced, sealedOpen, written, nextSegment>>
files == <<objects, current, maybe>>
process == <<pc, read, found, snap, mine>>
history == <<adopted, lost, taken, moved, alarms>>
vars == <<journal, files, process, history, faults>>

\* _checkpoint_id, by its sequence and hash.
Key(c) == c.through[Len(c.through)]

\* Production always asks for coordinator_epoch = 1.
FirstEpoch(c) == \A i \in DOMAIN c.through : c.through[i] \notin Takeovers

\* The event the checkpoint goes through is where it was.
Present(c) == Len(c.through) <= Len(events) /\ events[Len(c.through)] = Key(c)

Goto(p, l) == pc' = [pc EXCEPT ![p] = l]

\* The start ends, or its process dies.
Stop(p) ==
  /\ Goto(p, "down")
  /\ read' = [read EXCEPT ![p] = None] /\ found' = [found EXCEPT ![p] = "absent"]
  /\ snap' = [snap EXCEPT ![p] = <<>>] /\ mine' = [mine EXCEPT ![p] = None]

------------------------------------------------------------------------------
Init ==
  /\ events = <<>> /\ synced = 0 /\ sealedOpen = FALSE
  /\ written = 0 /\ nextSegment = FALSE
  /\ objects = [k \in Id |-> None] /\ current = None /\ maybe = {None}
  /\ pc = [p \in Proc |-> "down"] /\ read = [p \in Proc |-> None]
  /\ found = [p \in Proc |-> "absent"] /\ snap = [p \in Proc |-> <<>>]
  /\ mine = [p \in Proc |-> None]
  /\ adopted = {} /\ lost = {} /\ taken = {} /\ moved = {} /\ alarms = {} /\ faults = 0

------------------------------------------------------------------------------
(* Replay with a checkpoint.                                                *)

ReadPointer(p) ==
  /\ pc[p] = "down"
  /\ read' = [read EXCEPT ![p] = current]
  /\ found' = [found EXCEPT ![p] = "absent"]
  /\ Goto(p, IF current = None THEN "scan" ELSE "object")
  /\ UNCHANGED <<journal, files, snap, mine, history, faults>>

Resolves(c) ==
  LET o == objects[Key(c)] IN o # None /\ o.whole /\ o.content = c

ReadObject(p) ==
  /\ pc[p] = "object"
  /\ found' = [found EXCEPT ![p] =
                 IF Resolves(read[p]) /\ FirstEpoch(read[p]) THEN "loaded" ELSE "discarded"]
  /\ Goto(p, "scan")
  /\ UNCHANGED <<journal, files, read, snap, mine, history, faults>>

AnywhereValid(c) == TRUE
LastAnchor(c) == Len(c.through) = Len(events) /\ Present(c)

\* _checkpoint_position_valid: the frame that ends at the position of the
\* checkpoint is its last event.  A position in a segment that is gone is not
\* valid either, and does what an index that is not valid does.
PositionValid(c) == Present(c)

\* pointer_anchor_seen, of a scan from the first event.
AnchorSeen(c) == Present(c)

\* The frames behind the checkpoint continue its hash chain.
Continues(c) == Len(c.through) < Len(events) => Present(c)

\* The snapshot of the replay; an index that is not valid rules the checkpoint out.
Accelerated(p, indexed) ==
  /\ found[p] = "loaded" /\ indexed
  /\ PositionValid(read[p]) /\ Continues(read[p])

Recovered(p, indexed) ==
  IF Accelerated(p, indexed)
  THEN read[p].through \o SubSeq(events, Len(read[p].through) + 1, Len(events))
  ELSE events

Truncated(p, indexed) ==
  found[p] = "loaded" /\ ~Accelerated(p, indexed) /\ ~AnchorSeen(read[p])

\* The checkpoint is published when the policy says so or the pointer was discarded,
\* unless the caller asked for no repair (repair_derived of the resume command).
Scan(p) ==
  /\ pc[p] = "scan"
  /\ \E indexed \in BOOLEAN :
       /\ ~Truncated(p, indexed)
       /\ snap' = [snap EXCEPT ![p] = Recovered(p, indexed)]
  /\ \/ Goto(p, "up") /\ UNCHANGED <<mine, adopted>>
     \/ /\ snap'[p] # <<>>
        /\ found[p] = "loaded" => Len(snap'[p]) > Len(read[p].through)
        /\ Goto(p, "create")
        /\ mine' = [mine EXCEPT ![p] = [through |-> snap'[p], next |-> nextSegment]]
        /\ adopted' = adopted \cup {events[i] : i \in (synced + 1)..Len(events)}
  /\ read' = [read EXCEPT ![p] = None] /\ found' = [found EXCEPT ![p] = "absent"]
  /\ UNCHANGED <<journal, files, lost, taken, moved, alarms, faults>>

ScanTruncated(p) ==
  /\ pc[p] = "scan"
  /\ \E indexed \in BOOLEAN : Truncated(p, indexed)
  /\ alarms' = alarms \cup {Key(read[p])}
  /\ Stop(p)
  /\ UNCHANGED <<journal, files, adopted, lost, taken, moved, faults>>

------------------------------------------------------------------------------
(* The coordinator appends, and publishes when its policy says so.          *)

\* The frame is synced with all that its segment holds; _rotate before it syncs the
\* new segment only, not what a replay had found in the one it seals.
Append_(p) ==
  /\ pc[p] = "up" /\ snap[p] = events /\ written < MaxEvents
  /\ events' = Append(events, written + 1)
  /\ sealedOpen' \in {sealedOpen, sealedOpen \/ synced < Len(events)}
  /\ synced' = IF sealedOpen' THEN synced ELSE Len(events')
  /\ written' = written + 1 /\ nextSegment' = FALSE
  /\ snap' = [snap EXCEPT ![p] = events']
  /\ Goto(p, "observe")
  /\ UNCHANGED <<files, read, found, mine, history, faults>>

\* The writer dies before it synced the frame, or right after it created the
\* next segment.
AppendCut(p) ==
  /\ pc[p] = "up" /\ snap[p] = events /\ written < MaxEvents /\ faults < MaxFaults
  /\ \/ /\ events' = Append(events, written + 1)
        /\ written' = written + 1 /\ nextSegment' = FALSE
     \/ /\ events # <<>> /\ nextSegment' = TRUE
        /\ UNCHANGED <<events, written>>
  /\ Stop(p) /\ faults' = faults + 1
  /\ UNCHANGED <<synced, sealedOpen, files, history>>

NotDue(p) ==
  /\ pc[p] = "observe"
  /\ Goto(p, "up")
  /\ UNCHANGED <<journal, files, read, found, snap, mine, history, faults>>

\* observe: the position is read at the head the coordinator knows.
Observe(p) ==
  /\ pc[p] = "observe"
  /\ events = snap[p]
  /\ mine' = [mine EXCEPT ![p] = [through |-> snap[p], next |-> nextSegment]]
  /\ Goto(p, "create")
  /\ UNCHANGED <<journal, files, read, found, snap, history, faults>>

\* POSITION_FAILED, and the start ends.
ObserveBlocked(p) ==
  /\ pc[p] = "observe"
  /\ events # snap[p]
  /\ Stop(p)
  /\ UNCHANGED <<journal, files, history, faults>>

------------------------------------------------------------------------------
(* publish.                                                                 *)

Object(p) == objects[Key(mine[p])]

\* An object that is being written: its owner has it open, wherever it is moved.
Opened(p) ==
  objects' = [objects EXCEPT ![Key(mine[p])] =
    [content |-> mine[p], by |-> p, whole |-> FALSE, data |-> FALSE, entry |-> FALSE]]

\* _write_immutable: exclusive creation ...
Create(p) ==
  /\ pc[p] = "create"
  /\ IF Object(p) = None
     THEN Opened(p) /\ Goto(p, "write")
     ELSE Goto(p, "compare") /\ UNCHANGED objects
  /\ UNCHANGED <<journal, current, maybe, read, found, snap, mine, history, faults>>

\* ... or comparison with the object in its place, which is not synced again ...
Same(p) == Object(p) # None /\ Object(p).whole /\ Object(p).content = mine[p]

Compare(p) ==
  /\ pc[p] = "compare"
  /\ Object(p) # None
  /\ Goto(p, IF Same(p) THEN "settle" ELSE "displace")
  /\ taken' = IF Same(p) /\ ~Object(p).data THEN taken \cup {Key(mine[p])} ELSE taken
  /\ UNCHANGED <<journal, files, read, found, snap, mine, adopted, lost, moved, alarms, faults>>

\* The pointer names the object of event k, or another than p is publishing it.
Wanted(p, k) ==
  \/ \E c \in ({current} \cup maybe) \ {None} : Key(c) = k
  \/ \E q \in Proc \ {p} :
       pc[q] \in {"write", "sync", "settle", "point", "pointed"} /\ Key(mine[q]) = k

\* ... and is moved to corrupt/ if it is another, and written again.
Displace(p) ==
  /\ pc[p] = "displace"
  /\ Object(p) # None
  /\ LET k == Key(mine[p]) IN
       /\ objects' = [objects EXCEPT ![k] = None]
       /\ moved' = IF Wanted(p, k) THEN moved \cup {k} ELSE moved
  /\ Goto(p, "recreate")
  /\ UNCHANGED <<journal, current, maybe, read, found, snap, mine, adopted, lost, taken, alarms,
                 faults>>

Recreate(p) ==
  /\ pc[p] = "recreate"
  /\ Object(p) = None
  /\ Opened(p)
  /\ Goto(p, "write")
  /\ UNCHANGED <<journal, current, maybe, read, found, snap, mine, history, faults>>

\* The file is gone, has come back, or changed while it was read:
\* PUBLISH_FAILED, and the start ends.
PublishFailed(p) ==
  /\ \/ pc[p] \in {"compare", "displace"} /\ Object(p) = None
     \/ pc[p] = "compare" /\ Object(p) # None /\ ~Object(p).whole
     \/ pc[p] = "recreate" /\ Object(p) # None
  /\ Stop(p)
  /\ UNCHANGED <<journal, files, history, faults>>

Owns(p) == Object(p) # None /\ Object(p).by = p

Write(p) ==
  /\ pc[p] = "write"
  /\ objects' = IF Owns(p) THEN [objects EXCEPT ![Key(mine[p])].whole = TRUE] ELSE objects
  /\ Goto(p, "sync")
  /\ UNCHANGED <<journal, current, maybe, read, found, snap, mine, history, faults>>

SyncSkipped(p) ==
  /\ pc[p] = "sync"
  /\ Goto(p, "settle")
  /\ UNCHANGED <<journal, files, read, found, snap, mine, history, faults>>

Sync(p) ==
  /\ pc[p] = "sync"
  /\ objects' = IF Owns(p) THEN [objects EXCEPT ![Key(mine[p])].data = TRUE] ELSE objects
  /\ Goto(p, "settle")
  /\ UNCHANGED <<journal, current, maybe, read, found, snap, mine, history, faults>>

\* _sync_directory(self.objects): whatever is in the directory.
Settle(p) ==
  /\ pc[p] = "settle"
  /\ objects' = [k \in Id |-> IF objects[k] = None THEN None
                              ELSE [objects[k] EXCEPT !.entry = TRUE]]
  /\ Goto(p, "point")
  /\ UNCHANGED <<journal, current, maybe, read, found, snap, mine, history, faults>>

\* _atomic_publish.
Point(p) ==
  /\ pc[p] = "point"
  /\ current' = mine[p] /\ maybe' = maybe \cup {mine[p]}
  /\ Goto(p, "pointed")
  /\ UNCHANGED <<journal, objects, read, found, snap, mine, history, faults>>

SyncRoot(p) ==
  /\ pc[p] = "pointed"
  /\ maybe' = {current}
  /\ mine' = [mine EXCEPT ![p] = None]
  /\ Goto(p, "up")
  /\ UNCHANGED <<journal, objects, current, read, found, snap, history, faults>>

------------------------------------------------------------------------------
(* Faults.                                                                  *)

Crash(p) ==
  /\ pc[p] # "down" /\ faults < MaxFaults
  /\ Stop(p) /\ faults' = faults + 1
  /\ UNCHANGED <<journal, files, history>>

\* What a power loss may leave of an object.
Left(o) ==
  IF o = None THEN {None}
  ELSE (IF o.entry THEN {} ELSE {None})
       \cup {[o EXCEPT !.whole = w, !.data = TRUE, !.entry = TRUE] :
               w \in IF o.data THEN {o.whole} ELSE {o.whole, FALSE}}

LosePower ==
  /\ faults < MaxFaults /\ faults' = faults + 1
  /\ \E n \in synced..Len(events) :
       /\ events' = SubSeq(events, 1, n) /\ synced' = n
       /\ lost' = IF sealedOpen THEN lost \cup {events[i] : i \in (n + 1)..Len(events)} ELSE lost
  /\ sealedOpen' = FALSE
  /\ nextSegment' \in {nextSegment, FALSE}
  /\ objects' \in {f \in [Id -> UNION {Left(objects[k]) : k \in Id}] :
                     \A k \in Id : f[k] \in Left(objects[k])}
  /\ \E c \in maybe : current' = c /\ maybe' = {c}
  /\ pc' = [p \in Proc |-> "down"] /\ read' = [p \in Proc |-> None]
  /\ found' = [p \in Proc |-> "absent"] /\ snap' = [p \in Proc |-> <<>>]
  /\ mine' = [p \in Proc |-> None]
  /\ UNCHANGED <<written, adopted, taken, moved, alarms>>

\* Somebody takes the last event away, acknowledged as it may be: a copy of an
\* earlier journal is put in place, or the repair of a tail races an append.
LoseEvent ==
  /\ faults < MaxFaults /\ faults' = faults + 1
  /\ events # <<>>
  /\ events' = SubSeq(events, 1, Len(events) - 1)
  /\ synced' = IF synced < Len(events) THEN synced ELSE Len(events) - 1
  /\ sealedOpen' = (sealedOpen /\ synced < Len(events) - 1)
  /\ lost' = lost \cup {events[Len(events)]}
  /\ nextSegment' = FALSE
  /\ UNCHANGED <<written, files, process, adopted, taken, moved, alarms>>

------------------------------------------------------------------------------
Replay(p) == ReadPointer(p) \/ ReadObject(p) \/ Scan(p) \/ ScanTruncated(p)

Run(p) == Append_(p) \/ AppendCut(p) \/ NotDue(p) \/ Observe(p) \/ ObserveBlocked(p)

Publish(p) ==
  \/ Create(p) \/ Compare(p) \/ Displace(p) \/ Recreate(p) \/ PublishFailed(p)
  \/ Write(p) \/ Sync(p) \/ Settle(p) \/ Point(p) \/ SyncRoot(p)

Next ==
  \/ \E p \in Proc : Replay(p) \/ Run(p) \/ Publish(p) \/ Crash(p)
  \/ LosePower \/ LoseEvent

Spec == Init /\ [][Next]_vars

------------------------------------------------------------------------------
\* A replay from a checkpoint recovers what a replay from the first event would:
\* whatever the pointer names, whoever published it, and whatever was lost since.
RecoveredIsJournal ==
  [][\A p \in Proc : pc[p] = "scan" /\ pc'[p] \in {"up", "create"} => snap'[p] = events]_vars

\* A replay says that the journal was truncated only if it was: the event it
\* misses was taken away, a power loss took it along with a never synced frame of a
\* sealed segment, or a replay had published it before it was durable.
AlarmsJustified == alarms \subseteq lost \cup adopted

\* The pointer names an object that is there and whole, even after a power loss: a
\* crash between the object and the pointer, a restart that publishes again and another
\* publisher leave it so, with two exceptions.  An object that was taken as it was found
\* before its data was durable may be torn by a power loss (checkpoints.py:923-925, also
\* after one crash and one restart: PointerWhole), and one that was moved away from under
\* the pointer may stay away.
PointerResolves == current # None => Resolves(current) \/ Key(current) \in taken \cup moved

\* What "immutable checkpoint objects and atomic current pointer" (checkpoints.py:261)
\* says: the pointer names an object that is there and whole, without exception.
PointerWhole == current # None => Resolves(current)
=============================================================================
