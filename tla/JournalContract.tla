--------------------------- MODULE JournalContract ---------------------------
(***************************************************************************)
(* What the durable journal promises its callers (services/journal.py):    *)
(* one linear log that only grows, every frame extending the head its      *)
(* writer had verified, and a caller that was told "committed" or          *)
(* "idempotent" finds its event in the log from then on - until two        *)
(* processes repair the same torn tail at the same time.                   *)
(***************************************************************************)
EXTENDS Naturals

CONSTANT Draft

VARIABLES
  log,     \* the frames of the journal
  acked,   \* the frames some caller was told are durable
  broken   \* two processes repaired the same torn tail at the same time

cvars == <<log, acked, broken>>

Frame == [seq : Nat, hash : Nat, prev : Nat, draft : Draft]

Init ==
  /\ log = {}
  /\ acked = {}
  /\ broken = FALSE

\* A frame names its predecessor by hash and takes the next sequence number;
\* nothing else stands on that place of the log.
Extends(f) ==
  /\ f \in Frame
  /\ \A g \in log : g.seq < f.seq /\ g.hash # f.hash
  /\ \/ f.seq = 1 /\ f.prev = 0
     \/ \E g \in log : g.seq + 1 = f.seq /\ g.hash = f.prev

Extend ==
  /\ \E f \in log' : Extends(f) /\ log' = log \cup {f}
  /\ UNCHANGED <<acked, broken>>

Acknowledge ==
  /\ \E f \in log : acked' = acked \cup {f}
  /\ UNCHANGED <<log, broken>>

\* replay.py repairs a tail without the append lock: after two repairs that
\* overlapped nothing is promised any more.
Break == broken' = TRUE

Next == Extend \/ Acknowledge \/ Break

Spec == Init /\ [][Next]_cvars
=============================================================================
