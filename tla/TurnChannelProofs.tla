-------------------------- MODULE TurnChannelProofs --------------------------
(***************************************************************************)
(* Proofs about TurnChannel, for any operation ids and any number of       *)
(* faults: its types, that a worker is prompted at most once, and that     *)
(* what the channel answers is how the turn is.                            *)
(*                                                                         *)
(* The invariant says, besides, where the record of a send is when the     *)
(* request for it is somewhere on its way, which operation a call that     *)
(* waits is for, and that a notification tells the truth wherever it is.   *)
(***************************************************************************)
EXTENDS TurnChannel, TLAPS

\* A call that waits is for an operation of its kind, on the turn of the channel.
Calls ==
  /\ pc \in {"start", "starting", "activating", "applying", "failing"}
       => op \in SendOps /\ mem.active = op
  /\ pc \in {"cancel", "interrupting", "ending"} => op \in CancelOps /\ mem.active # None

\* Whatever the provider has heard or is about to hear of a turn is in the file.
Recorded ==
  /\ disk.active # None => mem.active # None
  /\ pc = "start" \/ StartAnswer \in requests \/ turn # "none" => disk.active # None

\* One request, and then one turn.
Once ==
  /\ PromptedOnce
  /\ prompts = 0 <=> turn = "none"
  /\ StartAnswer \in requests => turn = "none"
  /\ pc = "start" => turn = "none" /\ StartAnswer \notin requests

Tidings(f) == f \in owed \/ f \in notes \/ \E i \in DOMAIN out : out[i] = f

\* A notification tells the truth, and so does whoever hands it on.
Heard ==
  /\ Tidings(Started) => turn # "none"
  /\ Tidings(Completed) \/ reader = "calling" => turn \in Ended

IInv == TypeOK /\ Calls /\ Recorded /\ Once /\ Heard /\ AnswersTrue


------------------------------------------------------------------------------
(* What the answers of the channel say.                                     *)

\* Everything that is recorded in m is true of the turn.
Reports(m) ==
  /\ \A s \in SendOps : Tells(m.sends[s].obs)
  /\ \A c \in CancelOps : Tells(m.cancels[c].obs)

LEMMA AnswersReported == AnswersTrue <=> Reports(mem) /\ Reports(disk)
  BY DEF AnswersTrue, Reports

\* The observation of a turn that has ended tells how.
LEMMA TerminalTells ==
  ASSUME turn \in Ended
  PROVE  TerminalObservation \in Terminal /\ Tells(TerminalObservation)
  BY DEF Ended, TerminalObservation, Terminal, Tells

\* Nothing to tell, and so nothing wrong.
LEMMA UnknownTells == Tells("UNKNOWN") /\ Tells("ABSENT")
  BY DEF Tells

\* What was true of a turn stays true while it only goes forward.
LEMMA StaysTrue ==
  ASSUME TypeOK,
         turn' = turn \/ turn = "none" \/ (turn = "running" /\ turn' # "none"),
         AnswersTrue, UNCHANGED <<mem, disk>>
  PROVE  AnswersTrue'
  <1>1. ASSUME NEW o, Tells(o) PROVE Tells(o)'
    BY <1>1 DEF TypeOK, Ended, Tells
  <1> QED BY <1>1 DEF AnswersTrue

SendRecord == [obs : {"ABSENT", "UNKNOWN", "RUNNING"} \cup Terminal,
               command : BOOLEAN, known : BOOLEAN]

\* One operation of m is given another observation.
LEMMA SetSendFacts ==
  ASSUME NEW m \in ChannelState, NEW s \in SendOps,
         NEW o \in {"ABSENT", "UNKNOWN", "RUNNING"} \cup Terminal, Reports(m), Tells(o)
  PROVE  /\ SetSend(m, s, o) \in ChannelState
         /\ SetSend(m, s, o).active = m.active
         /\ Reports(SetSend(m, s, o))
  <1> DEFINE x == SetSend(m, s, o)
  <1>1. x \in ChannelState /\ x.active = m.active /\ x.cancels = m.cancels
    <2>1. [m.sends[s] EXCEPT !.obs = o] \in SendRecord
      BY DEF ChannelState, SendRecord
    <2>2. x = [m EXCEPT !.sends = [m.sends EXCEPT ![s] = [m.sends[s] EXCEPT !.obs = o]]]
      BY DEF SetSend
    <2>3. x.sends = [m.sends EXCEPT ![s] = [m.sends[s] EXCEPT !.obs = o]]
      BY <2>2 DEF ChannelState
    <2>4. x.sends \in [SendOps -> SendRecord]
      BY <2>1, <2>3 DEF ChannelState, SendRecord
    <2>5. /\ x.reservation = m.reservation /\ x.active = m.active /\ x.cancels = m.cancels
          /\ x = [reservation |-> m.reservation, active |-> m.active, sends |-> x.sends,
                  cancels |-> m.cancels]
      BY <2>2, <2>3 DEF ChannelState
    <2> QED BY <2>4, <2>5 DEF ChannelState, SendRecord
  <1>2. \A t \in SendOps : x.sends[t].obs = IF t = s THEN o ELSE m.sends[t].obs
    BY DEF SetSend, ChannelState
  <1> QED BY <1>1, <1>2 DEF Reports

WithRecord(m, s, a, r) == [m EXCEPT !.active = a, !.sends[s] = r]

\* One operation of m gets a new record, and m is about the operation a.
LEMMA RecordFacts ==
  ASSUME NEW m \in ChannelState, NEW s \in SendOps, NEW a \in SendOps \cup {None},
         NEW r \in SendRecord, NEW x, x = WithRecord(m, s, a, r)
  PROVE  /\ x \in ChannelState /\ x.active = a /\ x.cancels = m.cancels
         /\ \A t \in SendOps : x.sends[t].obs = IF t = s THEN r.obs ELSE m.sends[t].obs
  BY DEF ChannelState, SendRecord, WithRecord

\* The turn of an operation becomes known.
LEMMA KnownFacts ==
  ASSUME NEW m \in ChannelState, NEW s \in SendOps
  PROVE  LET x == [m EXCEPT !.sends[s].known = TRUE] IN
         /\ x \in ChannelState /\ x.active = m.active /\ x.cancels = m.cancels
         /\ \A t \in SendOps : x.sends[t].obs = m.sends[t].obs
  <1>1. m.sends[s] \in SendRecord
    BY DEF ChannelState, SendRecord
  <1> DEFINE r == [m.sends[s] EXCEPT !.known = TRUE]
  <1>2. r \in SendRecord /\ r.obs = m.sends[s].obs
    BY <1>1 DEF SendRecord
  <1> DEFINE x == [m EXCEPT !.sends[s].known = TRUE]
  <1>3. /\ x.reservation = m.reservation /\ x.active = m.active /\ x.cancels = m.cancels
        /\ x.sends = [m.sends EXCEPT ![s] = r]
        /\ x = [m EXCEPT !.sends = [m.sends EXCEPT ![s] = r]]
    BY DEF ChannelState
  <1> HIDE DEF r
  <1>4. [m.sends EXCEPT ![s] = r] \in [SendOps -> SendRecord]
    BY <1>2 DEF ChannelState, SendRecord
  <1>5. x \in ChannelState
    BY <1>3, <1>4 DEF ChannelState, SendRecord
  <1>6. \A t \in SendOps : x.sends[t].obs = m.sends[t].obs
    BY <1>2, <1>3 DEF ChannelState
  <1> QED BY <1>3, <1>5, <1>6

LEMMA SetCancelFacts ==
  ASSUME NEW m \in ChannelState, NEW c \in CancelOps,
         NEW o \in {"ABSENT", "UNKNOWN"} \cup Terminal, Reports(m), Tells(o)
  PROVE  /\ SetCancel(m, c, o) \in ChannelState
         /\ SetCancel(m, c, o).active = m.active
         /\ Reports(SetCancel(m, c, o))
  <1> DEFINE x == SetCancel(m, c, o)
  <1>1. x \in ChannelState /\ x.active = m.active /\ x.sends = m.sends
    BY DEF SetCancel, ChannelState
  <1>2. \A t \in CancelOps : x.cancels[t].obs = IF t = c THEN o ELSE m.cancels[t].obs
    BY DEF SetCancel, ChannelState
  <1> QED BY <1>1, <1>2 DEF Reports

------------------------------------------------------------------------------
(* Steps that change the channel and nothing else.                          *)

\* A call that ends with m in memory, true and about the same turn.
LEMMA FinishPreserves ==
  ASSUME IInv, NEW m, Finish(m),
         m \in ChannelState, m.active = mem.active, Reports(m)
  PROVE  IInv'
  <1> USE DEF IInv, Finish, Saved, Unsaved, Return, Goto, Fault, provider, clientVars
  <1>1. TypeOK'
    BY TurnChannelAssumption DEF TypeOK
  <1>2. Calls' /\ Recorded' /\ Once' /\ Heard'
    BY DEF Calls, Recorded, Once, PromptedOnce, Heard, Tidings
  <1>3. \A o : Tells(o)' <=> Tells(o)
    BY DEF Tells
  <1>4. AnswersTrue'
    BY <1>3, AnswersReported DEF AnswersTrue, Reports
  <1> QED BY <1>1, <1>2, <1>4

\* A send that gives its operation another observation.
LEMMA SendFinishes ==
  ASSUME IInv, NEW s \in SendOps,
         NEW o \in {"ABSENT", "UNKNOWN", "RUNNING"} \cup Terminal, Tells(o),
         Finish(SetSend(mem, s, o))
  PROVE  IInv'
  <1>1. mem \in ChannelState /\ Reports(mem)
    BY AnswersReported DEF IInv, TypeOK
  <1> QED BY <1>1, SetSendFacts, FinishPreserves

\* Or a cancellation.
LEMMA CancelFinishes ==
  ASSUME IInv, NEW c \in CancelOps, NEW o \in {"ABSENT", "UNKNOWN"} \cup Terminal, Tells(o),
         Finish(SetCancel(mem, c, o))
  PROVE  IInv'
  <1>1. mem \in ChannelState /\ Reports(mem)
    BY AnswersReported DEF IInv, TypeOK
  <1> QED BY <1>1, SetCancelFacts, FinishPreserves

------------------------------------------------------------------------------
(* The actions.                                                             *)

\* The answers stay as they are, in memory and in the file, or the file takes over
\* what is in memory.
LEMMA SavedTells ==
  ASSUME IInv, Reports(mem)', disk' = disk \/ disk' = mem', turn' = turn
  PROVE  AnswersTrue'
  <1>1. \A o : Tells(o)' <=> Tells(o)
    BY DEF Tells
  <1>2. Reports(disk)
    BY AnswersReported DEF IInv
  <1> QED BY <1>1, <1>2 DEF AnswersTrue, Reports

LEMMA ReservePreserves ==
  ASSUME IInv, Reserve \/ ThreadStarted \/ ReserveFails
  PROVE  IInv'
  <1> USE DEF IInv, Saved, Unsaved, Return, Goto, Fault, provider, clientVars, Idle
  <1>1. Reports(mem)
    BY AnswersReported
  <1>2. \A o : turn' = turn => (Tells(o)' <=> Tells(o))
    BY DEF Tells
  <1>3. CASE Reserve
    <2>1. mem' \in ChannelState /\ mem'.active = mem.active
          /\ mem'.sends = mem.sends /\ mem'.cancels = mem.cancels
      BY <1>3 DEF Reserve, TypeOK, ChannelState
    <2>2. TypeOK'
      BY <1>3, <2>1, TurnChannelAssumption DEF Reserve, TypeOK
    <2>3. Calls' /\ Recorded' /\ Once' /\ Heard'
      BY <1>3, <2>1 DEF Reserve, Calls, Recorded, Once, PromptedOnce, Heard, Tidings
    <2>4. AnswersTrue'
      BY <1>1, <1>2, <1>3, <2>1, SavedTells DEF Reserve, Reports
    <2> QED BY <2>2, <2>3, <2>4
  <1>4. CASE ThreadStarted
    <2>1. mem' \in ChannelState /\ mem'.active = mem.active
          /\ mem'.sends = mem.sends /\ mem'.cancels = mem.cancels
      BY <1>4 DEF ThreadStarted, TypeOK, ChannelState
    <2>2. TypeOK'
      BY <1>4, <2>1, TurnChannelAssumption DEF ThreadStarted, TypeOK
    <2>3. Calls' /\ Recorded' /\ Once' /\ Heard'
      BY <1>4, <2>1 DEF ThreadStarted, Calls, Recorded, Once, PromptedOnce, Heard, Tidings
    <2>4. AnswersTrue'
      BY <1>1, <1>2, <1>4, <2>1, SavedTells DEF ThreadStarted, Reports
    <2> QED BY <2>2, <2>3, <2>4
  <1>5. CASE ReserveFails
    <2>1. TypeOK'
      BY <1>5, TurnChannelAssumption DEF ReserveFails, TypeOK
    <2>2. Calls' /\ Recorded' /\ Once' /\ Heard'
      BY <1>5 DEF ReserveFails, Calls, Recorded, Once, PromptedOnce, Heard, Tidings
    <2>3. AnswersTrue'
      BY <1>5, StaysTrue DEF ReserveFails
    <2> QED BY <2>1, <2>2, <2>3
  <1> QED BY <1>3, <1>4, <1>5

\* The file has the record when the call goes on to the request.
LEMMA SendPreserves ==
  ASSUME IInv, NEW s \in SendOps, Send(s)
  PROVE  IInv'
  <1> USE DEF IInv, Send, Saved, Unsaved, Return, Goto, Fault, provider, clientVars, Idle
  <1> DEFINE r == [obs |-> "UNKNOWN", command |-> TRUE, known |-> FALSE]
  <1>1. s # None /\ mem.active = None /\ disk.active = None
    BY TurnChannelAssumption DEF Recorded
  <1>2. turn = "none" /\ StartAnswer \notin requests
    BY <1>1 DEF Recorded
  <1>3. /\ mem' \in ChannelState /\ mem'.active = s /\ mem'.cancels = mem.cancels
        /\ \A t \in SendOps : mem'.sends[t].obs = IF t = s THEN "UNKNOWN" ELSE mem.sends[t].obs
    <2>1. mem \in ChannelState
      BY DEF TypeOK
    <2>2. r \in SendRecord /\ r.obs = "UNKNOWN"
      BY DEF SendRecord
    <2>3. mem' = WithRecord(mem, s, s, r)
      BY DEF WithRecord
    <2> HIDE DEF r, Send
    <2> QED BY <2>1, <2>2, <2>3, RecordFacts
  <1>4. TypeOK'
    BY <1>3, TurnChannelAssumption DEF TypeOK
  <1>5. Calls' /\ Recorded' /\ Once' /\ Heard'
    BY <1>1, <1>2, <1>3 DEF Calls, Recorded, Once, PromptedOnce, Heard, Tidings
  <1>6. Reports(mem)'
    BY <1>3, UnknownTells, AnswersReported DEF Reports, Tells
  <1>7. AnswersTrue'
    BY <1>6, SavedTells
  <1> QED BY <1>4, <1>5, <1>7

LEMMA SendStepPreserves ==
  ASSUME IInv, SendStep
  PROVE  IInv'
  <1> USE DEF IInv, Saved, Unsaved, Return, Goto, Fault, provider, clientVars
  <1>1. mem \in ChannelState /\ Reports(mem)
    BY AnswersReported DEF TypeOK
  <1>2. CASE RequestTurn
    <2>1. TypeOK'
      <3>1. StartAnswer \in Frame
        BY DEF Frame
      <3>2. requests' \subseteq Frame /\ op' \in SendOps \cup CancelOps \cup {None}
        BY <1>2, <3>1 DEF RequestTurn, TypeOK
      <3> QED BY <1>2, <3>2 DEF RequestTurn, TypeOK
    <2>2. Calls' /\ Recorded' /\ Once' /\ Heard'
      BY <1>2 DEF RequestTurn, Calls, Recorded, Once, PromptedOnce, Heard, Tidings
    <2>3. AnswersTrue'
      BY <1>2, StaysTrue DEF RequestTurn
    <2> QED BY <2>1, <2>2, <2>3
  <1>3. CASE TurnAccepted
    <2>1. op \in SendOps /\ mem.active = op
      BY <1>3 DEF TurnAccepted, Calls
    <2>2. mem' \in ChannelState /\ mem'.active = mem.active /\ mem'.cancels = mem.cancels
          /\ \A t \in SendOps : mem'.sends[t].obs = mem.sends[t].obs
      BY <1>1, <1>3, <2>1, KnownFacts DEF TurnAccepted
    <2>3. TypeOK'
      <3>1. responses' \subseteq Frame /\ op' = op
        BY <1>3 DEF TurnAccepted, TypeOK
      <3>2. disk' \in ChannelState /\ faults' \in 0..MaxFaults
        <4>1. \/ disk' = mem' /\ faults' = faults
              \/ disk' = disk /\ faults < MaxFaults /\ faults' = faults + 1
          BY <1>3 DEF TurnAccepted
        <4> QED BY <2>2, <4>1, TurnChannelAssumption DEF TypeOK
      <3>3. pc' \in {"activating", "failing"}
        BY <1>3 DEF TurnAccepted
      <3>4. UNCHANGED <<provider, client, reader, notes, fatal>>
        BY <1>3 DEF TurnAccepted
      <3> QED BY <2>2, <3>1, <3>2, <3>3, <3>4 DEF TypeOK
    <2>4. Calls' /\ Recorded' /\ Once' /\ Heard'
      BY <1>3, <2>1, <2>2 DEF TurnAccepted, Calls, Recorded, Once, PromptedOnce, Heard, Tidings
    <2>5. Reports(mem)'
      BY <1>1, <1>3, <2>2 DEF TurnAccepted, Reports, Tells
    <2>6. AnswersTrue'
      BY <1>3, <2>5, SavedTells DEF TurnAccepted
    <2> QED BY <2>3, <2>4, <2>6
  <1>4. CASE TurnActive
    <2>1. op \in SendOps /\ mem.active = op
      BY <1>4 DEF TurnActive, Calls
    <2>2. Tells("RUNNING")
      BY <1>4 DEF TurnActive, Heard, Tidings, Tells
    <2>3. mem' = SetSend(mem, op, "RUNNING")
      BY <1>4 DEF TurnActive
    <2>4. mem' \in ChannelState /\ mem'.active = mem.active /\ Reports(SetSend(mem, op, "RUNNING"))
      BY <1>1, <2>1, <2>2, <2>3, SetSendFacts
    <2>5. TypeOK'
      BY <1>4, <2>1, <2>4, TurnChannelAssumption DEF TurnActive, TypeOK
    <2>6. Calls' /\ Recorded' /\ Once' /\ Heard'
      BY <1>4, <2>1, <2>4 DEF TurnActive, Calls, Recorded, Once, PromptedOnce, Heard, Tidings
    <2>7. Reports(mem)'
      <3>1. \A x : Tells(x)' <=> Tells(x)
        BY <1>4 DEF TurnActive, Tells
      <3> QED BY <2>3, <2>4, <3>1 DEF Reports
    <2>8. AnswersTrue'
      BY <1>4, <2>7, SavedTells DEF TurnActive
    <2> QED BY <2>5, <2>6, <2>8
  <1>5. CASE TurnApplied
    <2>1. op \in SendOps /\ mem.active = op
      BY <1>5 DEF TurnApplied, Calls
    <2>2. CASE Completed \in notes
      <3>1. turn \in Ended
        BY <2>2 DEF Heard, Tidings
      <3>2. mem' = SetSend(mem, op, TerminalObservation)
        BY <1>5, <2>2 DEF TurnApplied
      <3>3. /\ mem' \in ChannelState /\ mem'.active = mem.active
            /\ Reports(SetSend(mem, op, TerminalObservation))
        BY <1>1, <2>1, <3>1, <3>2, TerminalTells, SetSendFacts
      <3>4. TypeOK'
        BY <1>5, <2>1, <2>2, <3>3, TurnChannelAssumption DEF TurnApplied, TypeOK
      <3>5. Calls' /\ Recorded' /\ Once' /\ Heard'
        BY <1>5, <2>1, <2>2, <3>3
        DEF TurnApplied, Calls, Recorded, Once, PromptedOnce, Heard, Tidings
      <3>6. Reports(mem)'
        <4>1. \A x : Tells(x)' <=> Tells(x)
          BY <1>5 DEF TurnApplied, Tells
        <4> QED BY <3>2, <3>3, <4>1 DEF Reports
      <3>7. AnswersTrue'
        BY <1>5, <2>2, <3>6, SavedTells DEF TurnApplied
      <3> QED BY <3>4, <3>5, <3>7
    <2>3. CASE Completed \notin notes
      <3>1. TypeOK'
        BY <1>5, <2>3 DEF TurnApplied, TypeOK
      <3>2. Calls' /\ Recorded' /\ Once' /\ Heard'
        BY <1>5, <2>3 DEF TurnApplied, Calls, Recorded, Once, PromptedOnce, Heard, Tidings
      <3>3. AnswersTrue'
        BY <1>5, <2>3, StaysTrue DEF TurnApplied
      <3> QED BY <3>1, <3>2, <3>3
    <2> QED BY <2>2, <2>3
  <1>6. CASE SendGivesUp
    <2>1. op \in SendOps /\ Finish(SetSend(mem, op, "UNKNOWN"))
      BY <1>6 DEF SendGivesUp, Calls
    <2> QED BY <2>1, UnknownTells, SendFinishes
  <1> QED BY <1>2, <1>3, <1>4, <1>5, <1>6 DEF SendStep

\* What is read from the thread is how the turn is.
LEMMA ReconcilePreserves ==
  ASSUME IInv, NEW s \in SendOps, Reconcile(s) \/ ReconcileFails(s), Idle
  PROVE  IInv'
  <1>1. mem \in ChannelState /\ Reports(mem)
    BY AnswersReported DEF IInv, TypeOK
  <1>2. CASE ReconcileFails(s)
    <2> USE <1>2 DEF ReconcileFails, Return, Goto, Fault, provider, clientVars
    <2>1. /\ mem' \in ChannelState /\ mem'.active = mem.active
          /\ Reports(SetSend(mem, s, "UNKNOWN"))
      BY <1>1, UnknownTells, SetSendFacts
    <2>2. TypeOK'
      BY <2>1, TurnChannelAssumption DEF IInv, TypeOK
    <2>3. Calls' /\ Recorded' /\ Once' /\ Heard'
      BY <2>1 DEF IInv, Calls, Recorded, Once, PromptedOnce, Heard, Tidings
    <2>4. Reports(mem)'
      <3>1. \A x : Tells(x)' <=> Tells(x)
        BY DEF Tells
      <3> QED BY <2>1, <3>1 DEF Reports
    <2>5. AnswersTrue'
      BY <2>4, SavedTells
    <2> QED BY <2>2, <2>3, <2>5 DEF IInv
  <1>3. CASE Finish(SetSend(mem, s, "UNKNOWN"))
    BY <1>3, UnknownTells, SendFinishes
  <1>4. CASE /\ turn # "none"
             /\ Finish([mem EXCEPT !.sends[s].known = TRUE,
                                   !.sends[s].obs = IF turn = "running" THEN "UNKNOWN"
                                                    ELSE TerminalObservation])
    <2> DEFINE o == IF turn = "running" THEN "UNKNOWN" ELSE TerminalObservation
               k == [mem EXCEPT !.sends[s].known = TRUE]
    <2>1. o \in {"ABSENT", "UNKNOWN", "RUNNING"} \cup Terminal /\ Tells(o)
      <3>1. turn # "running" => turn \in Ended
        BY <1>4 DEF IInv, TypeOK
      <3> QED BY <3>1, TerminalTells, UnknownTells
    <2>2. Finish([mem EXCEPT !.sends[s].known = TRUE, !.sends[s].obs = o])
      BY <1>4
    <2>3. [mem EXCEPT !.sends[s].known = TRUE, !.sends[s].obs = o] = SetSend(k, s, o)
      BY DEF SetSend
    <2>4. k \in ChannelState /\ k.active = mem.active /\ Reports(k)
      BY <1>1, KnownFacts DEF Reports
    <2> HIDE DEF o, k
    <2>5. /\ SetSend(k, s, o) \in ChannelState /\ SetSend(k, s, o).active = mem.active
          /\ Reports(SetSend(k, s, o))
      BY <2>1, <2>4, SetSendFacts
    <2> QED BY <2>2, <2>3, <2>5, FinishPreserves
  <1> QED BY <1>2, <1>3, <1>4 DEF Reconcile

LEMMA InspectPreserves ==
  ASSUME IInv, NEW s \in SendOps, SendRejected(s) \/ Inspect(s) \/ SendAgain(s)
  PROVE  IInv'
  <1>1. CASE SendRejected(s)
    BY <1>1, UnknownTells, SendFinishes DEF SendRejected
  <1>2. CASE InspectLive(s)
    <2>1. turn \in Ended
      BY <1>2 DEF InspectLive, IInv, Heard, Tidings
    <2> QED BY <1>2, <2>1, TerminalTells, SendFinishes DEF InspectLive
  <1>3. CASE InspectDead(s) \/ SendAgain(s)
    BY <1>3, ReconcilePreserves DEF InspectDead, SendAgain
  <1> QED BY <1>1, <1>2, <1>3 DEF Inspect

\* A cancellation begins, is turned down, or finds that the turn has ended.
LEMMA CancelPreserves ==
  ASSUME IInv, NEW c \in CancelOps,
         CancelRejected(c) \/ CancelEnded(c) \/ Cancel(c) \/ InspectCancel(c)
  PROVE  IInv'
  <1> DEFINE With(o) == [mem EXCEPT !.cancels[c] = [obs |-> o, command |-> TRUE]]
  <1>1. mem \in ChannelState /\ Reports(mem)
    BY AnswersReported DEF IInv, TypeOK
  <1>2. ASSUME NEW o \in {"ABSENT", "UNKNOWN"} \cup Terminal, Tells(o)
        PROVE  With(o) \in ChannelState /\ With(o).active = mem.active /\ Reports(With(o))
    <2>1. /\ With(o) \in ChannelState
          /\ With(o).active = mem.active /\ With(o).sends = mem.sends
      BY <1>1 DEF ChannelState
    <2>2. \A d \in CancelOps : With(o).cancels[d].obs = IF d = c THEN o ELSE mem.cancels[d].obs
      BY <1>1 DEF ChannelState
    <2> QED BY <1>1, <1>2, <2>1, <2>2 DEF Reports
  <1>3. CASE CancelRejected(c)
    BY <1>3, UnknownTells, CancelFinishes DEF CancelRejected
  <1>4. CASE CancelEnded(c)
    <2> DEFINE o == mem.sends[mem.active].obs
    <2>1. mem.active \in SendOps
      BY <1>1, <1>4 DEF CancelEnded, Cancellable, ChannelState
    <2>2. o \in Terminal /\ Tells(o)
      BY <1>1, <1>4, <2>1 DEF CancelEnded, Reports
    <2>3. Finish(With(o))
      BY <1>4 DEF CancelEnded
    <2> HIDE DEF o, With
    <2> QED BY <1>2, <2>2, <2>3, FinishPreserves
  <1>5. CASE Cancel(c)
    <2> USE DEF IInv, Saved, Unsaved, Return, Goto, Fault, provider, clientVars, Idle
    <2>1. mem' = With("UNKNOWN")
      BY <1>5 DEF Cancel
    <2> HIDE DEF With
    <2>2. mem' \in ChannelState /\ mem'.active = mem.active /\ Reports(With("UNKNOWN"))
      BY <1>2, <2>1, UnknownTells
    <2>3. \/ disk' = mem' /\ faults' = faults /\ pc' = "cancel" /\ op' = c
          \/ /\ disk' = disk /\ faults < MaxFaults /\ faults' = faults + 1
             /\ pc' = "idle" /\ op' = None
      BY <1>5 DEF Cancel
    <2>4. mem.active # None /\ pc = "idle" /\ UNCHANGED <<provider, clientVars>>
      BY <1>5 DEF Cancel, Cancellable
    <2>5. TypeOK'
      BY <2>2, <2>3, <2>4, TurnChannelAssumption DEF TypeOK
    <2>6. Calls' /\ Recorded' /\ Once' /\ Heard'
      BY <2>2, <2>3, <2>4 DEF Calls, Recorded, Once, PromptedOnce, Heard, Tidings
    <2>7. Reports(mem)'
      <3>1. \A x : Tells(x)' <=> Tells(x)
        BY <2>4 DEF Tells
      <3> QED BY <2>1, <2>2, <3>1 DEF Reports
    <2>8. AnswersTrue'
      BY <2>3, <2>4, <2>7, SavedTells
    <2> QED BY <2>5, <2>6, <2>8
  <1>6. CASE InspectCancel(c)
    <2>1. mem.active \in SendOps
      BY <1>1, <1>6 DEF InspectCancel, ChannelState
    <2>2. Tells("CANCELLED")
      BY <1>1, <1>6, <2>1 DEF InspectCancel, Reports
    <2> QED BY <1>6, <2>2, CancelFinishes DEF InspectCancel, Terminal
  <1> QED BY <1>3, <1>4, <1>5, <1>6

\* A turn is cancelled when its end has been heard, and was an interruption.
LEMMA CancelStepPreserves ==
  ASSUME IInv, CancelStep
  PROVE  IInv'
  <1>1. mem \in ChannelState /\ Reports(mem)
    BY AnswersReported DEF IInv, TypeOK
  <1>2. CASE RequestInterrupt
    <2> USE DEF IInv, Goto, provider, clientVars
    <2>1. op \in CancelOps
      BY <1>2 DEF RequestInterrupt, Calls
    <2>2. InterruptAnswer(op) \in Frame /\ InterruptAnswer(op) # StartAnswer
      BY <2>1 DEF Frame, InterruptAnswer, StartAnswer
    <2>3. requests' \subseteq Frame /\ (StartAnswer \in requests' <=> StartAnswer \in requests)
      BY <1>2, <2>2 DEF RequestInterrupt, TypeOK
    <2>4. TypeOK'
      BY <1>2, <2>1, <2>3 DEF RequestInterrupt, TypeOK
    <2>5. Calls' /\ Recorded' /\ Once' /\ Heard'
      BY <1>2, <2>1, <2>3 DEF RequestInterrupt, Calls, Recorded, Once, PromptedOnce, Heard, Tidings
    <2>6. AnswersTrue'
      BY <1>2, StaysTrue DEF RequestInterrupt
    <2> QED BY <2>4, <2>5, <2>6
  <1>3. CASE InterruptAnswered
    <2> USE DEF IInv, Goto, provider
    <2>1. responses' \subseteq Frame
      BY <1>3 DEF InterruptAnswered, TypeOK
    <2>2. TypeOK'
      BY <1>3, <2>1 DEF InterruptAnswered, TypeOK
    <2>3. Calls' /\ Recorded' /\ Once' /\ Heard'
      BY <1>3 DEF InterruptAnswered, Calls, Recorded, Once, PromptedOnce, Heard, Tidings
    <2>4. AnswersTrue'
      BY <1>3, StaysTrue DEF InterruptAnswered
    <2> QED BY <2>2, <2>3, <2>4
  <1>4. CASE TurnCompleted
    <2> DEFINE m == SetSend(mem, mem.active, TerminalObservation)
               o == IF TerminalObservation = "CANCELLED" THEN "CANCELLED" ELSE "UNKNOWN"
    <2>1. op \in CancelOps /\ mem.active \in SendOps
      BY <1>1, <1>4 DEF TurnCompleted, IInv, Calls, ChannelState
    <2>2. turn \in Ended
      BY <1>4 DEF TurnCompleted, IInv, Heard, Tidings
    <2>3. TerminalObservation \in Terminal /\ Tells(TerminalObservation)
      BY <2>2, TerminalTells
    <2>4. m \in ChannelState /\ m.active = mem.active /\ Reports(m)
      BY <1>1, <2>1, <2>3, SetSendFacts
    <2>5. o \in {"ABSENT", "UNKNOWN"} \cup Terminal /\ Tells(o)
      BY <2>3, UnknownTells
    <2>6. Finish(SetCancel(m, op, o))
      BY <1>4 DEF TurnCompleted
    <2> HIDE DEF m, o
    <2>7. /\ SetCancel(m, op, o) \in ChannelState
          /\ SetCancel(m, op, o).active = mem.active
          /\ Reports(SetCancel(m, op, o))
      BY <2>1, <2>4, <2>5, SetCancelFacts
    <2> QED BY <2>6, <2>7, FinishPreserves
  <1>5. CASE CancelGivesUp
    <2>1. op \in CancelOps /\ Finish(SetCancel(mem, op, "UNKNOWN"))
      BY <1>5 DEF CancelGivesUp, IInv, Calls
    <2> QED BY <2>1, UnknownTells, CancelFinishes
  <1> QED BY <1>2, <1>3, <1>4, <1>5 DEF CancelStep

------------------------------------------------------------------------------
(* The reader, the end of the client, and the app-server.                   *)

\* A frame is still a frame, and says the same, when it is read.
LEMMA ReadPreserves ==
  ASSUME IInv, Read \/ ReaderStops
  PROVE  IInv'
  <1> USE DEF IInv, call, provider
  <1>1. CASE Read
    <2>1. out \in Seq(Frame) /\ out # <<>>
      BY <1>1 DEF Read, TypeOK
    <2>2. /\ Head(out) \in Frame /\ Head(out) = out[1] /\ 1 \in DOMAIN out
          /\ Tail(out) \in Seq(Frame)
          /\ \A i \in DOMAIN Tail(out) : i + 1 \in DOMAIN out /\ Tail(out)[i] = out[i + 1]
      BY <2>1
    <2>3. /\ out' = Tail(out)
          /\ \/ notes' = notes
             \/ notes' = notes \cup {Head(out)} /\ Head(out) \in Notifications
          /\ responses' \subseteq Frame
          /\ reader' \in {"reading", "calling"}
          /\ reader' = "calling" => Head(out) = Completed
          /\ UNCHANGED <<prompts, turn, server, requests, owed, client, fatal, pc, op, mem,
                         disk, faults>>
      BY <1>1, <2>2 DEF Read, TypeOK
    <2>4. TypeOK'
      BY <2>2, <2>3 DEF TypeOK
    <2>5. Calls' /\ Recorded' /\ Once'
      BY <2>3 DEF Calls, Recorded, Once, PromptedOnce
    <2>6. ASSUME NEW f, Tidings(f)' PROVE Tidings(f)
      BY <2>2, <2>3, <2>6 DEF Tidings
    <2>7. reader' = "calling" => Tidings(Completed)
      BY <2>2, <2>3 DEF Tidings
    <2>8. Heard'
      BY <2>3, <2>6, <2>7 DEF Heard
    <2>9. AnswersTrue'
      BY <2>3, StaysTrue
    <2> QED BY <2>4, <2>5, <2>8, <2>9
  <1>2. CASE ReaderStops
    <2>1. TypeOK'
      BY <1>2, TurnChannelAssumption DEF ReaderStops, Fault, TypeOK
    <2>2. Calls' /\ Recorded' /\ Once' /\ Heard'
      BY <1>2 DEF ReaderStops, Calls, Recorded, Once, PromptedOnce, Heard, Tidings
    <2>3. AnswersTrue'
      BY <1>2, StaysTrue DEF ReaderStops
    <2> QED BY <2>1, <2>2, <2>3
  <1> QED BY <1>1, <1>2

\* The reader calls back because the turn has ended.
LEMMA OnFramePreserves ==
  ASSUME IInv, OnFrame
  PROVE  IInv'
  <1> USE DEF IInv, Saved, Unsaved, Fault, call, provider, Idle
  <1>1. mem \in ChannelState /\ Reports(mem)
    BY AnswersReported DEF TypeOK
  <1>2. turn \in Ended
    BY DEF OnFrame, Heard
  <1>3. /\ pc = "idle" /\ reader' = "reading"
        /\ UNCHANGED <<provider, client, responses, notes, call>>
    BY DEF OnFrame
  <1>4. /\ mem' \in ChannelState /\ mem'.active = mem.active /\ Reports(mem)'
        /\ disk' = disk \/ disk' = mem'
        /\ fatal' \in BOOLEAN /\ faults' \in 0..MaxFaults
    <2>1. \A x : Tells(x)' <=> Tells(x)
      BY <1>3 DEF Tells
    <2>2. CASE Cancellable
      <3>1. mem.active \in SendOps
        BY <1>1, <2>2 DEF Cancellable, ChannelState
      <3>2. /\ mem' = SetSend(mem, mem.active, TerminalObservation)
            /\ \/ disk' = mem' /\ faults' = faults /\ fatal' = fatal
               \/ /\ disk' = disk /\ fatal' = TRUE
                  /\ faults < MaxFaults /\ faults' = faults + 1
        BY <2>2 DEF OnFrame
      <3>3. /\ SetSend(mem, mem.active, TerminalObservation) \in ChannelState
            /\ SetSend(mem, mem.active, TerminalObservation).active = mem.active
            /\ Reports(SetSend(mem, mem.active, TerminalObservation))
        BY <1>1, <1>2, <3>1, TerminalTells, SetSendFacts
      <3>4. Reports(mem)'
        BY <2>1, <3>2, <3>3 DEF Reports
      <3>5. fatal' \in BOOLEAN
        BY <3>2 DEF TypeOK
      <3>6. faults' \in 0..MaxFaults
        <4>1. faults \in 0..MaxFaults
          BY DEF TypeOK
        <4> QED BY <3>2, <4>1, TurnChannelAssumption
      <3> QED BY <3>2, <3>3, <3>4, <3>5, <3>6
    <2>3. CASE ~Cancellable
      <3>1. UNCHANGED <<mem, disk, faults, fatal>>
        BY <2>3 DEF OnFrame
      <3> QED BY <1>1, <2>1, <3>1 DEF TypeOK, Reports
    <2> QED BY <2>2, <2>3
  <1>5. TypeOK'
    BY <1>3, <1>4 DEF TypeOK
  <1>6. Calls' /\ Recorded' /\ Once' /\ Heard'
    BY <1>3, <1>4 DEF Calls, Recorded, Once, PromptedOnce, Heard, Tidings
  <1>7. AnswersTrue'
    BY <1>3, <1>4, SavedTells
  <1> QED BY <1>5, <1>6, <1>7

\* The turn goes on only as far as being found interrupted.
LEMMA ServerEndsFacts ==
  ASSUME IInv, ServerEnds
  PROVE  /\ requests' = {} /\ owed' = {} /\ server' = "gone" /\ prompts' = prompts
         /\ turn' = turn \/ (turn = "running" /\ turn' = "interrupted")
         /\ turn' \in {"none", "running"} \cup Ended
         /\ turn \in Ended => turn' \in Ended
  BY DEF IInv, TypeOK, ServerEnds, Ended

\* Nothing is left of the client.
LEMMA NoClientFacts ==
  ASSUME NoClient
  PROVE  /\ client' \in BOOLEAN /\ fatal' \in BOOLEAN
         /\ reader' \in {"reading", "calling", "stopped"}
         /\ out' \in Seq(Frame) /\ responses' \subseteq Frame /\ notes' \subseteq Notifications
  <1>1. out' \in Seq(Frame)
    BY DEF NoClient
  <1>2. client' \in BOOLEAN /\ fatal' \in BOOLEAN
    BY DEF NoClient
  <1>3. reader' \in {"reading", "calling", "stopped"}
    BY DEF NoClient
  <1>4. responses' \subseteq Frame /\ notes' \subseteq Notifications
    BY DEF NoClient
  <1> QED BY <1>1, <1>2, <1>3, <1>4

LEMMA EndsPreserve ==
  ASSUME IInv, Close \/ Crash \/ ServerExits
  PROVE  IInv'
  <1> USE DEF IInv, call, provider, clientVars, Return, Goto, Fault
  <1>1. CASE ServerExits
    <2>1. /\ ServerEnds
          /\ UNCHANGED <<out, client, reader, responses, notes, fatal, pc, op, mem, disk, faults>>
      BY <1>1 DEF ServerExits
    <2>2. TypeOK'
      <3>1. /\ requests' = {} /\ owed' = {} /\ server' = "gone" /\ prompts' = prompts
            /\ turn' \in {"none", "running"} \cup Ended
        BY <2>1, ServerEndsFacts
      <3> QED BY <2>1, <3>1 DEF TypeOK
    <2>3. Calls' /\ Recorded' /\ Once' /\ Heard'
      BY <2>1, ServerEndsFacts DEF Calls, Recorded, Once, PromptedOnce, Heard, Tidings
    <2>4. AnswersTrue'
      BY <2>1, ServerEndsFacts, StaysTrue
    <2> QED BY <2>2, <2>3, <2>4
  <1>2. CASE Close
    <2>1. /\ ServerEnds /\ NoClient /\ UNCHANGED <<pc, op, mem, disk, faults>>
      BY <1>2 DEF Close
    <2>2. TypeOK'
      <3>1. /\ requests' = {} /\ owed' = {} /\ server' = "gone" /\ prompts' = prompts
            /\ turn' \in {"none", "running"} \cup Ended
        BY <2>1, ServerEndsFacts
      <3> QED BY <2>1, <3>1, NoClientFacts DEF TypeOK
    <2>3. Calls' /\ Recorded' /\ Once' /\ Heard'
      BY <2>1, ServerEndsFacts
      DEF NoClient, Calls, Recorded, Once, PromptedOnce, Heard, Tidings
    <2>4. AnswersTrue'
      BY <2>1, ServerEndsFacts, StaysTrue
    <2> QED BY <2>2, <2>3, <2>4
  <1>3. CASE Crash
    <2>1. /\ mem' = disk /\ pc' = "idle" /\ op' = None /\ NoClient
          /\ faults < MaxFaults /\ faults' = faults + 1
          /\ UNCHANGED <<prompts, turn, server, requests, owed, disk>>
      BY <1>3 DEF Crash
    <2>2. TypeOK'
      <3>1. faults' \in 0..MaxFaults
        <4>1. faults \in 0..MaxFaults
          BY DEF TypeOK
        <4> QED BY <2>1, <4>1, TurnChannelAssumption
      <3> QED BY <2>1, <3>1, NoClientFacts DEF TypeOK
    <2>3. Calls' /\ Recorded' /\ Once' /\ Heard'
      BY <2>1 DEF NoClient, Calls, Recorded, Once, PromptedOnce, Heard, Tidings
    <2>4. Reports(mem)'
      <3>1. \A x : Tells(x)' <=> Tells(x)
        BY <2>1 DEF Tells
      <3> QED BY <2>1, <3>1, AnswersReported DEF Reports
    <2>5. AnswersTrue'
      BY <2>1, <2>4, SavedTells
    <2> QED BY <2>2, <2>3, <2>5
  <1> QED BY <1>1, <1>2, <1>3

LEMMA ServerPreserves ==
  ASSUME IInv, TakeStart \/ (\E c \in CancelOps : TakeInterrupt(c)) \/ EndTurn \/ Write
  PROVE  IInv'
  <1> USE DEF IInv, call, clientVars
  <1>1. CASE TakeStart
    <2>1. turn = "none" /\ prompts = 0 /\ pc # "start"
      BY <1>1 DEF TakeStart, Once
    <2>2. {StartAnswer, Started, StartRefused} \subseteq Frame
          /\ StartAnswer # Completed /\ Started # Completed /\ StartRefused # Completed
          /\ StartRefused # Started
      BY DEF Frame, Notifications, StartAnswer, Started, Completed, StartRefused
    <2>3. /\ requests' = requests \ {StartAnswer} /\ StartAnswer \in requests
          /\ \/ prompts' = 1 /\ turn' = "running" /\ owed' = owed \cup {StartAnswer, Started}
             \/ prompts' = prompts /\ turn' = turn /\ owed' = owed \cup {StartRefused}
          /\ UNCHANGED <<server, out, client, reader, responses, notes, fatal, pc, op, mem,
                         disk, faults>>
      BY <1>1, <2>1 DEF TakeStart
    <2>4. TypeOK'
      BY <2>1, <2>2, <2>3 DEF TypeOK
    <2>5. Calls' /\ Recorded' /\ Once' /\ Heard'
      BY <2>1, <2>2, <2>3 DEF Calls, Recorded, Once, PromptedOnce, Heard, Tidings, Ended
    <2>6. AnswersTrue'
      BY <2>1, <2>3, StaysTrue
    <2> QED BY <2>4, <2>5, <2>6
  <1>2. ASSUME NEW c \in CancelOps, TakeInterrupt(c) PROVE IInv'
    <2> DEFINE f == IF turn = "running" THEN InterruptAnswer(c) ELSE InterruptRefused(c)
    <2>1. f \in Frame /\ f \notin Notifications /\ InterruptAnswer(c) # StartAnswer
      BY DEF Frame, Notifications, Started, Completed, InterruptAnswer, InterruptRefused,
             StartAnswer
    <2>2. /\ requests' = requests \ {InterruptAnswer(c)} /\ owed' = owed \cup {f}
          /\ UNCHANGED <<prompts, turn, server, out, client, reader, responses, notes, fatal,
                         pc, op, mem, disk, faults>>
      BY <1>2 DEF TakeInterrupt
    <2> HIDE DEF f
    <2>3. TypeOK'
      BY <2>1, <2>2 DEF TypeOK
    <2>4. Calls' /\ Recorded' /\ Once'
      BY <2>2 DEF Calls, Recorded, Once, PromptedOnce
    <2>5. Heard'
      BY <2>1, <2>2 DEF Heard, Tidings, Notifications
    <2>6. AnswersTrue'
      BY <2>2, StaysTrue
    <2> QED BY <2>3, <2>4, <2>5, <2>6
  <1>3. CASE EndTurn
    <2>1. Completed \in Frame /\ Completed # Started
      BY DEF Frame, Notifications, Completed, Started
    <2>2. /\ turn = "running" /\ turn' \in Ended /\ owed' = owed \cup {Completed}
          /\ UNCHANGED <<prompts, server, requests, out, client, reader, responses, notes,
                         fatal, pc, op, mem, disk, faults>>
      BY <1>3 DEF EndTurn
    <2>3. turn' # "none"
      BY <2>2 DEF Ended
    <2>4. TypeOK'
      BY <2>1, <2>2 DEF TypeOK
    <2>5. Calls' /\ Recorded' /\ Once' /\ Heard'
      BY <2>1, <2>2, <2>3 DEF Calls, Recorded, Once, PromptedOnce, Heard, Tidings
    <2>6. AnswersTrue'
      BY <2>2, <2>3, StaysTrue
    <2> QED BY <2>4, <2>5, <2>6
  <1>4. CASE Write
    <2>1. PICK f \in owed : /\ owed' = owed \ {f}
                            /\ out' = IF client THEN Append(out, f) ELSE out
      BY <1>4 DEF Write
    <2>2. UNCHANGED <<prompts, turn, server, requests, client, reader, responses, notes, fatal,
                      pc, op, mem, disk, faults>>
      BY <1>4 DEF Write
    <2>3. f \in Frame /\ out \in Seq(Frame)
      BY DEF TypeOK
    <2>4. /\ out' \in Seq(Frame)
          /\ \A i \in DOMAIN out' : out'[i] = f \/ (i \in DOMAIN out /\ out'[i] = out[i])
      BY <2>1, <2>3
    <2>5. TypeOK'
      BY <2>1, <2>2, <2>4 DEF TypeOK
    <2>6. Calls' /\ Recorded' /\ Once'
      BY <2>2 DEF Calls, Recorded, Once, PromptedOnce
    <2>7. ASSUME NEW g, Tidings(g)' PROVE Tidings(g)
      BY <2>1, <2>2, <2>4, <2>7 DEF Tidings
    <2>8. Heard'
      BY <2>2, <2>7 DEF Heard
    <2>9. AnswersTrue'
      BY <2>2, StaysTrue
    <2> QED BY <2>5, <2>6, <2>8, <2>9
  <1> QED BY <1>1, <1>2, <1>3, <1>4

------------------------------------------------------------------------------
(* The theorems.                                                            *)

LEMMA Initially == Init => IInv
  <1> SUFFICES ASSUME Init PROVE IInv
    OBVIOUS
  <1>1. mem \in ChannelState /\ disk \in ChannelState
    BY DEF Init, ChannelState, NoSend, NoCancel
  <1>2. out = <<>> /\ out \in Seq(Frame)
    BY DEF Init
  <1>3. TypeOK
    <2>1. prompts \in Nat /\ faults \in 0..MaxFaults
      BY TurnChannelAssumption DEF Init
    <2>2. client \in BOOLEAN /\ fatal \in BOOLEAN
      BY DEF Init
    <2>3. /\ turn = "none" /\ server = "none" /\ reader = "reading" /\ pc = "idle" /\ op = None
          /\ requests = {} /\ owed = {} /\ responses = {} /\ notes = {}
      BY DEF Init
    <2> QED BY <1>1, <1>2, <2>1, <2>2, <2>3 DEF TypeOK
  <1>4. Calls /\ Recorded /\ Once /\ Heard
    BY DEF Init, Calls, Recorded, Once, PromptedOnce, Heard, Tidings
  <1>5. Reports(mem) /\ Reports(disk)
    BY UnknownTells DEF Init, NoSend, NoCancel, Reports
  <1> QED BY <1>3, <1>4, <1>5, AnswersReported DEF IInv

LEMMA Inductive == IInv /\ [Next]_vars => IInv'
  <1> SUFFICES ASSUME IInv, [Next]_vars PROVE IInv'
    OBVIOUS
  <1>1. CASE Reserve \/ ThreadStarted \/ ReserveFails
    BY <1>1, ReservePreserves
  <1>2. ASSUME NEW s \in SendOps, Send(s) \/ SendRejected(s) \/ Inspect(s) \/ SendAgain(s)
        PROVE  IInv'
    BY <1>2, SendPreserves, InspectPreserves
  <1>3. CASE SendStep
    BY <1>3, SendStepPreserves
  <1>4. ASSUME NEW c \in CancelOps,
               CancelRejected(c) \/ CancelEnded(c) \/ Cancel(c) \/ InspectCancel(c)
        PROVE  IInv'
    BY <1>4, CancelPreserves
  <1>5. CASE CancelStep
    BY <1>5, CancelStepPreserves
  <1>6. CASE Read \/ OnFrame \/ ReaderStops
    BY <1>6, ReadPreserves, OnFramePreserves
  <1>7. CASE Close \/ Crash \/ ServerExits
    BY <1>7, EndsPreserve
  <1>8. CASE TakeStart \/ (\E c \in CancelOps : TakeInterrupt(c)) \/ EndTurn \/ Write
    BY <1>8, ServerPreserves
  <1>9. CASE UNCHANGED vars
    <2> USE <1>9 DEF vars, provider, clientVars, call
    <2>1. TypeOK' /\ Calls' /\ Recorded' /\ Once' /\ Heard'
      BY DEF IInv, TypeOK, Calls, Recorded, Once, PromptedOnce, Heard, Tidings
    <2>2. AnswersTrue'
      BY StaysTrue DEF IInv
    <2> QED BY <2>1, <2>2 DEF IInv
  <1> QED BY <1>1, <1>2, <1>3, <1>4, <1>5, <1>6, <1>7, <1>8, <1>9 DEF Next

\* The invariant holds in every state of the channel.
THEOREM Invariant == Spec => []IInv
  BY Initially, Inductive, PTL DEF Spec

\* Every variable keeps its type.
THEOREM TypeCorrect == Spec => []TypeOK
  <1>1. IInv => TypeOK
    BY DEF IInv
  <1> QED BY Invariant, <1>1, PTL

\* A worker is prompted at most once, whatever is repeated, under however many
\* operation ids, and wherever the program dies or its file cannot be written.
THEOREM PromptedOnceAlways == Spec => []PromptedOnce
  <1>1. IInv => PromptedOnce
    BY DEF IInv, Once
  <1> QED BY Invariant, <1>1, PTL

\* What the channel answers about a turn is how the turn is.
THEOREM AnswersTrueAlways == Spec => []AnswersTrue
  <1>1. IInv => AnswersTrue
    BY DEF IInv
  <1> QED BY Invariant, <1>1, PTL

=============================================================================
