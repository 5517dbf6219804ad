----------------------------- MODULE TurnChannel -----------------------------
(***************************************************************************)
(* The channel between one attempt and its Codex worker                    *)
(* (adapters/providers/codex_app_server.py): reserve, send, inspect and    *)
(* cancel, which keep what they know in a state file; the client, whose    *)
(* reader thread takes the frames of the app-server and calls the channel  *)
(* back; and the app-server, a process of its own that may outlive the     *)
(* program.                                                                *)
(*                                                                         *)
(* Abstractions.  The channel has one reservation.  A thread has the turns *)
(* that were prompted on it; more than one is what PromptedOnce rules out, *)
(* so only the state of the last is kept.  What a turn produces matters as *)
(* far as its structured result is valid or not, which the provider        *)
(* chooses.  The frames of one turn are its start and its end: its start   *)
(* is the first turn/started or item/started, which the client takes       *)
(* alike.  A process that only reads the thread comes and goes within one  *)
(* step.                                                                   *)
(***************************************************************************)
EXTENDS Naturals, Sequences

CONSTANTS
  SendOps,    \* operation ids of SendTaskPacket
  CancelOps,  \* operation ids of CancelTurn
  None,       \* no operation
  MaxFaults   \* bound: crashes, failed writes and reads, broken pipes

ASSUME TurnChannelAssumption ==
  /\ None \notin SendOps \cup CancelOps
  /\ SendOps \cap CancelOps = {}
  /\ MaxFaults \in Nat

VARIABLES
  \* the app-server
  prompts,    \* how many turns it has started on the thread
  turn,       \* the state of the last of them
  server,     \* "none", "running" or "gone"
  requests,   \* what is in its standard input
  owed,       \* frames it has yet to write
  out,        \* frames in its standard output
  \* the client
  client,     \* there is one
  reader,     \* "reading", "calling" the channel back, or "stopped"
  responses,  \* answers nobody has taken
  notes,      \* notifications
  fatal,      \* it refuses to wait any more
  \* the channel
  pc, op,     \* the call that holds its lock, and for which operation
  mem,        \* _state
  disk,       \* channel-state.json
  faults

provider == <<prompts, turn, server, requests, owed, out>>
clientVars == <<client, reader, responses, notes, fatal>>
call == <<pc, op>>
vars == <<provider, clientVars, call, mem, disk, faults>>

Ended == {"completed", "invalid", "interrupted", "failed"}
Terminal == {"DONE", "FAILED", "CANCELLED"}

\* Frames: the answers to the requests, by their id, and the two notifications.
StartAnswer == <<"turn/start", None>>
StartRefused == <<"refused", None>>
InterruptAnswer(c) == <<"turn/interrupt", c>>
InterruptRefused(c) == <<"refused", c>>
Started == <<"turn/started", None>>
Completed == <<"turn/completed", None>>
Notifications == {Started, Completed}

\* _terminal_observation: a completed turn whose result is not valid is FAILED.
TerminalObservation ==
  CASE turn = "completed" -> "DONE"
    [] turn = "interrupted" -> "CANCELLED"
    [] turn \in {"invalid", "failed"} -> "FAILED"

NoSend == [obs |-> "ABSENT", command |-> FALSE, known |-> FALSE]
NoCancel == [obs |-> "ABSENT", command |-> FALSE]

Init ==
  /\ prompts = 0 /\ turn = "none" /\ server = "none"
  /\ requests = {} /\ owed = {} /\ out = <<>>
  /\ client = FALSE /\ reader = "reading" /\ responses = {} /\ notes = {} /\ fatal = FALSE
  /\ pc = "idle" /\ op = None
  /\ mem = [reservation |-> "ABSENT", active |-> None,
            sends |-> [s \in SendOps |-> NoSend], cancels |-> [c \in CancelOps |-> NoCancel]]
  /\ disk = mem
  /\ faults = 0

------------------------------------------------------------------------------
(* Helpers.                                                                 *)

Fault == faults < MaxFaults /\ faults' = faults + 1

Goto(l, o) == pc' = l /\ op' = o

Idle == pc = "idle"

Return == Goto("idle", None)

\* _save_state replaces the file, or raises and leaves it as it was.
Saved == disk' = mem' /\ UNCHANGED faults
Unsaved == disk' = disk /\ Fault

\* The channel alone changes, and the call is over whether it could be saved or not.
Finish(m) ==
  /\ mem' = m
  /\ Saved \/ Unsaved
  /\ Return
  /\ UNCHANGED <<provider, clientVars>>

\* is_alive.
Alive == client /\ server = "running"

\* _raise_if_unavailable lets the caller go on.
Available == Alive /\ ~fatal

SetSend(m, s, o) == [m EXCEPT !.sends[s].obs = o]
SetCancel(m, c, o) == [m EXCEPT !.cancels[c].obs = o]

------------------------------------------------------------------------------
(* reserve.                                                                 *)

Reserve ==
  /\ Idle /\ mem.reservation = "ABSENT"
  /\ mem' = [mem EXCEPT !.reservation = "UNKNOWN"]
  /\ \/ Saved /\ Goto("connect", None)
     \/ Unsaved /\ Return
  /\ UNCHANGED <<provider, clientVars>>

ThreadStarted ==
  /\ pc = "connect"
  /\ server' = "running" /\ client' = TRUE
  /\ mem' = [mem EXCEPT !.reservation = "APPLIED"]
  /\ Saved \/ Unsaved
  /\ Return
  /\ UNCHANGED <<prompts, turn, requests, owed, out, reader, responses, notes, fatal>>

\* No connection, no thread, or a thread that could not be saved.
ReserveFails ==
  /\ pc = "connect"
  /\ Fault
  /\ \/ UNCHANGED <<server, client>>
     \/ server' = "running" /\ client' \in BOOLEAN
  /\ UNCHANGED <<mem, disk>>
  /\ Return
  /\ UNCHANGED <<prompts, turn, requests, owed, out, reader, responses, notes, fatal>>

------------------------------------------------------------------------------
(* send.                                                                    *)

SendBeside(s) ==
  /\ Idle /\ mem.sends[s].obs = "ABSENT"
  /\ mem.reservation = "APPLIED"
  /\ mem' = [mem EXCEPT !.active = s,
                        !.sends[s] = [obs |-> "UNKNOWN", command |-> TRUE, known |-> FALSE]]
  /\ \/ Saved /\ Goto("start", s)
     \/ Unsaved /\ Return
  /\ UNCHANGED <<provider, clientVars>>

\* The record of the operation is in the file before the provider hears of it.
Send(s) ==
  /\ Idle /\ mem.sends[s].obs = "ABSENT"
  /\ mem.reservation = "APPLIED" /\ mem.active = None
  /\ mem' = [mem EXCEPT !.active = s,
                        !.sends[s] = [obs |-> "UNKNOWN", command |-> TRUE, known |-> FALSE]]
  /\ \/ Saved /\ Goto("start", s)
     \/ Unsaved /\ Return
  /\ UNCHANGED <<provider, clientVars>>

SendRejected(s) ==
  /\ Idle /\ mem.sends[s].obs = "ABSENT"
  /\ mem.reservation # "APPLIED" \/ mem.active # None
  /\ Finish(SetSend(mem, s, "UNKNOWN"))

RequestTurn ==
  /\ pc = "start" /\ Alive
  /\ requests' = requests \cup {StartAnswer}
  /\ Goto("starting", op)
  /\ UNCHANGED <<prompts, turn, server, owed, out, clientVars, mem, disk, faults>>

\* record_turn.
TurnAccepted ==
  /\ pc = "starting" /\ StartAnswer \in responses /\ Available
  /\ responses' = responses \ {StartAnswer}
  /\ mem' = [mem EXCEPT !.sends[op].known = TRUE]
  /\ \/ Saved /\ Goto("activating", op)
     \/ Unsaved /\ Goto("failing", op)
  /\ UNCHANGED <<provider, client, reader, notes, fatal>>

\* wait_for_turn_active.
TurnActive ==
  /\ pc = "activating" /\ Started \in notes
  /\ mem' = SetSend(mem, op, "RUNNING")
  /\ \/ Saved /\ Goto("applying", op)
     \/ Unsaved /\ Goto("failing", op)
  /\ UNCHANGED <<provider, clientVars>>

\* _apply_live_terminal_locked: the end of the turn, if it has been read already.
TurnApplied ==
  /\ pc = "applying"
  /\ \/ /\ Completed \in notes
        /\ mem' = SetSend(mem, op, TerminalObservation)
        /\ \/ Saved /\ Return
           \/ Unsaved /\ Goto("failing", op)
     \/ /\ Completed \notin notes
        /\ Return
        /\ UNCHANGED <<mem, disk, faults>>
  /\ UNCHANGED <<provider, clientVars>>

\* No live process, an error for an answer, a client that gave up or a timeout.
SendGivesUp ==
  /\ \/ pc = "start" /\ ~Alive
     \/ pc = "starting" /\ (StartAnswer \notin responses \/ ~Available)
     \/ pc = "activating" /\ Started \notin notes
     \/ pc = "failing"
  /\ Finish(SetSend(mem, op, "UNKNOWN"))

------------------------------------------------------------------------------
(* inspect_turn of a send, and send again.                                  *)

\* _apply_live_terminal_locked.
InspectLive(s) ==
  /\ Idle /\ mem.sends[s].obs \in {"RUNNING", "UNKNOWN"}
  /\ mem.sends[s].known /\ Alive /\ Completed \in notes
  /\ Finish(SetSend(mem, s, TerminalObservation))

\* _reconcile_locked: a process of its own reads the thread.
Reconcile(s) ==
  \/ /\ mem.sends[s].command /\ turn # "none"
     /\ Finish([mem EXCEPT !.sends[s].known = TRUE,
                           !.sends[s].obs = IF turn = "running" THEN "UNKNOWN"
                                            ELSE TerminalObservation])
  \/ /\ ~mem.sends[s].command \/ turn = "none"
     /\ Finish(SetSend(mem, s, "UNKNOWN"))

\* The thread cannot be read.
ReconcileFails(s) ==
  /\ Fault
  /\ mem' = SetSend(mem, s, "UNKNOWN")
  /\ disk' = mem'
  /\ Return
  /\ UNCHANGED <<provider, clientVars>>

InspectClosed(s) ==
  /\ Idle /\ mem.sends[s].obs \in {"RUNNING", "UNKNOWN"} /\ ~client
  /\ Reconcile(s) \/ ReconcileFails(s)

InspectDead(s) ==
  /\ Idle /\ mem.sends[s].obs \in {"RUNNING", "UNKNOWN"} /\ ~Alive
  /\ Reconcile(s) \/ ReconcileFails(s)

SendAgain(s) ==
  /\ Idle /\ mem.sends[s].obs = "UNKNOWN"
  /\ Reconcile(s) \/ ReconcileFails(s)

Inspect(s) == InspectLive(s) \/ InspectDead(s)

------------------------------------------------------------------------------
(* cancel, and inspect_turn of a cancellation.                              *)

Cancellable == mem.active # None /\ mem.sends[mem.active].known

CancelRejected(c) ==
  /\ Idle /\ mem.cancels[c].obs = "ABSENT" /\ ~Cancellable
  /\ Finish(SetCancel(mem, c, "UNKNOWN"))

\* _complete_cancel_locked: the turn has ended, and how is the answer.
CancelEnded(c) ==
  /\ Idle /\ mem.cancels[c].obs = "ABSENT" /\ Cancellable
  /\ mem.sends[mem.active].obs \in Terminal
  /\ Finish([mem EXCEPT !.cancels[c] = [obs |-> mem.sends[mem.active].obs, command |-> TRUE]])

Cancel(c) ==
  /\ Idle /\ mem.cancels[c].obs = "ABSENT" /\ Cancellable
  /\ mem.sends[mem.active].obs \notin Terminal
  /\ mem' = [mem EXCEPT !.cancels[c] = [obs |-> "UNKNOWN", command |-> TRUE]]
  /\ \/ Saved /\ Goto("cancel", c)
     \/ Unsaved /\ Return
  /\ UNCHANGED <<provider, clientVars>>

RequestInterrupt ==
  /\ pc = "cancel" /\ Alive
  /\ requests' = requests \cup {InterruptAnswer(op)}
  /\ Goto("interrupting", op)
  /\ UNCHANGED <<prompts, turn, server, owed, out, clientVars, mem, disk, faults>>

InterruptAnswered ==
  /\ pc = "interrupting" /\ InterruptAnswer(op) \in responses /\ Available
  /\ responses' = responses \ {InterruptAnswer(op)}
  /\ Goto("ending", op)
  /\ UNCHANGED <<provider, client, reader, notes, fatal, mem, disk, faults>>

AnyEnd ==
  /\ pc = "ending" /\ Completed \in notes
  /\ LET m == SetSend(mem, mem.active, TerminalObservation) IN
     Finish(SetCancel(m, op, "CANCELLED"))

\* wait_for_turn_completed; only a turn that was interrupted is cancelled.
TurnCompleted ==
  /\ pc = "ending" /\ Completed \in notes
  /\ LET m == SetSend(mem, mem.active, TerminalObservation) IN
     Finish(SetCancel(m, op, IF TerminalObservation = "CANCELLED" THEN "CANCELLED" ELSE "UNKNOWN"))

\* As SendGivesUp.
CancelGivesUp ==
  /\ \/ pc = "cancel" /\ ~Alive
     \/ pc = "interrupting" /\ (InterruptAnswer(op) \notin responses \/ ~Available)
     \/ pc = "ending" /\ Completed \notin notes
  /\ Finish(SetCancel(mem, op, "UNKNOWN"))

\* _reconcile_cancel_locked.
InspectCancel(c) ==
  /\ Idle /\ mem.cancels[c].obs = "UNKNOWN" /\ mem.cancels[c].command
  /\ mem.active # None /\ mem.sends[mem.active].obs = "CANCELLED"
  /\ Finish(SetCancel(mem, c, "CANCELLED"))

------------------------------------------------------------------------------
(* The reader thread of the client.                                         *)

\* _dispatch_frame: answers and notifications are put by; the end of a turn is also
\* told to the channel, whose lock a call may hold.
Read ==
  /\ client /\ reader = "reading" /\ out # <<>>
  /\ out' = Tail(out)
  /\ IF Head(out) \in Notifications
     THEN notes' = notes \cup {Head(out)} /\ UNCHANGED responses
     ELSE responses' = responses \cup {Head(out)} /\ UNCHANGED notes
  /\ reader' = IF Head(out) = Completed THEN "calling" ELSE "reading"
  /\ UNCHANGED <<prompts, turn, server, requests, owed, client, fatal, call, mem, disk, faults>>

\* _on_frame, with the lock of the channel; what it raises ends all waiting.
OnFrame ==
  /\ reader = "calling" /\ Idle
  /\ reader' = "reading"
  /\ IF Cancellable
     THEN /\ mem' = SetSend(mem, mem.active, TerminalObservation)
          /\ \/ Saved /\ UNCHANGED fatal
             \/ Unsaved /\ fatal' = TRUE
     ELSE UNCHANGED <<mem, disk, faults, fatal>>
  /\ UNCHANGED <<provider, client, responses, notes, call>>

\* _read_stdout ends for good on a frame it does not take, or on too much output.
ReaderStops ==
  /\ client /\ reader = "reading"
  /\ Fault
  /\ reader' = "stopped" /\ fatal' = TRUE
  /\ UNCHANGED <<provider, client, responses, notes, call, mem, disk>>

------------------------------------------------------------------------------
(* The end of the client and of the program.                                *)

NoClient ==
  /\ client' = FALSE /\ reader' = "reading" /\ responses' = {} /\ notes' = {} /\ fatal' = FALSE
  /\ out' = <<>>

\* A turn that loses its server is found interrupted, or running for ever.
ServerEnds ==
  /\ server' = "gone" /\ requests' = {} /\ owed' = {}
  /\ turn' \in IF turn = "running" THEN {"running", "interrupted"} ELSE {turn}
  /\ UNCHANGED prompts

Close ==
  /\ Idle /\ client
  /\ ServerEnds /\ NoClient
  /\ UNCHANGED <<call, mem, disk, faults>>

\* The server has a session of its own and goes on with what it has read or can
\* still read.
Crash ==
  /\ Fault
  /\ mem' = disk
  /\ Return
  /\ NoClient
  /\ UNCHANGED <<prompts, turn, server, requests, owed, disk>>

------------------------------------------------------------------------------
(* The app-server.                                                          *)

TakeStart ==
  /\ server = "running" /\ StartAnswer \in requests
  /\ requests' = requests \ {StartAnswer}
  /\ \/ /\ prompts' = prompts + 1 /\ turn' = "running"
        /\ owed' = owed \cup {StartAnswer, Started}
     \/ /\ owed' = owed \cup {StartRefused}
        /\ UNCHANGED <<prompts, turn>>
  /\ UNCHANGED <<server, out, clientVars, call, mem, disk, faults>>

\* Acknowledged before the turn has come to its end.
TakeInterrupt(c) ==
  /\ server = "running" /\ InterruptAnswer(c) \in requests
  /\ requests' = requests \ {InterruptAnswer(c)}
  /\ owed' = owed \cup {IF turn = "running" THEN InterruptAnswer(c) ELSE InterruptRefused(c)}
  /\ UNCHANGED <<prompts, turn, server, out, clientVars, call, mem, disk, faults>>

EndTurn ==
  /\ server = "running" /\ turn = "running"
  /\ turn' \in Ended
  /\ owed' = owed \cup {Completed}
  /\ UNCHANGED <<prompts, server, requests, out, clientVars, call, mem, disk, faults>>

\* In any order, but the end of a turn after its start.
Write ==
  /\ server = "running"
  /\ \E f \in owed :
       /\ f = Completed => Started \notin owed
       /\ owed' = owed \ {f}
       /\ out' = IF client THEN Append(out, f) ELSE out
  /\ UNCHANGED <<prompts, turn, server, requests, clientVars, call, mem, disk, faults>>

ServerExits ==
  /\ server = "running"
  /\ ServerEnds
  /\ UNCHANGED <<out, clientVars, call, mem, disk, faults>>

------------------------------------------------------------------------------

SendStep == RequestTurn \/ TurnAccepted \/ TurnActive \/ TurnApplied \/ SendGivesUp

CancelStep == RequestInterrupt \/ InterruptAnswered \/ TurnCompleted \/ CancelGivesUp

Next ==
  \/ Reserve \/ ThreadStarted \/ ReserveFails
  \/ \E s \in SendOps : Send(s) \/ SendRejected(s) \/ Inspect(s) \/ SendAgain(s)
  \/ SendStep
  \/ \E c \in CancelOps : CancelRejected(c) \/ CancelEnded(c) \/ Cancel(c) \/ InspectCancel(c)
  \/ CancelStep
  \/ Read \/ OnFrame \/ ReaderStops \/ Close \/ Crash
  \/ TakeStart \/ (\E c \in CancelOps : TakeInterrupt(c)) \/ EndTurn \/ Write \/ ServerExits

Spec == Init /\ [][Next]_vars

\* Waiting ends, the reader reads, and somebody goes on asking how the turn is.
Fairness ==
  /\ WF_vars(ThreadStarted \/ ReserveFails \/ SendStep \/ CancelStep)
  /\ WF_vars(Read) /\ WF_vars(OnFrame) /\ WF_vars(Write)
  /\ \A s \in SendOps : WF_vars(Inspect(s))

LiveSpec == Spec /\ Fairness

------------------------------------------------------------------------------
(* Properties.                                                              *)

Frame == {StartAnswer, StartRefused} \cup Notifications
           \cup {InterruptAnswer(c) : c \in CancelOps} \cup {InterruptRefused(c) : c \in CancelOps}

ChannelState ==
  [reservation : {"ABSENT", "UNKNOWN", "APPLIED"},
   active : SendOps \cup {None},
   sends : [SendOps -> [obs : {"ABSENT", "UNKNOWN", "RUNNING"} \cup Terminal,
                        command : BOOLEAN, known : BOOLEAN]],
   cancels : [CancelOps -> [obs : {"ABSENT", "UNKNOWN"} \cup Terminal, command : BOOLEAN]]]

TypeOK ==
  /\ prompts \in Nat
  /\ turn \in {"none", "running"} \cup Ended
  /\ server \in {"none", "running", "gone"}
  /\ requests \subseteq Frame /\ owed \subseteq Frame /\ out \in Seq(Frame)
  /\ client \in BOOLEAN /\ fatal \in BOOLEAN
  /\ reader \in {"reading", "calling", "stopped"}
  /\ responses \subseteq Frame /\ notes \subseteq Notifications
  /\ pc \in {"idle", "connect", "start", "starting", "activating", "applying", "failing",
             "cancel", "interrupting", "ending"}
  /\ op \in SendOps \cup CancelOps \cup {None}
  /\ mem \in ChannelState /\ disk \in ChannelState
  /\ faults \in 0..MaxFaults

\* The worker is prompted at most once, however often a send is repeated, under one
\* operation id or another, and wherever the program dies.
PromptedOnce == prompts <= 1

Tells(o) ==
  /\ o = "RUNNING" => turn # "none"
  /\ o = "DONE" => turn = "completed"
  /\ o = "FAILED" => turn \in {"invalid", "failed"}
  /\ o = "CANCELLED" => turn = "interrupted"

\* What the channel answers about the turn, now or after a crash, is how the turn is
\* with the provider; above all a turn reported as cancelled has stopped.
AnswersTrue ==
  \A m \in {mem, disk} :
    /\ \A s \in SendOps : Tells(m.sends[s].obs)
    /\ \A c \in CancelOps : Tells(m.cancels[c].obs)

\* The reader has stopped while the server goes on: nobody will hear of the end.
Deaf == reader = "stopped" /\ server = "running"

\* The end of a turn that the channel knows is found out, if the reader has not
\* stopped: a notification that was lost with the server, the client or the program
\* is made up for by reading the thread.
EndedTurnKnown ==
  \A s \in SendOps :
    turn \in Ended /\ mem.sends[s].known ~> mem.sends[s].obs \in Terminal \/ Deaf

==============================================================================
