----------------------------- MODULE GateBProofs -----------------------------
(***************************************************************************)
(* Theorems about GateB, for any number of commands, materials and faults: *)
(* what a start is admitted to is what one human approved as a whole, and  *)
(* it stays admitted.                                                      *)
(***************************************************************************)
EXTENDS GateB, TLAPS

------------------------------------------------------------------------------
(* The inductive invariant.                                                 *)

\* The events of the bootstrap come in their order, and nothing but the events of
\* an admitted run behind them.
Logged ==
  /\ log \in Seq(Event)
  /\ \A i \in DOMAIN log :
       /\ log[i].id \in {0, i}
       /\ i <= 8 => log[i].type = Lifecycle[i]
       /\ i > 8 => log[i].type = "LATER"
       /\ i \in Imported..8 => log[i].of \in Material

\* a is what the request of l names, in the graph that l imports.
Covers(a, l) ==
  /\ Graph(a) = Graph(l[Imported].of)
  /\ Manifest(a) = Manifest(l[Requested].of) /\ Workspace(a) = Workspace(l[Requested].of)
  /\ Artifact(a) = Artifact(l[Requested].of) /\ Approver(a) = Approver(l[Requested].of)

\* The decision of a command was made by a human for all that the request and the
\* import in front of it name; only such a decision is followed by a freeze, and the
\* freeze names the same artifact.
Approval ==
  /\ Len(log) >= Decided => log[Decided].of = log[Requested].of
  /\ Len(log) >= Decided /\ log[Decided].id = Decided =>
       \E a \in approved : Covers(a, log)
  /\ Len(log) >= 8 => /\ log[Decided].id = Decided
                      /\ Artifact(log[8].of) = Artifact(log[Requested].of)

\* What a command knows is how the journal begins, and fits its material.
Views ==
  \A c \in Command : pc[c] = "append" =>
    /\ mat[c] \in Material
    /\ view[c] \in Seq(Event) /\ Len(view[c]) <= 8 /\ Len(view[c]) <= Len(log)
    /\ \A i \in 1..Len(view[c]) : view[c][i] = log[i]
    /\ PrefixFits(mat[c], view[c])

Processes ==
  /\ pc \in [Command -> {"idle", "append"}]
  /\ DOMAIN mat = Command /\ DOMAIN view = Command

IInv == Processes /\ Logged /\ Approval /\ Views

------------------------------------------------------------------------------
(* The journal grows.                                                       *)

\* Where an event that is appended goes, and that the others stay.
LEMMA Appended ==
  ASSUME NEW l \in Seq(Event), NEW e \in Event
  PROVE  /\ Append(l, e) \in Seq(Event) /\ Len(Append(l, e)) = Len(l) + 1
         /\ DOMAIN Append(l, e) = 1..(Len(l) + 1)
         /\ DOMAIN l = 1..Len(l) /\ Len(l) \in Nat
         /\ \A i \in 1..Len(l) : Append(l, e)[i] = l[i]
         /\ Append(l, e)[Len(l) + 1] = e
  OBVIOUS

\* The draft of a command fits its own material, behind a prefix that does.
LEMMA DraftFits ==
  ASSUME NEW m \in Material, NEW l \in Seq(Event), Len(l) < 8, PrefixFits(m, l),
         Len(l) >= Requested => l[Requested].of \in Material
  PROVE  /\ Draft(m, l) \in Event
         /\ Draft(m, l).id = Len(l) + 1 /\ Draft(m, l).type = Lifecycle[Len(l) + 1]
         /\ Len(l) + 1 >= Imported => Draft(m, l).of \in Material
         /\ PrefixFits(m, Append(l, Draft(m, l)))
  <1> DEFINE n == Len(l) + 1  d == Draft(m, l)  x == Append(l, d)
  <1>1. Len(l) \in Nat /\ n \in 1..8 /\ DOMAIN l = 1..Len(l)
    OBVIOUS
  <1>2. /\ d.id = n /\ d.type = Lifecycle[n]
        /\ d.of = IF n < Imported THEN None ELSE IF n = Decided THEN l[Requested].of ELSE m
        /\ d.choice = IF n = Decided THEN "approve" ELSE "none"
    BY DEF Draft
  <1>3. d \in Event
    <2>1. d.of \in Material \cup {None}
      BY <1>1, <1>2 DEF Imported, Decided, Requested
    <2> QED BY <1>1, <2>1 DEF Draft, Event
  <1>4. n >= Imported => d.of \in Material
    BY <1>1, <1>2 DEF Imported, Decided, Requested
  <1>5. /\ DOMAIN x = 1..n /\ \A i \in 1..Len(l) : x[i] = l[i]
        /\ x[n] = d
    BY <1>3, Appended
  <1> HIDE DEF d, x
  <1>6. ASSUME NEW i \in 1..Len(l), i <= 8 PROVE Fits(m, x, i)
    <2>1. Fits(m, l, i)
      BY <1>1, <1>6 DEF PrefixFits
    <2>2. x[i] = l[i] /\ (i = Decided => x[Requested] = l[Requested])
      BY <1>1, <1>5, <1>6 DEF Decided, Requested
    <2> QED BY <2>1, <2>2 DEF Fits
  <1>7. Fits(m, x, n)
    <2>1. n > Requested => Fits(m, l, Requested) /\ x[Requested] = l[Requested]
      BY <1>1, <1>5 DEF PrefixFits, Requested
    <2>2. x[n].id = n /\ x[n].type = Lifecycle[n]
      BY <1>2, <1>5
    <2>3. n = Imported => Graph(x[n].of) = Graph(m)
      BY <1>2, <1>5 DEF Imported, Decided
    <2>4. n >= Requested => /\ Manifest(x[n].of) = Manifest(m)
                            /\ Artifact(x[n].of) = Artifact(m)
      BY <1>1, <1>2, <1>5, <2>1 DEF Imported, Decided, Requested, Fits
    <2>5. n = Requested => /\ Workspace(x[n].of) = Workspace(m)
                           /\ Approver(x[n].of) = Approver(m)
      BY <1>2, <1>5 DEF Imported, Decided, Requested
    <2>6. n = Decided => x[n].of = x[Requested].of /\ x[n].choice = "approve"
      BY <1>2, <1>5, <2>1 DEF Imported, Decided, Requested
    <2> QED BY <2>2, <2>3, <2>4, <2>5, <2>6 DEF Fits
  <1>8. PrefixFits(m, x)
    BY <1>1, <1>5, <1>6, <1>7 DEF PrefixFits
  <1> QED BY <1>2, <1>3, <1>4, <1>8 DEF d, x

\* A command appends its next event to a journal that it knows.
LEMMA CommandWrites ==
  ASSUME Logged, Approval, NEW m \in Material, PrefixFits(m, log), Len(log) < 8,
         Decidable(m, log), log' = Append(log, Draft(m, log)),
         approved' = IF Len(log) + 1 = Decided THEN approved \cup {m} ELSE approved
  PROVE  Logged' /\ Approval'
  <1> DEFINE n == Len(log) + 1  d == Draft(m, log)
  <1>1. log \in Seq(Event) /\ Len(log) \in Nat /\ n \in 1..8 /\ DOMAIN log = 1..Len(log)
    BY DEF Logged
  <1>2. /\ d \in Event /\ d.id = n /\ d.type = Lifecycle[n]
        /\ n >= Imported => d.of \in Material
    <2>1. Len(log) >= Requested => log[Requested].of \in Material
      BY <1>1 DEF Logged, Requested, Imported
    <2> QED BY <1>1, <2>1, DraftFits
  <1>3. /\ log' \in Seq(Event) /\ Len(log') = n /\ DOMAIN log' = 1..n
        /\ \A i \in 1..Len(log) : log'[i] = log[i]
        /\ log'[n] = d
    BY <1>1, <1>2, Appended
  <1>4. /\ d.of = IF n < Imported THEN None ELSE IF n = Decided THEN log[Requested].of
                  ELSE m
    BY DEF Draft
  <1>5. \A i \in 1..Len(log) : Fits(m, log, i)
    BY <1>1 DEF PrefixFits
  <1> HIDE DEF d
  <1>6. Logged'
    <2>1. ASSUME NEW i \in 1..n
          PROVE  /\ log'[i].id \in {0, i}
                 /\ i <= 8 => log'[i].type = Lifecycle[i]
                 /\ i > 8 => log'[i].type = "LATER"
                 /\ i \in Imported..8 => log'[i].of \in Material
      <3>1. CASE i = n
        BY <1>1, <1>2, <1>3, <3>1 DEF Imported
      <3>2. CASE i \in 1..Len(log)
        BY <1>1, <1>3, <3>2 DEF Logged
      <3> QED BY <1>1, <3>1, <3>2
    <2> QED BY <1>3, <2>1 DEF Logged
  <1>7. Approval'
    <2>1. CASE n < Decided
      BY <1>3, <2>1 DEF Approval, Decided
    <2>2. CASE n = Decided
      <3>1. /\ log'[Decided] = d /\ log'[Requested] = log[Requested]
            /\ log'[Imported] = log[Imported] /\ d.of = log[Requested].of
        BY <1>1, <1>3, <1>4, <2>2 DEF Decided, Requested, Imported
      <3>2. Fits(m, log, Imported) /\ Fits(m, log, Requested)
        BY <1>1, <1>5, <2>2 DEF Decided, Requested, Imported
      <3>3. Covers(m, log') /\ m \in approved'
        BY <2>2, <3>1, <3>2 DEF Covers, Fits, Requested, Imported
      <3> QED BY <1>3, <2>2, <3>1, <3>3 DEF Approval, Decided
    <2>3. CASE n = 8
      <3>1. /\ log'[Decided] = log[Decided] /\ log'[Requested] = log[Requested]
            /\ log'[Imported] = log[Imported] /\ log'[8] = d /\ d.of = m
        BY <1>1, <1>3, <1>4, <2>3 DEF Decided, Requested, Imported
      <3>2. Fits(m, log, Requested) /\ Fits(m, log, Decided) /\ Len(log) >= Decided
        BY <1>1, <1>5, <2>3 DEF Decided, Requested
      <3>3. log[Decided].id = Decided /\ Artifact(log[Requested].of) = Artifact(m)
        BY <3>2 DEF Fits, Requested
      <3>4. PICK a \in approved : Covers(a, log)
        BY <3>2, <3>3 DEF Approval
      <3>5. a \in approved' /\ Covers(a, log')
        BY <2>3, <3>1, <3>4 DEF Covers, Decided
      <3> QED BY <1>3, <3>1, <3>2, <3>3, <3>5 DEF Approval
    <2> QED BY <1>1, <2>1, <2>2, <2>3 DEF Decided
  <1> QED BY <1>6, <1>7

\* What a command knows still begins the journal when that has grown.
LEMMA ViewKept ==
  ASSUME log \in Seq(Event), Views, NEW e \in Event, log' = Append(log, e),
         NEW c \in Command, pc'[c] = pc[c], mat'[c] = mat[c], view'[c] = view[c],
         pc[c] = "append"
  PROVE  /\ mat'[c] \in Material
         /\ view'[c] \in Seq(Event) /\ Len(view'[c]) <= 8 /\ Len(view'[c]) <= Len(log')
         /\ \A i \in 1..Len(view'[c]) : view'[c][i] = log'[i]
         /\ PrefixFits(mat'[c], view'[c])
  <1>1. /\ Len(log') = Len(log) + 1 /\ Len(log) \in Nat
        /\ \A i \in 1..Len(log) : log'[i] = log[i]
    BY Appended
  <1>2. /\ mat[c] \in Material /\ view[c] \in Seq(Event)
        /\ Len(view[c]) <= 8 /\ Len(view[c]) <= Len(log)
        /\ \A i \in 1..Len(view[c]) : view[c][i] = log[i]
        /\ PrefixFits(mat[c], view[c])
    BY DEF Views
  <1>3. Len(view[c]) \in Nat
    BY <1>2
  <1> QED BY <1>1, <1>2, <1>3

------------------------------------------------------------------------------
(* The steps.                                                               *)

\* The journal is empty and nothing runs.
LEMMA InitInv == Init => IInv
  BY DEF Init, IInv, Processes, Logged, Approval, Views, Decided

\* A command that ends knows nothing.
LEMMA Ends ==
  ASSUME Processes, Views, NEW c \in Command, End(c)
  PROVE  /\ Processes' /\ pc'[c] = "idle"
         /\ \A d \in Command \ {c} :
              pc'[d] = pc[d] /\ mat'[d] = mat[d] /\ view'[d] = view[d]
  BY DEF Processes, End, Goto

\* A command reads the journal.
LEMMA BeginStep ==
  ASSUME IInv, NEW c \in Command, NEW m \in Material, Begin(c, m)
  PROVE  IInv'
  <1>1. Processes' /\ Logged' /\ Approval'
    BY DEF IInv, Begin, Goto, Processes, Logged, Approval
  <1>2. ASSUME NEW d \in Command, pc'[d] = "append"
        PROVE  /\ mat'[d] \in Material
               /\ view'[d] \in Seq(Event) /\ Len(view'[d]) <= 8 /\ Len(view'[d]) <= Len(log')
               /\ \A i \in 1..Len(view'[d]) : view'[d][i] = log'[i]
               /\ PrefixFits(mat'[d], view'[d])
    <2>1. CASE d = c
      <3>1. mat'[c] = m /\ view'[c] = log /\ log' = log
        BY DEF IInv, Begin, Processes
      <3>2. PrefixFits(m, log) /\ Len(log) <= 8 /\ log \in Seq(Event) /\ Len(log) \in Nat
        BY DEF IInv, Begin, Logged
      <3> QED BY <2>1, <3>1, <3>2
    <2>2. CASE d # c
      <3>1. pc'[d] = pc[d] /\ mat'[d] = mat[d] /\ view'[d] = view[d] /\ log' = log
        BY <2>2 DEF IInv, Begin, Processes, Goto
      <3> QED BY <1>2, <3>1 DEF IInv, Views
    <2> QED BY <2>1, <2>2
  <1> QED BY <1>1, <1>2 DEF IInv, Views

\* A command appends at the head it knows.
LEMMA AppendStep ==
  ASSUME IInv, NEW c \in Command, AppendNext(c)
  PROVE  IInv'
  <1> DEFINE m == mat[c]  e == Draft(m, log)
  <1>1. /\ m \in Material /\ view[c] = log /\ PrefixFits(m, log) /\ Len(log) < 8
        /\ Decidable(m, log) /\ log' = Append(log, e)
        /\ approved' = IF Len(log) + 1 = Decided THEN approved \cup {m} ELSE approved
        /\ pc' = pc /\ mat' = mat /\ view' = [view EXCEPT ![c] = Append(log, e)]
    BY DEF IInv, Views, AppendNext, AtHead, Processes
  <1>2. Processes' /\ view'[c] = log' /\ \A d \in Command \ {c} : view'[d] = view[d]
    BY <1>1 DEF IInv, Processes
  <1>3. Logged' /\ Approval'
    BY <1>1, CommandWrites DEF IInv
  <1>4. e \in Event /\ PrefixFits(m, log') /\ log \in Seq(Event) /\ Len(log) \in Nat
    <2>1. log \in Seq(Event) /\ (Len(log) >= Requested => log[Requested].of \in Material)
      BY <1>1 DEF IInv, Logged, Requested, Imported
    <2> QED BY <1>1, <2>1, DraftFits
  <1>5. Len(log') = Len(log) + 1 /\ log' \in Seq(Event)
    BY <1>1, <1>4, Appended
  <1> HIDE DEF m, e
  <1>6. ASSUME NEW d \in Command, pc'[d] = "append"
        PROVE  /\ mat'[d] \in Material
               /\ view'[d] \in Seq(Event) /\ Len(view'[d]) <= 8 /\ Len(view'[d]) <= Len(log')
               /\ \A i \in 1..Len(view'[d]) : view'[d][i] = log'[i]
               /\ PrefixFits(mat'[d], view'[d])
    <2>1. CASE d = c
      BY <1>1, <1>2, <1>4, <1>5, <2>1 DEF m
    <2>2. CASE d # c
      <3>1. pc'[d] = pc[d] /\ mat'[d] = mat[d] /\ view'[d] = view[d] /\ pc[d] = "append"
        BY <1>1, <1>2, <1>6, <2>2
      <3> QED BY <1>1, <1>4, <3>1, ViewKept DEF IInv
    <2> QED BY <2>1, <2>2
  <1> QED BY <1>2, <1>3, <1>6 DEF IInv, Views

\* A command finds its own draft at the head, one event behind what it knows.
LEMMA FoundStep ==
  ASSUME IInv, NEW c \in Command, Found(c)
  PROVE  IInv'
  <1> DEFINE m == mat[c]  v == view[c]  e == Draft(m, v)
  <1>1. /\ m \in Material /\ v \in Seq(Event) /\ Len(v) < Imported - 1
        /\ Len(v) <= Len(log) /\ \A i \in 1..Len(v) : v[i] = log[i]
        /\ PrefixFits(m, v)
        /\ log # <<>> /\ log[Len(log)] = e
        /\ pc' = pc /\ mat' = mat /\ log' = log /\ approved' = approved
        /\ view' = [view EXCEPT ![c] = Append(v, e)]
    BY DEF IInv, Views, Found
  <1>2. Processes' /\ view'[c] = Append(v, e) /\ \A d \in Command \ {c} : view'[d] = view[d]
    BY <1>1 DEF IInv, Processes
  <1>3. Logged' /\ Approval'
    BY <1>1 DEF IInv, Logged, Approval
  <1>4. /\ log \in Seq(Event) /\ Len(log) \in Nat /\ Len(v) \in Nat
        /\ Len(v) < 8 /\ ~(Len(v) >= Requested)
    BY <1>1 DEF IInv, Logged, Imported, Requested
  <1>5. e \in Event /\ e.id = Len(v) + 1 /\ PrefixFits(m, Append(v, e))
    BY <1>1, <1>4, DraftFits
  <1>6. /\ Append(v, e) \in Seq(Event) /\ Len(Append(v, e)) = Len(v) + 1
        /\ \A i \in 1..Len(v) : Append(v, e)[i] = v[i]
        /\ Append(v, e)[Len(v) + 1] = e
    BY <1>1, <1>5, Appended
  <1>7. Len(log) = Len(v) + 1
    <2>1. Len(log) \in DOMAIN log
      BY <1>1, <1>4
    <2>2. log[Len(log)].id \in {0, Len(log)}
      BY <2>1 DEF IInv, Logged
    <2> HIDE DEF e
    <2> QED BY <1>1, <1>4, <1>5, <2>2
  <1> HIDE DEF m, v, e
  <1>8. \A i \in 1..Len(Append(v, e)) : Append(v, e)[i] = log[i]
    BY <1>1, <1>4, <1>6, <1>7
  <1>9. ASSUME NEW d \in Command, pc'[d] = "append"
        PROVE  /\ mat'[d] \in Material
               /\ view'[d] \in Seq(Event) /\ Len(view'[d]) <= 8 /\ Len(view'[d]) <= Len(log')
               /\ \A i \in 1..Len(view'[d]) : view'[d][i] = log'[i]
               /\ PrefixFits(mat'[d], view'[d])
    <2>1. CASE d = c
      <3>1. mat'[d] = m /\ view'[d] = Append(v, e)
        BY <1>1, <1>2, <2>1 DEF m
      <3>2. /\ Append(v, e) \in Seq(Event)
            /\ Len(Append(v, e)) <= 8 /\ Len(Append(v, e)) <= Len(log)
        BY <1>4, <1>6, <1>7
      <3>3. m \in Material /\ PrefixFits(m, Append(v, e)) /\ log' = log
        BY <1>1, <1>5
      <3> QED BY <1>8, <3>1, <3>2, <3>3
    <2>2. CASE d # c
      <3>1. view'[d] = view[d] /\ pc[d] = "append" /\ mat'[d] = mat[d] /\ log' = log
        BY <1>1, <1>2, <1>9, <2>2
      <3> QED BY <3>1 DEF IInv, Views
    <2> QED BY <2>1, <2>2
  <1> QED BY <1>2, <1>3, <1>9 DEF IInv, Views

\* A command ends and leaves the journal alone.
LEMMA EndStep ==
  ASSUME IInv, NEW c \in Command, End(c), UNCHANGED <<log, approved>>
  PROVE  IInv'
  <1>1. /\ Processes' /\ pc'[c] = "idle"
        /\ \A d \in Command \ {c} :
             pc'[d] = pc[d] /\ mat'[d] = mat[d] /\ view'[d] = view[d]
    BY Ends DEF IInv
  <1>2. Logged' /\ Approval'
    BY DEF IInv, Logged, Approval
  <1>3. \A d \in Command : pc'[d] = "append" =>
          /\ d # c /\ pc[d] = "append" /\ mat'[d] = mat[d] /\ view'[d] = view[d]
    BY <1>1
  <1>4. Views'
    BY <1>3 DEF IInv, Views
  <1> QED BY <1>1, <1>2, <1>4 DEF IInv

\* A command dies when its event is in the journal already.
LEMMA FailStep ==
  ASSUME IInv, NEW c \in Command, Fail(c)
  PROVE  IInv'
  <1> DEFINE m == mat[c]  e == Draft(m, log)
  <1>1. CASE UNCHANGED <<log, approved>>
    BY <1>1, EndStep DEF Fail
  <1>2. CASE ~UNCHANGED <<log, approved>>
    <2>1. /\ m \in Material /\ view[c] = log /\ PrefixFits(m, log) /\ Len(log) < 8
          /\ Decidable(m, log) /\ log' = Append(log, e)
          /\ approved' = IF Len(log) + 1 = Decided THEN approved \cup {m} ELSE approved
      BY <1>2 DEF IInv, Views, Fail, AtHead
    <2>2. Logged' /\ Approval'
      BY <2>1, CommandWrites DEF IInv
    <2>3. /\ Processes' /\ pc'[c] = "idle"
          /\ \A d \in Command \ {c} :
               pc'[d] = pc[d] /\ mat'[d] = mat[d] /\ view'[d] = view[d]
      BY Ends DEF IInv, Fail
    <2>4. e \in Event /\ log \in Seq(Event)
      <3>1. log \in Seq(Event) /\ (Len(log) >= Requested => log[Requested].of \in Material)
        BY <2>1 DEF IInv, Logged, Requested, Imported
      <3> QED BY <2>1, <3>1, DraftFits
    <2> HIDE DEF m, e
    <2>5. ASSUME NEW d \in Command, pc'[d] = "append"
          PROVE  /\ mat'[d] \in Material
                 /\ view'[d] \in Seq(Event)
                 /\ Len(view'[d]) <= 8 /\ Len(view'[d]) <= Len(log')
                 /\ \A i \in 1..Len(view'[d]) : view'[d][i] = log'[i]
                 /\ PrefixFits(mat'[d], view'[d])
      <3>1. pc'[d] = pc[d] /\ mat'[d] = mat[d] /\ view'[d] = view[d] /\ pc[d] = "append"
        BY <2>3, <2>5
      <3> QED BY <2>1, <2>4, <3>1, ViewKept DEF IInv
    <2> QED BY <2>2, <2>3, <2>5 DEF IInv, Views
  <1> QED BY <1>1, <1>2

\* Somebody else appends: the decision of the command line, or a coordinator.
LEMMA OtherStep ==
  ASSUME IInv, NEW e \in Event, log' = Append(log, e), UNCHANGED process
  PROVE  Processes' /\ Views'
  <1>1. Processes' /\ pc' = pc /\ mat' = mat /\ view' = view
    BY DEF IInv, Processes, process
  <1>2. ASSUME NEW d \in Command, pc'[d] = "append"
        PROVE  /\ mat'[d] \in Material
               /\ view'[d] \in Seq(Event) /\ Len(view'[d]) <= 8 /\ Len(view'[d]) <= Len(log')
               /\ \A i \in 1..Len(view'[d]) : view'[d][i] = log'[i]
               /\ PrefixFits(mat'[d], view'[d])
    BY <1>1, <1>2, ViewKept DEF IInv, Logged
  <1> QED BY <1>1, <1>2 DEF Views

\* wishctl decide.
LEMMA DecideStep ==
  ASSUME IInv, Decide
  PROVE  IInv'
  <1>1. PICK choice \in {"approve", "reject"} :
          /\ log' = Append(log, [id |-> 0, type |-> Lifecycle[Decided],
                                 of |-> log[Requested].of, choice |-> choice])
          /\ approved' = IF choice = "approve" THEN approved \cup {log[Requested].of}
                         ELSE approved
    BY DEF Decide
  <1> DEFINE e == [id |-> 0, type |-> Lifecycle[Decided],
                   of |-> log[Requested].of, choice |-> choice]
  <1>2. log \in Seq(Event) /\ Len(log) = 6 /\ log[6].of \in Material
    BY DEF IInv, Logged, Decide, Requested, Imported
  <1>3. e \in Event /\ e.id = 0 /\ e.type = Lifecycle[7] /\ e.of = log[6].of
    BY <1>2 DEF Event, Decided, Requested
  <1>4. log' = Append(log, e)
    BY <1>1
  <1> HIDE DEF e
  <1>5. /\ log' \in Seq(Event) /\ Len(log') = 7 /\ DOMAIN log' = 1..7
        /\ \A i \in 1..6 : log'[i] = log[i]
        /\ log'[7] = e
    <2>1. /\ Append(log, e) \in Seq(Event) /\ Len(Append(log, e)) = Len(log) + 1
          /\ DOMAIN Append(log, e) = 1..(Len(log) + 1)
          /\ \A i \in 1..Len(log) : Append(log, e)[i] = log[i]
          /\ Append(log, e)[Len(log) + 1] = e
      BY <1>2, <1>3, Appended
    <2>2. Len(log) + 1 = 7
      BY <1>2
    <2> QED BY <1>2, <1>4, <2>1, <2>2
  <1>6. Logged'
    <2>1. ASSUME NEW i \in 1..7
          PROVE  /\ log'[i].id \in {0, i}
                 /\ i <= 8 => log'[i].type = Lifecycle[i]
                 /\ i > 8 => log'[i].type = "LATER"
                 /\ i \in Imported..8 => log'[i].of \in Material
      <3>1. CASE i = 7
        BY <1>2, <1>3, <1>5, <3>1
      <3>2. CASE i \in 1..6
        BY <1>2, <1>5, <3>2 DEF IInv, Logged
      <3> QED BY <3>1, <3>2
    <2> QED BY <1>5, <2>1 DEF Logged
  <1>7. Approval'
    BY <1>3, <1>5 DEF Approval, Decided, Requested
  <1>8. Processes' /\ Views'
    BY <1>3, <1>4, OtherStep DEF Decide
  <1> QED BY <1>6, <1>7, <1>8 DEF IInv

\* A coordinator appends to a journal that admits it.
LEMMA LaterStep ==
  ASSUME IInv, Later
  PROVE  IInv'
  <1> DEFINE e == [id |-> 0, type |-> "LATER", of |-> None, choice |-> "none"]
  <1>1. PICK m \in Material : Admits(log, m)
    BY DEF Later
  <1>2. log \in Seq(Event) /\ Len(log) \in Nat /\ DOMAIN log = 1..Len(log)
    BY DEF IInv, Logged
  <1>3. Len(log) >= 8
    BY <1>1, <1>2 DEF Admits, Of
  <1>4. e \in Event /\ log' = Append(log, e) /\ approved' = approved
    BY DEF Event, Later
  <1>5. e.id = 0 /\ e.type = "LATER"
    OBVIOUS
  <1> HIDE DEF e
  <1>6. /\ log' \in Seq(Event) /\ Len(log') = Len(log) + 1
        /\ DOMAIN log' = 1..(Len(log) + 1)
        /\ \A i \in 1..Len(log) : log'[i] = log[i]
        /\ log'[Len(log) + 1] = e
    BY <1>2, <1>4, Appended
  <1>7. Logged'
    <2>1. ASSUME NEW i \in 1..(Len(log) + 1)
          PROVE  /\ log'[i].id \in {0, i}
                 /\ i <= 8 => log'[i].type = Lifecycle[i]
                 /\ i > 8 => log'[i].type = "LATER"
                 /\ i \in Imported..8 => log'[i].of \in Material
      <3>1. CASE i = Len(log) + 1
        BY <1>2, <1>3, <1>5, <1>6, <3>1
      <3>2. CASE i \in 1..Len(log)
        BY <1>2, <1>6, <3>2 DEF IInv, Logged
      <3> QED BY <1>2, <3>1, <3>2
    <2> QED BY <1>6, <2>1 DEF Logged
  <1>8. Approval'
    <2>1. /\ log'[Decided] = log[Decided] /\ log'[Requested] = log[Requested]
          /\ log'[Imported] = log[Imported] /\ log'[8] = log[8]
      BY <1>2, <1>3, <1>6 DEF Decided, Requested, Imported
    <2> QED BY <1>2, <1>3, <1>4, <1>6, <2>1 DEF IInv, Approval, Covers, Decided
  <1>9. Processes' /\ Views'
    BY <1>4, OtherStep DEF Later
  <1> QED BY <1>7, <1>8, <1>9 DEF IInv

\* The invariant is inductive.
LEMMA StepInv == IInv /\ [Next]_vars => IInv'
  <1> SUFFICES ASSUME IInv, [Next]_vars PROVE IInv'
    OBVIOUS
  <1>1. CASE \E c \in Command : \E m \in Material : Begin(c, m)
    BY <1>1, BeginStep
  <1>2. CASE \E c \in Command : Work(c)
    <2>1. PICK c \in Command : Work(c)
      BY <1>2
    <2>2. CASE AppendNext(c)
      BY <2>2, AppendStep
    <2>3. CASE Found(c)
      BY <2>3, FoundStep
    <2>4. CASE Conflict(c) \/ Finish(c)
      BY <2>4, EndStep DEF Conflict, Finish
    <2> QED BY <2>1, <2>2, <2>3, <2>4 DEF Work
  <1>3. CASE \E c \in Command : Fail(c)
    BY <1>3, FailStep
  <1>4. CASE Decide
    BY <1>4, DecideStep
  <1>5. CASE Later
    BY <1>5, LaterStep
  <1>6. CASE UNCHANGED vars
    BY <1>6 DEF IInv, Processes, Logged, Approval, Views, vars, process
  <1> QED BY <1>1, <1>2, <1>3, <1>4, <1>5, <1>6 DEF Next

\* IInv holds in every reachable state.
LEMMA Invariance == Spec => []IInv
  BY InitInv, StepInv, PTL DEF Spec

------------------------------------------------------------------------------
(* The theorems.                                                            *)

\* What an admitted journal consists of: its eight events are the first eight.
LEMMA Admitted ==
  ASSUME IInv, NEW m, Admits(log, m)
  PROVE  /\ Len(log) >= 8
         /\ Graph(log[Imported].of) = Graph(m)
         /\ Manifest(log[Requested].of) = Manifest(m)
         /\ Workspace(log[Requested].of) = Workspace(m)
         /\ log[Decided].of = log[Requested].of
  <1>1. PICK i \in DOMAIN log :
          /\ i > 4
          /\ \A n \in 4..8 : Of(log, Lifecycle[n]) = {i + n - 5}
          /\ Graph(log[i].of) = Graph(m)
          /\ Manifest(log[i + 1].of) = Manifest(m) /\ Workspace(log[i + 1].of) = Workspace(m)
          /\ log[i + 2].of = log[i + 1].of
    BY DEF Admits
  <1>2. log \in Seq(Event) /\ Len(log) \in Nat /\ DOMAIN log = 1..Len(log)
    BY DEF IInv, Logged
  <1>3. log[i].type = Lifecycle[5] /\ i + 3 \in DOMAIN log
    <2>1. Of(log, Lifecycle[5]) = {i} /\ Of(log, Lifecycle[8]) = {i + 3}
      BY <1>1, <1>2
    <2> QED BY <2>1 DEF Of
  <1>4. i <= 8 => log[i].type = Lifecycle[i]
    BY DEF IInv, Logged
  <1>5. i > 8 => log[i].type = "LATER"
    BY DEF IInv, Logged
  <1>6. i = 5
    <2>1. i \in Nat /\ i > 4
      BY <1>1, <1>2
    <2>2. i \notin {6, 7, 8} /\ ~(i > 8)
      BY <1>3, <1>4, <1>5 DEF Lifecycle
    <2> QED BY <2>1, <2>2
  <1> QED BY <1>1, <1>2, <1>3, <1>6 DEF Imported, Requested, Decided

\* admit_execution_snapshot admits a start only to what one human approved as a whole,
\* whichever commands, of whatever material, wrote the journal between them.
THEOREM AdmittedAsApprovedAlways == Spec => []AdmittedAsApproved
  <1>1. IInv => AdmittedAsApproved
    <2> SUFFICES ASSUME IInv, NEW m \in Material, Admits(log, m)
                 PROVE  \E a \in approved :
                          /\ Manifest(a) = Manifest(m) /\ Workspace(a) = Workspace(m)
                          /\ Graph(log[Imported].of) = Graph(a)
                          /\ Artifact(a) = Artifact(log[8].of)
                          /\ Approver(a) = Approver(log[Decided].of)
      BY DEF AdmittedAsApproved
    <2>1. /\ Len(log) >= 8 /\ Len(log) \in Nat
          /\ Manifest(log[Requested].of) = Manifest(m)
          /\ Workspace(log[Requested].of) = Workspace(m)
          /\ log[Decided].of = log[Requested].of
      BY Admitted DEF IInv, Logged
    <2>2. PICK a \in approved : Covers(a, log)
      BY <2>1 DEF IInv, Approval, Decided
    <2>3. Artifact(log[8].of) = Artifact(log[Requested].of)
      BY <2>1 DEF IInv, Approval
    <2> QED BY <2>1, <2>2, <2>3 DEF Covers
  <1> QED BY <1>1, Invariance, PTL

\* bootstrap_gate_b and decide add nothing to a journal that is admitted, so that it
\* stays admitted through every later command and every later start.
THEOREM AdmissionStaysAlways == Spec => AdmissionStays
  <1>1. IInv /\ [Next]_vars => [\A m \in Material : Admits(log, m) => Admits(log', m)]_vars
    <2> SUFFICES ASSUME IInv, [Next]_vars, NEW m \in Material, Admits(log, m)
                 PROVE  Admits(log', m)
      OBVIOUS
    <2>1. Len(log) >= 8 /\ log \in Seq(Event) /\ Len(log) \in Nat /\ DOMAIN log = 1..Len(log)
      BY Admitted DEF IInv, Logged
    <2>2. \A c \in Command : ~AppendNext(c) /\ (Fail(c) => log' = log)
      BY <2>1 DEF IInv, Views, AppendNext, Fail, AtHead
    <2>3. ~Decide
      BY <2>1 DEF Decide, Requested
    <2>4. log' = log \/ Later
      BY <2>2, <2>3 DEF Next, Work, Begin, Found, Conflict, Finish, vars
    <2>5. CASE Later
      <3> DEFINE e == [id |-> 0, type |-> "LATER", of |-> None, choice |-> "none"]
      <3>1. e \in Event /\ log' = Append(log, e) /\ e.type = "LATER"
        BY <2>5 DEF Event, Later
      <3> HIDE DEF e
      <3>2. /\ DOMAIN log' = 1..(Len(log) + 1)
            /\ \A i \in 1..Len(log) : log'[i] = log[i]
            /\ log'[Len(log) + 1] = e
        BY <2>1, <3>1, Appended
      <3>3. ASSUME NEW n \in 1..8 PROVE Of(log', Lifecycle[n]) = Of(log, Lifecycle[n])
        <4>1. Lifecycle[n] # "LATER"
          BY DEF Lifecycle
        <4>2. \A i \in DOMAIN log' : log'[i].type = Lifecycle[n] =>
                i \in DOMAIN log /\ log[i].type = Lifecycle[n]
          BY <2>1, <3>1, <3>2, <4>1
        <4>3. \A i \in DOMAIN log : log[i].type = Lifecycle[n] =>
                i \in DOMAIN log' /\ log'[i].type = Lifecycle[n]
          BY <2>1, <3>2
        <4> QED BY <4>2, <4>3 DEF Of
      <3>4. PICK i \in DOMAIN log :
              /\ \A n \in 1..3 : Of(log, Lifecycle[n]) = {n}
              /\ i > 4
              /\ \A n \in 4..8 : Of(log, Lifecycle[n]) = {i + n - 5}
              /\ Graph(log[i].of) = Graph(m)
              /\ Manifest(log[i + 1].of) = Manifest(m)
              /\ Workspace(log[i + 1].of) = Workspace(m)
              /\ log[i + 2].of = log[i + 1].of /\ log[i + 2].choice = "approve"
              /\ Artifact(log[i + 3].of) = Artifact(log[i + 1].of)
              /\ Manifest(log[i + 3].of) = Manifest(m)
        BY DEF Admits
      <3>5. i + 3 \in DOMAIN log
        BY <2>1, <3>4 DEF Of
      <3>6. /\ log'[i] = log[i] /\ log'[i + 1] = log[i + 1]
            /\ log'[i + 2] = log[i + 2] /\ log'[i + 3] = log[i + 3]
            /\ i \in DOMAIN log'
        BY <2>1, <3>2, <3>5
      <3>7. /\ \A n \in 1..3 : Of(log', Lifecycle[n]) = {n}
            /\ \A n \in 4..8 : Of(log', Lifecycle[n]) = {i + n - 5}
        BY <3>3, <3>4
      <3> QED BY <3>4, <3>6, <3>7 DEF Admits
    <2> QED BY <2>4, <2>5
  <1> QED BY <1>1, Invariance, PTL DEF Spec, AdmissionStays
=============================================================================
