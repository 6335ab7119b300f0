--------------------------- MODULE Workflow_proofs ---------------------------
(***************************************************************************)
(* Proofs about Workflow for every number of concurrent requests, every    *)
(* assignment of roles and with crashes anywhere.  The invariant says that *)
(* a status some request still holds from an earlier read was reached at   *)
(* that time, however stale it is by now.                                  *)
(*                                                                         *)
(* Behind them, from SeedInv on, proofs about Seeding for all seeds, any   *)
(* number of runs, crashes and acts of users.  The invariant says what a   *)
(* run that nobody disturbs has settled so far, row by row.                *)
(***************************************************************************)
EXTENDS Workflow, Seeding, FiniteSetTheorems, TLAPS

\* The status of the record was reached along the trail; a compatibility route
\* may have published before its event is written.
StatusReached ==
    /\ Occurs("draft")
    /\ status # "published" => Occurs(status)
    /\ status = "published" => Occurs("approved")

\* A move in hand follows the table from a status that was reached.
MovesReached ==
    \A w \in Workers :
        /\ req[w].pc = "compatWrite" => req[w].to \in {"draft", "published"}
        /\ req[w].pc # "idle" /\ req[w].to # "draft" =>
            /\ \E a \in WorkflowActions : <<req[w].from, a, req[w].to>> \in Transitions
            /\ req[w].from \in Statuses
            /\ Occurs(req[w].from)
            /\ req[w].to = "published" => req[w].from = "approved"

IInv == TypeOK /\ StagesInOrder /\ StatusReached /\ MovesReached

-----------------------------------------------------------------------------
\* Appending to the trail forgets no stage.
LEMMA OccursAfterAppend ==
  ASSUME trail \in Seq(Events), NEW e \in Events, trail' = Append(trail, e)
  PROVE  /\ \A s : Occurs(s) => Occurs(s)'
         /\ Occurs(e.to)'
         /\ Len(trail') = Len(trail) + 1 /\ trail'[Len(trail) + 1] = e
         /\ \A i \in 1..Len(trail) : trail'[i] = trail[i]
<1>1. /\ Len(trail) \in Nat /\ Len(trail') = Len(trail) + 1
      /\ trail'[Len(trail) + 1] = e
      /\ \A i \in 1..Len(trail) : trail'[i] = trail[i]
  OBVIOUS
<1>2. \A s : Occurs(s) => Occurs(s)'
  BY <1>1 DEF Occurs
<1>3. Len(trail) + 1 \in 1..Len(trail')
  BY <1>1
<1>4. QED
  BY <1>1, <1>2, <1>3 DEF Occurs

\* The table only leads on from the stage before: published comes from approved.
LEMMA TableFacts ==
  ASSUME NEW s, NEW t, NEW a, <<s, a, t>> \in Transitions
  PROVE  /\ s \in Statuses /\ t \in Statuses
         /\ t = "published" => s = "approved"
         /\ s = "published" => t = "draft"
  BY DEF Transitions, Statuses

\* The invariant holds of a record just created.
LEMMA InitIInv == Init => IInv
<1> SUFFICES ASSUME Init PROVE IInv
  OBVIOUS
<1>1. Event("none", "draft") \in Events /\ Event("none", "draft").to = "draft"
  BY DEF Event, Events, Statuses
<1>2. trail \in Seq(Events) /\ audit \in Seq(Events) /\ Len(trail) = 1 /\ trail[1].to = "draft"
  BY <1>1 DEF Init
<1>3. TypeOK
  BY <1>2 DEF Init, TypeOK, Statuses, Stamps, Idle, Request
<1>4. StagesInOrder /\ StatusReached /\ MovesReached
  BY <1>2 DEF StagesInOrder, StatusReached, MovesReached, Occurs, Init, Idle
<1>5. QED
  BY <1>3, <1>4 DEF IInv

\* Steps that write neither the record nor the trail.
LEMMA RequestStep ==
  ASSUME IInv, NEW w \in Workers, NEW v \in Request, Set(w, v),
         UNCHANGED <<status, stamps, trail, orderly>>,
         audit' \in Seq(Events), begun' \in Nat,
         v.pc = "compatWrite" => v.to \in {"draft", "published"},
         v.pc # "idle" /\ v.to # "draft" =>
            /\ \E a \in WorkflowActions : <<v.from, a, v.to>> \in Transitions
            /\ v.from \in Statuses /\ Occurs(v.from)
            /\ v.to = "published" => v.from = "approved"
  PROVE  IInv'
<1>1. TypeOK'
  BY DEF IInv, TypeOK, Set
<1>2. StagesInOrder' /\ StatusReached'
  BY DEF IInv, StagesInOrder, StatusReached, Occurs
<1>3. \A u \in Workers : req'[u] = (IF u = w THEN v ELSE req[u])
  BY DEF IInv, TypeOK, Set
<1>4. \A s : Occurs(s)' = Occurs(s)
  BY DEF Occurs
<1>5. MovesReached'
  BY <1>3, <1>4 DEF IInv, MovesReached
<1>6. QED
  BY <1>1, <1>2, <1>5 DEF IInv

\* A request that begins holds a move from the status it read.
LEMMA ReadStep ==
  ASSUME IInv, NEW w \in Workers, ReadTransition(w) \/ ReadCompat(w)
  PROVE  IInv'
<1>1. PICK to \in Statuses, a \in WorkflowActions, pc \in {"write", "compatWrite"} :
         /\ <<status, a, to>> \in Transitions
         /\ Set(w, [pc |-> pc, from |-> status, to |-> to])
         /\ pc = "compatWrite" => to \in {"draft", "published"}
  <2>1. CASE ReadTransition(w)
    BY <2>1 DEF ReadTransition
  <2>2. CASE ReadCompat(w)
    BY <2>2 DEF ReadCompat, Transitions, Statuses, WorkflowActions
  <2>3. QED
    BY <2>1, <2>2
<1>2. /\ UNCHANGED <<status, stamps, trail, audit, orderly>> /\ begun' = begun + 1
  BY DEF ReadTransition, ReadCompat, Admit
<1>3. [pc |-> pc, from |-> status, to |-> to] \in Request
  BY DEF Request, IInv, TypeOK
<1>4. to # "draft" => status # "published"
  BY <1>1, TableFacts
<1>5. to # "draft" => Occurs(status)
  BY <1>4 DEF IInv, StatusReached
<1>6. to = "published" => status = "approved"
  BY <1>1, TableFacts
<1>7. status \in Statuses /\ begun' \in Nat /\ audit' \in Seq(Events)
  BY <1>2 DEF IInv, TypeOK
<1>8. QED
  BY <1>1, <1>2, <1>3, <1>5, <1>6, <1>7, RequestStep

\* Recording a move that is in hand keeps the stages in order.
LEMMA AppendInOrder ==
  ASSUME IInv, NEW w \in Workers, req[w].pc # "idle",
         trail' = Append(trail, Event(req[w].from, req[w].to)),
         status' = status \/ status' = req[w].to
  PROVE  /\ trail' \in Seq(Events)
         /\ StagesInOrder'
         /\ StatusReached'
         /\ \A s : Occurs(s) => Occurs(s)'
<1> DEFINE n == Len(trail)
<1>1. PICK e \in Events : e = Event(req[w].from, req[w].to)
                          /\ e.from = req[w].from /\ e.to = req[w].to
  BY DEF IInv, TypeOK, Request, Event, Events
<1>2. /\ \A s : Occurs(s) => Occurs(s)'
      /\ Occurs(e.to)'
      /\ Len(trail') = n + 1 /\ trail'[n + 1] = e
      /\ \A i \in 1..n : trail'[i] = trail[i]
      /\ n \in Nat /\ trail' \in Seq(Events)
  BY <1>1, OccursAfterAppend DEF IInv, TypeOK
<1>3. ASSUME e.to # "draft"
      PROVE  /\ \E a \in WorkflowActions : <<e.from, a, e.to>> \in Transitions
             /\ \E j \in 1..n : trail[j].to = e.from
             /\ e.to = "published" => Occurs("approved")
  BY <1>1, <1>3 DEF IInv, MovesReached, Occurs
<1>4. ASSUME NEW i \in 1..Len(trail'), trail'[i].to # "draft"
      PROVE  /\ \E a \in WorkflowActions : <<trail'[i].from, a, trail'[i].to>> \in Transitions
             /\ \E j \in 1..(i - 1) : trail'[j].to = trail'[i].from
  <2>1. CASE i = n + 1
    <3>1. trail'[i] = e /\ 1..(i - 1) = 1..n
      BY <2>1, <1>2
    <3>2. /\ \E a \in WorkflowActions : <<e.from, a, e.to>> \in Transitions
          /\ \E j \in 1..n : trail[j].to = e.from
      BY <3>1, <1>3, <1>4
    <3>3. PICK j \in 1..n : trail[j].to = e.from
      BY <3>2
    <3>4. trail'[j].to = e.from
      BY <3>3, <1>2
    <3>5. QED
      BY <3>1, <3>2, <3>4
  <2>2. CASE i # n + 1
    <3>1. i \in 1..n /\ trail'[i] = trail[i]
      BY <2>2, <1>2
    <3>2. PICK j \in 1..(i - 1) : trail[j].to = trail[i].from
      BY <3>1, <1>4 DEF IInv, StagesInOrder
    <3>3. j \in 1..n /\ trail'[j] = trail[j]
      BY <3>1, <1>2
    <3>4. QED
      BY <3>1, <3>2, <3>3, <1>4 DEF IInv, StagesInOrder
  <2>3. QED
    BY <2>1, <2>2
<1>5. status' = "published" => Occurs("approved")
  <2>1. CASE status' = status
    BY <2>1 DEF IInv, StatusReached
  <2>2. CASE status' = req[w].to
    BY <2>2, <1>1, <1>3
  <2>3. QED
    BY <2>1, <2>2
<1>6. StagesInOrder'
  BY <1>2, <1>4, <1>5 DEF StagesInOrder
<1>7. StatusReached'
  <2>1. CASE status' = status
    BY <2>1, <1>2, <1>5 DEF IInv, StatusReached, Occurs
  <2>2. CASE status' = req[w].to
    BY <2>2, <1>1, <1>2, <1>5 DEF IInv, StatusReached, Occurs
  <2>3. QED
    BY <2>1, <2>2
<1>8. QED
  BY <1>2, <1>6, <1>7

\* The two steps that record an event.
LEMMA EventStep ==
  ASSUME IInv, NEW w \in Workers, WriteTransition(w) \/ RecordEvent(w)
  PROVE  IInv'
<1>1. /\ req[w].pc # "idle"
      /\ trail' = Append(trail, Event(req[w].from, req[w].to))
      /\ status' = status \/ status' = req[w].to
      /\ UNCHANGED <<audit, begun, orderly>>
      /\ req' = [req EXCEPT ![w] = [req[w] EXCEPT !.pc = "audit"]]
  BY DEF WriteTransition, RecordEvent, Set
<1>2. /\ trail' \in Seq(Events) /\ StagesInOrder' /\ StatusReached'
      /\ \A s : Occurs(s) => Occurs(s)'
  BY <1>1, AppendInOrder
<1>3. stamps' \in SUBSET Stamps
  BY DEF WriteTransition, RecordEvent, Stamped, Stamps, IInv, TypeOK
<1>4. /\ req' \in [Workers -> Request]
      /\ \A u \in Workers : req'[u].from = req[u].from /\ req'[u].to = req[u].to
                            /\ (req'[u].pc # "idle" => req[u].pc # "idle")
                            /\ (req'[u].pc = "compatWrite" => req'[u] = req[u])
  BY <1>1 DEF IInv, TypeOK, Request
<1>5. TypeOK'
  BY <1>1, <1>2, <1>3, <1>4 DEF IInv, TypeOK, Request
<1>6. MovesReached'
  BY <1>2, <1>4 DEF IInv, MovesReached
<1>7. QED
  BY <1>2, <1>5, <1>6 DEF IInv

\* The compatibility routes write the status before the event.
LEMMA CompatStep ==
  ASSUME IInv, NEW w \in Workers, WriteCompat(w) PROVE IInv'
<1>1. /\ req[w].pc = "compatWrite" /\ status' = req[w].to
      /\ UNCHANGED <<trail, audit, begun, orderly>>
      /\ req' = [req EXCEPT ![w] = [req[w] EXCEPT !.pc = "event"]]
  BY DEF WriteCompat, Set
<1>2. stamps' \in SUBSET Stamps
  BY DEF WriteCompat, Stamps, IInv, TypeOK
<1>3. /\ req' \in [Workers -> Request]
      /\ \A u \in Workers : req'[u].from = req[u].from /\ req'[u].to = req[u].to
                            /\ (req'[u].pc # "idle" => req[u].pc # "idle")
                            /\ (req'[u].pc = "compatWrite" => req'[u] = req[u])
  BY <1>1 DEF IInv, TypeOK, Request
<1>4. TypeOK'
  BY <1>1, <1>2, <1>3 DEF IInv, TypeOK, Request
<1>5. \A s : Occurs(s)' = Occurs(s)
  BY <1>1 DEF Occurs
<1>6. MovesReached'
  BY <1>3, <1>5 DEF IInv, MovesReached
<1>7. StagesInOrder' /\ StatusReached'
  <2>1. req[w].to \in {"draft", "published"}
    BY <1>1 DEF IInv, MovesReached
  <2>2. req[w].to = "published" => Occurs("approved")
    BY <1>1 DEF IInv, MovesReached
  <2>3. status' = "published" => Occurs("approved")
    BY <1>1, <2>2
  <2>4. StatusReached'
    BY <1>1, <1>5, <2>1, <2>3 DEF IInv, StatusReached
  <2>5. StagesInOrder'
    BY <1>1, <1>5, <2>3 DEF IInv, StagesInOrder
  <2>6. QED
    BY <2>4, <2>5
<1>8. QED
  BY <1>4, <1>6, <1>7 DEF IInv

\* Auditing, and dying, give the move in hand up.
LEMMA ReleaseStep ==
  ASSUME IInv, NEW w \in Workers, LogAudit(w) \/ Crash(w) PROVE IInv'
<1>1. Idle \in Request /\ Idle.pc = "idle" /\ Set(w, Idle)
  BY DEF Idle, Request, Statuses, LogAudit, Crash
<1>2. UNCHANGED <<status, stamps, trail, begun, orderly>>
  BY DEF LogAudit, Crash
<1>3. Event(req[w].from, req[w].to) \in Events
  BY DEF IInv, TypeOK, Request, Event, Events
<1>4. audit' \in Seq(Events)
  <2>1. audit \in Seq(Events)
    BY DEF IInv, TypeOK
  <2>2. audit' = audit \/ audit' = Append(audit, Event(req[w].from, req[w].to))
    BY DEF LogAudit, Crash
  <2>3. QED
    BY <1>3, <2>1, <2>2
<1>5. begun' \in Nat
  BY <1>2 DEF IInv, TypeOK
<1>6. QED
  BY <1>1, <1>2, <1>4, <1>5, RequestStep

\* IInv is inductive.
LEMMA NextIInv == IInv /\ [Next]_vars => IInv'
<1> SUFFICES ASSUME IInv, [Next]_vars PROVE IInv'
  OBVIOUS
<1>1. CASE UNCHANGED vars
  BY <1>1 DEF vars, IInv, TypeOK, StagesInOrder, StatusReached, MovesReached, Occurs
<1>2. CASE Next
  BY <1>2, ReadStep, EventStep, CompatStep, ReleaseStep DEF Next
<1>3. QED
  BY <1>1, <1>2

\* IInv holds in every reachable state.
LEMMA Invariant == Spec => []IInv
  BY InitIInv, NextIInv, PTL DEF Spec

\* Every variable of the workflow keeps its type.
THEOREM TypeCorrect == Spec => []TypeOK
<1>1. IInv => TypeOK
  BY DEF IInv
<1>2. QED
  BY Invariant, <1>1, PTL

\* No race, crash or choice of roles lets the trail skip a stage of the
\* editorial path, or a record be published that never was approved.
THEOREM NoStageSkipped == Spec => []StagesInOrder
<1>1. IInv => StagesInOrder
  BY DEF IInv
<1>2. QED
  BY Invariant, <1>1, PTL

-----------------------------------------------------------------------------
(* Requests that wait for each other. *)

OneByOne == \A v, w \in Workers : req[v].pc = "idle" \/ req[w].pc = "idle" \/ v = w

\* What a request knows of the record, and what it has still to record.
InStep(w) ==
    LET q == req[w] IN
    /\ q.pc # "idle" => \E a \in WorkflowActions : <<q.from, a, q.to>> \in Transitions
    /\ q.pc = "compatWrite" => q.to \in {"draft", "published"}
    /\ q.pc \in {"write", "compatWrite"} =>
          q.from = status /\ trail[Len(trail)].to = status /\ audit = trail
    /\ q.pc = "event" =>
          q.to = status /\ trail[Len(trail)].to = q.from /\ audit = trail
    /\ q.pc = "audit" =>
          /\ q.to = status /\ trail[Len(trail)].to = status
          /\ trail = Append(audit, Event(q.from, q.to))

Resting == (\A w \in Workers : req[w].pc = "idle") => trail[Len(trail)].to = status /\ audit = trail

\* The timestamps that every way to a status has set.
Behind(s) ==
    (IF s \in {"draft"} THEN {} ELSE {"submitted"})
    \cup (IF s \in {"in_review", "approved", "published"} THEN {"reviewed"} ELSE {})
    \cup (IF s \in {"approved", "published"} THEN {"approved"} ELSE {})
    \cup (IF s = "published" THEN {"published"} ELSE {})

StampsBehind == Behind(status) \subseteq stamps /\ ("published" \in stamps => status = "published")

OrderlyInv ==
    orderly => OneByOne /\ Resting /\ StampsBehind /\ \A w \in Workers : InStep(w)

\* Who is admitted finds nobody else.
LEMMA Alone ==
  ASSUME NEW w \in Workers, Admit(w), orderly
  PROVE  \A v \in Workers : req[v].pc = "idle"
<1>1. IsFiniteSet(Busy) /\ Cardinality(Busy) \in Nat
  BY WorkflowAssumption, FS_Subset, FS_CardinalityType DEF Busy
<1>2. Cardinality(Busy) = 0
  BY <1>1 DEF Admit
<1>3. Busy = {}
  BY <1>1, <1>2, FS_EmptySet
<1> QED
  BY <1>3 DEF Busy

LEMMA OrderlyInit == Init => OrderlyInv
<1> SUFFICES ASSUME Init PROVE OrderlyInv
  OBVIOUS
<1>1. \A w \in Workers : req[w].pc = "idle"
  BY DEF Init, Idle
<1>2. trail[Len(trail)].to = status /\ audit = trail
  BY DEF Init, Event
<1> QED
  BY <1>1, <1>2 DEF OrderlyInv, OneByOne, Resting, StampsBehind, Behind, InStep, Init

LEMMA OrderlyStep == IInv /\ OrderlyInv /\ [Next]_vars => OrderlyInv'
<1> SUFFICES ASSUME IInv, OrderlyInv, orderly, [Next]_vars PROVE OrderlyInv'
  BY DEF OrderlyInv, Next, vars, ReadTransition, WriteTransition, ReadCompat, WriteCompat,
         RecordEvent, LogAudit, Crash
<1> USE DEF IInv, TypeOK
<1>1. ASSUME NEW w \in Workers, ReadTransition(w) \/ ReadCompat(w) PROVE OrderlyInv'
  <2>1. Admit(w) /\ UNCHANGED <<status, stamps, trail, audit, orderly>>
    BY <1>1 DEF ReadTransition, ReadCompat
  <2>2. \A v \in Workers : req[v].pc = "idle"
    BY <2>1, Alone
  <2>3. trail[Len(trail)].to = status /\ audit = trail
    BY <2>2 DEF OrderlyInv, Resting
  <2>4. PICK to \in Statuses, a \in WorkflowActions, pc \in {"write", "compatWrite"} :
           /\ <<status, a, to>> \in Transitions
           /\ Set(w, [pc |-> pc, from |-> status, to |-> to])
           /\ pc = "compatWrite" => to \in {"draft", "published"}
    <3>1. CASE ReadTransition(w)
      BY <3>1 DEF ReadTransition
    <3>2. CASE ReadCompat(w)
      BY <3>2 DEF ReadCompat, Transitions, Statuses, WorkflowActions
    <3> QED
      BY <1>1, <3>1, <3>2
  <2>5. /\ req'[w].pc = pc /\ req'[w].from = status /\ req'[w].to = to
        /\ \A v \in Workers : v # w => req'[v].pc = "idle"
    BY <2>2, <2>4 DEF Set
  <2>6. OneByOne' /\ Resting' /\ StampsBehind'
    BY <2>1, <2>5 DEF OrderlyInv, OneByOne, Resting, StampsBehind, Behind
  <2>7. \A v \in Workers : InStep(v)'
    BY <2>1, <2>3, <2>4, <2>5 DEF InStep
  <2> QED
    BY <2>6, <2>7 DEF OrderlyInv
<1>a. ASSUME NEW w \in Workers, req[w].pc # "idle"
      PROVE  \A v \in Workers : v # w => req[v].pc = "idle"
  BY <1>a DEF OrderlyInv, OneByOne
<1>2. ASSUME NEW w \in Workers, WriteTransition(w) PROVE OrderlyInv'
  <2> DEFINE q == req[w]
             e == Event(q.from, q.to)
  <2>1. /\ q.pc = "write" /\ status' = q.to /\ stamps' = Stamped(q.to)
        /\ trail' = Append(trail, e) /\ UNCHANGED <<audit, orderly>>
        /\ req'[w].pc = "audit" /\ req'[w].from = q.from /\ req'[w].to = q.to
        /\ \A v \in Workers : v # w => req'[v] = req[v] /\ req[v].pc = "idle"
    BY <1>2, <1>a DEF WriteTransition, Set, Request
  <2>2. e \in Events /\ e.to = q.to
    BY DEF Event, Events, Request
  <2>3. trail'[Len(trail')].to = status'
    BY <2>1, <2>2
  <2>4. OneByOne' /\ Resting'
    BY <2>1 DEF OneByOne, Resting
  <2>5. \E a \in WorkflowActions : <<status, a, q.to>> \in Transitions /\ q.from = status
    BY <2>1 DEF OrderlyInv, InStep
  <2>6. StampsBehind'
    BY <2>1, <2>5 DEF OrderlyInv, StampsBehind, Behind, Stamped, Transitions
  <2>7. \A v \in Workers : InStep(v)'
    BY <2>1, <2>3, <2>5 DEF OrderlyInv, InStep
  <2> QED
    BY <2>4, <2>6, <2>7 DEF OrderlyInv
<1>3. ASSUME NEW w \in Workers, WriteCompat(w) PROVE OrderlyInv'
  <2> DEFINE q == req[w]
  <2>1. /\ q.pc = "compatWrite" /\ status' = q.to
        /\ stamps' = (IF q.to = "published" THEN stamps \cup {"published"}
                                            ELSE stamps \ {"published"})
        /\ UNCHANGED <<trail, audit, orderly>>
        /\ req'[w].pc = "event" /\ req'[w].from = q.from /\ req'[w].to = q.to
        /\ \A v \in Workers : v # w => req'[v] = req[v] /\ req[v].pc = "idle"
    BY <1>3, <1>a DEF WriteCompat, Set, Request
  <2>2. OneByOne' /\ Resting'
    BY <2>1 DEF OneByOne, Resting
  <2>3. /\ \E a \in WorkflowActions : <<q.from, a, q.to>> \in Transitions
        /\ q.from = status /\ trail[Len(trail)].to = status /\ audit = trail
        /\ q.to \in {"draft", "published"}
    BY <2>1 DEF OrderlyInv, InStep
  <2>4. StampsBehind'
    BY <2>1, <2>3, TableFacts DEF OrderlyInv, StampsBehind, Behind
  <2>5. \A v \in Workers : InStep(v)'
    BY <2>1, <2>3 DEF InStep
  <2> QED
    BY <2>2, <2>4, <2>5 DEF OrderlyInv
<1>4. ASSUME NEW w \in Workers, RecordEvent(w) PROVE OrderlyInv'
  <2> DEFINE q == req[w]
             e == Event(q.from, q.to)
  <2>1. /\ q.pc = "event" /\ trail' = Append(trail, e)
        /\ UNCHANGED <<status, stamps, audit, orderly>>
        /\ req'[w].pc = "audit" /\ req'[w].from = q.from /\ req'[w].to = q.to
        /\ \A v \in Workers : v # w => req'[v] = req[v] /\ req[v].pc = "idle"
    BY <1>4, <1>a DEF RecordEvent, Set, Request
  <2>2. e \in Events /\ e.to = q.to
    BY DEF Event, Events, Request
  <2>3. /\ \E a \in WorkflowActions : <<q.from, a, q.to>> \in Transitions
        /\ q.to = status /\ audit = trail
    BY <2>1 DEF OrderlyInv, InStep
  <2>4. trail'[Len(trail')].to = status'
    BY <2>1, <2>2, <2>3
  <2>5. OneByOne' /\ Resting' /\ StampsBehind'
    BY <2>1 DEF OrderlyInv, OneByOne, Resting, StampsBehind, Behind
  <2>6. \A v \in Workers : InStep(v)'
    BY <2>1, <2>3, <2>4 DEF InStep
  <2> QED
    BY <2>5, <2>6 DEF OrderlyInv
<1>5. ASSUME NEW w \in Workers, LogAudit(w) PROVE OrderlyInv'
  <2>1. /\ req[w].pc = "audit" /\ audit' = Append(audit, Event(req[w].from, req[w].to))
        /\ UNCHANGED <<status, stamps, trail, orderly>>
        /\ req'[w].pc = "idle"
        /\ \A v \in Workers : v # w => req'[v] = req[v] /\ req[v].pc = "idle"
    BY <1>5, <1>a DEF LogAudit, Set, Idle
  <2>2. trail[Len(trail)].to = status /\ audit' = trail
    BY <2>1 DEF OrderlyInv, InStep
  <2>3. OneByOne' /\ Resting' /\ StampsBehind'
    BY <2>1, <2>2 DEF OrderlyInv, OneByOne, Resting, StampsBehind, Behind
  <2>4. \A v \in Workers : InStep(v)'
    BY <2>1 DEF InStep
  <2> QED
    BY <2>3, <2>4 DEF OrderlyInv
<1>6. CASE UNCHANGED vars
  BY <1>6 DEF vars, OrderlyInv, OneByOne, Resting, StampsBehind, Behind, InStep
<1> QED
  BY <1>1, <1>2, <1>3, <1>4, <1>5, <1>6 DEF Next, Crash

\* With any number of requests and any roles, as long as requests wait for each
\* other and the process lives: trail, audit log and timestamps tell how the record
\* came to its status, by either route (governance.service.ts, archives.service.ts).
THEOREM HistoryIsTrue == Spec => []HistoryTellsStatus
<1>1. OrderlyInv /\ TypeOK => HistoryTellsStatus
  <2> SUFFICES ASSUME OrderlyInv, TypeOK PROVE HistoryTellsStatus
    OBVIOUS
  <2>1. TrailIsComplete
    BY DEF TrailIsComplete, Quiet, Busy, OrderlyInv, Resting
  <2>2. StampsTellPublication
    BY DEF StampsTellPublication, OrderlyInv, StampsBehind, Behind, TypeOK, Stamps
  <2> QED
    BY <2>1, <2>2 DEF HistoryTellsStatus
<1>2. IInv => TypeOK
  BY DEF IInv
<1> QED
  BY <1>1, <1>2, Invariant, OrderlyInit, OrderlyStep, PTL DEF Spec

-----------------------------------------------------------------------------
(* The refinement. *)

LEMMA PathInit == Init => Path!Init
<1> SUFFICES ASSUME Init PROVE Path!Init
  OBVIOUS
<1>1. MoveInHand = {}
  BY DEF Init, MoveInHand, Idle
<1> QED
  BY <1>1 DEF Init, Path!Init, PromisedStatus, PromisedTrail, Event, Path!Event

\* One request has a move in hand, at most.
LEMMA InHand ==
  ASSUME OrderlyInv, orderly, NEW w \in Workers, req[w].pc = "event"
  PROVE  PromisedTrail = Append(trail, Event(req[w].from, req[w].to))
<1>1. MoveInHand = {w}
  BY DEF MoveInHand, OrderlyInv, OneByOne
<1>2. (CHOOSE v \in {w} : TRUE) = w
  OBVIOUS
<1> QED
  BY <1>1, <1>2 DEF PromisedTrail

LEMMA PathStep == IInv /\ OrderlyInv /\ OrderlyInv' /\ [Next]_vars
                    => [Path!Next]_<<PromisedStatus, PromisedTrail>>
<1> DEFINE Same == PromisedStatus' = PromisedStatus /\ PromisedTrail' = PromisedTrail
<1> SUFFICES ASSUME IInv, OrderlyInv, OrderlyInv', [Next]_vars
             PROVE  Path!Next \/ Same
  OBVIOUS
<1>0. orderly' = orderly
  BY DEF Next, vars, ReadTransition, WriteTransition, ReadCompat, WriteCompat,
         RecordEvent, LogAudit, Crash
<1>1. CASE ~orderly
  BY <1>0, <1>1 DEF PromisedStatus, PromisedTrail
<1>2. ASSUME orderly, MoveInHand = {}, MoveInHand' = {}, status' = status, trail' = trail
      PROVE  Same
  BY <1>0, <1>2 DEF PromisedStatus, PromisedTrail
<1>a. ASSUME orderly, NEW w \in Workers, req[w].pc # "idle"
      PROVE  \A v \in Workers : v # w => req[v].pc = "idle"
  BY <1>a DEF OrderlyInv, OneByOne
<1>b. ASSUME NEW from, NEW to, NEW a \in WorkflowActions, <<from, a, to>> \in Transitions,
             PromisedStatus = from, PromisedStatus' = to,
             PromisedTrail' = Append(PromisedTrail, Event(from, to))
      PROVE  Path!Next
  <2>1. to \in Path!Statuses /\ <<from, a, to>> \in Path!Transitions /\ a \in Path!WorkflowActions
    BY <1>b DEF Transitions, Path!Transitions, Path!Statuses, WorkflowActions, Path!WorkflowActions
  <2> QED
    BY <1>b, <2>1 DEF Path!Next, Path!Move, Event, Path!Event
<1> SUFFICES ASSUME orderly PROVE Path!Next \/ Same
  BY <1>1
<1> USE DEF IInv, TypeOK
<1>3. ASSUME NEW w \in Workers, ReadTransition(w) \/ ReadCompat(w) PROVE Same
  <2>1. Admit(w) /\ UNCHANGED <<status, trail>>
    BY <1>3 DEF ReadTransition, ReadCompat
  <2>2. \A v \in Workers : req[v].pc = "idle"
    BY <2>1, Alone
  <2>3. PICK to \in Statuses, pc \in {"write", "compatWrite"} :
           Set(w, [pc |-> pc, from |-> status, to |-> to])
    <3>1. CASE ReadTransition(w)
      BY <3>1 DEF ReadTransition
    <3>2. CASE ReadCompat(w)
      BY <3>2 DEF ReadCompat, Statuses
    <3> QED
      BY <1>3, <3>1, <3>2
  <2>4. req'[w].pc \in {"write", "compatWrite"} /\ \A v \in Workers : v # w => req'[v] = req[v]
    BY <2>3 DEF Set
  <2>5. MoveInHand = {} /\ MoveInHand' = {}
    BY <2>2, <2>4 DEF MoveInHand
  <2> QED
    BY <1>2, <2>1, <2>5
<1>4. ASSUME NEW w \in Workers, WriteTransition(w) PROVE Path!Next
  <2>1. /\ req[w].pc = "write" /\ status' = req[w].to
        /\ trail' = Append(trail, Event(req[w].from, req[w].to))
        /\ req'[w].pc = "audit"
        /\ \A v \in Workers : v # w => req'[v] = req[v] /\ req[v].pc = "idle"
    BY <1>4, <1>a DEF WriteTransition, Set, Request
  <2>2. MoveInHand = {} /\ MoveInHand' = {}
    BY <2>1 DEF MoveInHand
  <2>3. PICK a \in WorkflowActions : <<req[w].from, a, req[w].to>> \in Transitions
    BY <2>1 DEF OrderlyInv, InStep
  <2>4. req[w].from = status
    BY <2>1 DEF OrderlyInv, InStep
  <2>5. /\ PromisedStatus = req[w].from /\ PromisedStatus' = req[w].to
        /\ PromisedTrail' = Append(PromisedTrail, Event(req[w].from, req[w].to))
    BY <1>0, <2>1, <2>2, <2>4 DEF PromisedStatus, PromisedTrail
  <2> QED
    BY <1>b, <2>3, <2>5
<1>5. ASSUME NEW w \in Workers, WriteCompat(w) PROVE Path!Next
  <2>1. /\ req[w].pc = "compatWrite" /\ status' = req[w].to /\ trail' = trail
        /\ req'[w].pc = "event" /\ req'[w].from = req[w].from /\ req'[w].to = req[w].to
        /\ \A v \in Workers : v # w => req'[v] = req[v] /\ req[v].pc = "idle"
    BY <1>5, <1>a DEF WriteCompat, Set, Request
  <2>2. MoveInHand = {} /\ MoveInHand' = {w}
    BY <2>1 DEF MoveInHand
  <2>3. PICK a \in WorkflowActions : <<req[w].from, a, req[w].to>> \in Transitions
    BY <2>1 DEF OrderlyInv, InStep
  <2>4. req[w].from = status
    BY <2>1 DEF OrderlyInv, InStep
  <2>5. PromisedTrail = trail
    BY <2>2 DEF PromisedTrail
  <2>6. (CHOOSE v \in {w} : TRUE) = w
    OBVIOUS
  <2>7. PromisedTrail' = Append(trail, Event(req[w].from, req[w].to))
    BY <1>0, <2>1, <2>2, <2>6 DEF PromisedTrail, Event
  <2>8. PromisedStatus = req[w].from /\ PromisedStatus' = req[w].to
    BY <1>0, <2>1, <2>4 DEF PromisedStatus
  <2> QED
    BY <1>b, <2>3, <2>5, <2>7, <2>8
<1>6. ASSUME NEW w \in Workers, RecordEvent(w) PROVE Same
  <2>1. /\ req[w].pc = "event" /\ status' = status
        /\ trail' = Append(trail, Event(req[w].from, req[w].to))
        /\ req'[w].pc = "audit"
        /\ \A v \in Workers : v # w => req'[v] = req[v] /\ req[v].pc = "idle"
    BY <1>6, <1>a DEF RecordEvent, Set, Request
  <2>2. PromisedTrail = trail'
    BY <2>1, InHand
  <2>3. MoveInHand' = {}
    BY <2>1 DEF MoveInHand
  <2> QED
    BY <1>0, <2>1, <2>2, <2>3 DEF PromisedStatus, PromisedTrail
<1>7. ASSUME NEW w \in Workers, LogAudit(w) PROVE Same
  <2>1. /\ req[w].pc = "audit" /\ status' = status /\ trail' = trail
        /\ req'[w].pc = "idle"
        /\ \A v \in Workers : v # w => req'[v] = req[v] /\ req[v].pc = "idle"
    BY <1>7, <1>a DEF LogAudit, Set, Idle
  <2>2. MoveInHand = {} /\ MoveInHand' = {}
    BY <2>1 DEF MoveInHand
  <2> QED
    BY <1>2, <2>1, <2>2
<1>8. CASE UNCHANGED vars
  BY <1>8 DEF vars, PromisedStatus, PromisedTrail, MoveInHand
<1> QED
  BY <1>3, <1>4, <1>5, <1>6, <1>7, <1>8 DEF Next, Crash

\* Requests that wait for each other, by either route and whoever makes them, move
\* the record along the editorial path, one event for each move.
THEOREM ImplementsPath == Spec => FollowsEditorialPath
<1>1. Spec => [](IInv /\ OrderlyInv)
  BY Invariant, InitIInv, OrderlyInit, NextIInv, OrderlyStep, PTL DEF Spec
<1> QED
  BY <1>1, PathInit, PathStep, PTL DEF Spec, FollowsEditorialPath, Path!Spec

-----------------------------------------------------------------------------
(* Seeding: what is true of the database and of the script at every moment. *)

RecordType ==
    [there : BOOLEAN, institution : Institutions \cup {None},
     unit : Institutions \cup {None, "series"}, level : Levels, policy : Levels \cup {None},
     events : 0..1, topic : BOOLEAN, subjects : 0..1, files : 0..1]

\* A unit is of the record's own institution.
Fits(rec) == rec \in RecordType /\ rec.unit \in {None, "series", rec.institution}

Things ==
    (UNION {ToSet(Slugged[t]) : t \in Tables}) \cup ToSet(Roles) \cup Records \cup Institutions
    \cup ToSet(Course) \cup ToSet(Badges) \cup ToSet(Stages)

DatabaseTyped ==
    /\ mode \in Modes /\ rows \in [Tables -> SUBSET Things]
    /\ \A t \in Tables : rows[t] \subseteq ToSet(Slugged[t])
    /\ role \in [ToSet(Roles) -> {"none", "active", "revoked"}]
    /\ records \in [Records -> RecordType] /\ \A r \in Records : Fits(records[r])
    /\ fonds \in [Institutions -> 0..1] /\ foreign \in BOOLEAN
    /\ badges \in [ToSet(Badges) -> 0..1] /\ awards \in BOOLEAN
    /\ crashes \in 0..MaxCrashes /\ edits \in 0..MaxEdits

ScriptTyped ==
    /\ running \in BOOLEAN /\ stage \in 1..19 /\ todo \in Seq(Things) /\ half \in 0..2
    /\ snapshot \in [Records -> RecordType] /\ \A r \in Records : Fits(snapshot[r])
    /\ outcome \in {"none", "done", "failed"} /\ (running => outcome = "none")

Doing(s) == running /\ Stages[stage] = s

\* What the rows of a stage are rows of, and which stages have each of theirs once.
Pool(s) ==
    CASE s \in Tables -> ToSet(Slugged[s])
      [] s = "roles" -> ToSet(Roles)
      [] s \in {"records", "demo"} -> Seeded \ {Media}
      [] s = "media" -> {Media}
      [] s = "fonds" -> Institutions
      [] s \in {"placing", "subjects"} -> Records
      [] s = "lessons" -> ToSet(Course)
      [] s = "badges" -> ToSet(Badges)
      [] OTHER -> {s}

OnceEach == {"demo", "media", "placing", "badges"}

\* The lessons that are still to do are the last ones of the course.
Rest == [i \in 1..Len(todo) |-> Course[Len(Course) - Len(todo) + i]]

Queued ==
    running =>
        /\ ToSet(todo) \subseteq Pool(Stages[stage])
        /\ Stages[stage] \in OnceEach => IsInjective(todo)
        /\ Stages[stage] = "lessons" => Len(todo) <= Len(Course) /\ todo = Rest

\* What a stage adds one by one, it has taken away from the rows it has still to do.
Clean ==
    /\ Doing("demo") \/ Doing("media") => \A r \in ToSet(todo) : records[r].files = 0
    /\ Doing("badges") => \A b \in ToSet(todo) : badges[b] = 0

\* The lessons are of the seeds; while nobody takes one away, they are the first ones of the seeds.
Lessons ==
    /\ lessons \in Seq(ToSet(Course)) /\ IsInjective(lessons) /\ Len(lessons) <= Len(Course)
    /\ mode = "between" => ToSet(lessons) = {Course[n] : n \in 1..Len(lessons)}

-----------------------------------------------------------------------------
(* How far a run has come, while nobody writes but the script. *)

Undisturbed == running /\ mode # "live"

\* The stage s comes before the m-th one.
Before(s, m) == \E n \in 1..19 : Stages[n] = s /\ n < m

Past(s) == Before(s, stage)

\* The stage s has done with x.
Settled(s, x) == Past(s) \/ (Stages[stage] = s /\ x \notin ToSet(todo))

RowsSoFar ==
    Undisturbed => \A t \in Tables : \A x \in ToSet(Slugged[t]) : Settled(t, x) => x \in rows[t]

RolesSoFar == Undisturbed => \A x \in ToSet(Roles) : Settled("roles", x) => role[x] = "active"

SeedsSoFar ==
    Undisturbed =>
        /\ \A r \in Seeded \ {Media} : Settled("records", r) => records[r].there
        /\ Settled("media", Media) \/ (Doing("media") /\ half = 1) => records[Media].there
        /\ Stages[stage] \in {"demo", "placing", "subjects"} => ToSet(todo) \subseteq There

FilesSoFar ==
    Undisturbed =>
        /\ \A r \in Seeded \ {Media} : Settled("demo", r) => records[r].files = 1
        /\ Settled("media", Media) => records[Media].files = 1

Opened(level) == IF level = "private" THEN "sensitive" ELSE level

InPlace(rec, level) ==
    /\ rec.institution # None /\ rec.unit \in {"series", rec.institution}
    /\ rec.level = Opened(level)

PlacesSoFar ==
    Undisturbed =>
        /\ \A r \in There : Settled("placing", r) =>
              /\ InPlace(records[r], records[r].level)
              /\ records[r].policy = records[r].level /\ records[r].events = 1
        /\ Doing("placing") => \A r \in ToSet(todo) :
              IF r = Row /\ half # 0
              THEN /\ InPlace(records[r], snapshot[r].level)
                   /\ half = 2 => records[r].policy = records[r].level
              ELSE records[r] = snapshot[r]

SubjectsSoFar ==
    Undisturbed => \A r \in There :
        records[r].topic /\ Settled("subjects", r) => records[r].subjects = 1

FondsSoFar == Undisturbed => \A i \in Institutions : Settled("fonds", i) => fonds[i] = 1

LessonsSoFar ==
    Undisturbed =>
        /\ Doing("lessons") => Len(lessons) + Len(todo) >= Len(Course)
        /\ Past("lessons") => Len(lessons) = Len(Course)

BadgesSoFar == Undisturbed => \A b \in ToSet(Badges) : Settled("badges", b) => badges[b] = 1

SoFar ==
    /\ RowsSoFar /\ RolesSoFar /\ SeedsSoFar /\ FilesSoFar /\ PlacesSoFar /\ SubjectsSoFar
    /\ FondsSoFar /\ LessonsSoFar /\ BadgesSoFar

SeedInv ==
    /\ DatabaseTyped /\ ScriptTyped /\ Queued /\ Clean /\ Lessons /\ SoFar
    /\ SeedsAreWhole /\ FailsOnlyIfCut

-----------------------------------------------------------------------------
(* Sequences without repetition, and the rows of each stage. *)

\* A row taken from the front of a list.
LEMMA TakeRow ==
    ASSUME NEW S, NEW q \in Seq(S), q # <<>>
    PROVE  /\ Len(q) \in Nat \ {0} /\ Head(q) = q[1] /\ Head(q) \in ToSet(q)
           /\ Tail(q) \in Seq(S) /\ Len(Tail(q)) = Len(q) - 1
           /\ \A i \in 1..Len(Tail(q)) : Tail(q)[i] = q[i + 1]
           /\ ToSet(q) = {Head(q)} \cup ToSet(Tail(q))
           /\ IsInjective(q) => Head(q) \notin ToSet(Tail(q)) /\ IsInjective(Tail(q))
<1>1. /\ Len(q) \in Nat /\ Len(q) # 0 /\ DOMAIN q = 1..Len(q) /\ Head(q) = q[1]
      /\ Tail(q) \in Seq(S) /\ Len(Tail(q)) = Len(q) - 1 /\ DOMAIN Tail(q) = 1..Len(q) - 1
      /\ \A i \in 1..Len(q) - 1 : Tail(q)[i] = q[i + 1]
  OBVIOUS
<1>2. ToSet(q) = {Head(q)} \cup ToSet(Tail(q))
  <2>1. ASSUME NEW i \in 1..Len(q)  PROVE q[i] \in {Head(q)} \cup ToSet(Tail(q))
    <3>1. CASE i = 1  BY <1>1, <3>1
    <3>2. CASE i # 1
      <4>1. i - 1 \in 1..Len(q) - 1 /\ Tail(q)[i - 1] = q[i]  BY <1>1, <3>2
      <4> QED  BY <1>1, <4>1 DEF ToSet
    <3> QED  BY <3>1, <3>2
  <2>2. ASSUME NEW i \in 1..Len(q) - 1  PROVE Tail(q)[i] \in ToSet(q)
    <3>1. i + 1 \in 1..Len(q)  BY <1>1
    <3> QED  BY <1>1, <3>1 DEF ToSet
  <2>3. q[1] \in ToSet(q)  BY <1>1 DEF ToSet
  <2> QED  BY <1>1, <2>1, <2>2, <2>3 DEF ToSet
<1>3. ASSUME IsInjective(q)  PROVE Head(q) \notin ToSet(Tail(q)) /\ IsInjective(Tail(q))
  <2>1. ASSUME NEW i \in 1..Len(q) - 1  PROVE Tail(q)[i] # q[1]
    <3>1. i + 1 \in 1..Len(q) /\ i + 1 # 1 /\ 1 \in 1..Len(q)  BY <1>1
    <3> QED  BY <1>1, <1>3, <3>1 DEF IsInjective
  <2>2. ASSUME NEW i \in 1..Len(q) - 1, NEW j \in 1..Len(q) - 1, Tail(q)[i] = Tail(q)[j]
        PROVE  i = j
    <3>1. i + 1 \in 1..Len(q) /\ j + 1 \in 1..Len(q) /\ q[i + 1] = q[j + 1]  BY <1>1, <2>2
    <3>2. i + 1 = j + 1  BY <1>1, <1>3, <3>1 DEF IsInjective
    <3> QED  BY <3>2
  <2> QED  BY <1>1, <2>1, <2>2 DEF IsInjective, ToSet
<1> QED  BY <1>1, <1>2, <1>3 DEF ToSet

\* SetToSeq lists a finite set, each of its members once.
LEMMA ListsAll ==
    ASSUME NEW S, IsFiniteSet(S)
    PROVE  SetToSeq(S) \in Seq(S) /\ ToSet(SetToSeq(S)) = S /\ IsInjective(SetToSeq(S))
<1> DEFINE n == Cardinality(S)
           Q == SetToSeq(S)
<1>1. n \in Nat /\ \E f \in [1..n -> S] : IsInjective(f)
  BY FS_CardinalityType DEF ExistsBijection, Bijection, Injection
<1>2. Q \in [1..n -> S] /\ IsInjective(Q)  BY <1>1 DEF SetToSeq
<1>3. IsFiniteSet(1..n) /\ Cardinality(1..n) = n  BY <1>1, FS_Interval
<1>4. Q \in Injection(1..n, S)  BY <1>2 DEF Injection
<1> HIDE DEF Q
<1>5. Q \in Surjection(1..n, S)  BY <1>3, <1>4, FS_Injection
<1>6. ToSet(Q) = S  BY <1>2, <1>5 DEF Surjection, ToSet
<1>7. Q \in Seq(S)  BY <1>1, <1>2
<1> QED  BY <1>2, <1>6, <1>7 DEF Q

\* A list has finitely many members.
LEMMA FewMembers ==
    ASSUME NEW S, NEW q \in Seq(S)
    PROVE  IsFiniteSet(ToSet(q))
<1>1. q \in Surjection(1..Len(q), ToSet(q)) /\ Len(q) \in Nat  BY DEF Surjection, ToSet
<1> QED  BY <1>1, FS_Interval, FS_Surjection

\* The stages by their numbers.
LEMMA StageNumbers ==
    /\ Stages[1] = "users" /\ Stages[2] = "institutions" /\ Stages[3] = "members"
    /\ Stages[4] = "roles" /\ Stages[5] = "newsCategories" /\ Stages[6] = "records"
    /\ Stages[7] = "demo" /\ Stages[8] = "media" /\ Stages[9] = "fonds"
    /\ Stages[10] = "placing" /\ Stages[11] = "subjects" /\ Stages[12] = "news"
    /\ Stages[13] = "categories" /\ Stages[14] = "tags" /\ Stages[15] = "foreign"
    /\ Stages[16] = "courses" /\ Stages[17] = "lessons" /\ Stages[18] = "awards"
    /\ Stages[19] = "badges" /\ Len(Stages) = 19 /\ DOMAIN Stages = 1..19
  BY DEF Stages

\* No stage comes twice.
LEMMA StagesDiffer ==
    \A m, n \in 1..19 : Stages[m] = Stages[n] => m = n
<1>1. ASSUME NEW m \in 1..19, NEW n \in 1..19, m < n  PROVE Stages[m] # Stages[n]
  BY <1>1, StageNumbers
<1> QED  BY <1>1

\* What the loop of a stage runs over, by the stage.
WorkSet(s) ==
    CASE s \in Tables -> ToSet(Slugged[s])
      [] s = "roles" -> ToSet(Roles)
      [] s = "records" -> Seeded \ {Media}
      [] s = "demo" -> (There \cap Seeded) \ {Media}
      [] s = "media" -> {Media}
      [] s = "fonds" -> rows["institutions"]
      [] s = "placing" -> There
      [] s = "subjects" -> {r \in There : records[r].topic}
      [] s = "lessons" -> ToSet(Course)
      [] s = "badges" -> ToSet(Badges)
      [] OTHER -> {s}

StageNames == Tables \cup {"roles", "records", "demo", "media", "fonds", "placing", "subjects",
                           "foreign", "lessons", "awards", "badges"}

\* Every stage has a name of those.
LEMMA NamesOfStages == \A n \in 1..19 : Stages[n] \in StageNames
  BY StageNumbers DEF StageNames, Tables

\* The rows of a stage are those of WorkSet, each of them once where that matters.
LEMMA WorkIsSet ==
    ASSUME DatabaseTyped, NEW s \in StageNames
    PROVE  /\ Work(s) \in Seq(Things) /\ ToSet(Work(s)) = WorkSet(s)
           /\ WorkSet(s) \subseteq Pool(s)
           /\ s \in OnceEach => IsInjective(Work(s))
           /\ s = "lessons" => Work(s) = Course
<1> USE SeedingAssumption
<1>1. ASSUME NEW S, NEW q \in Seq(S), S \subseteq Things  PROVE q \in Seq(Things)
  BY <1>1
<1>2. /\ Records \subseteq Things /\ Institutions \subseteq Things /\ ToSet(Roles) \subseteq Things
      /\ ToSet(Course) \subseteq Things /\ ToSet(Badges) \subseteq Things
      /\ ToSet(Stages) \subseteq Things
      /\ \A t \in Tables : ToSet(Slugged[t]) \subseteq Things
  BY DEF Things
<1>3. IsFiniteSet(Records) /\ Seeded \subseteq Records /\ There \subseteq Records
  <2>1. IsFiniteSet(Seeded \cup Deposits)  BY FS_Union
  <2> QED  BY <2>1 DEF Records, There
<1>4. IsFiniteSet(rows["institutions"]) /\ rows["institutions"] \subseteq Institutions
  <2>1. "institutions" \in Tables  BY DEF Tables
  <2>2. IsFiniteSet(Institutions)  BY <2>1, FewMembers DEF Institutions
  <2>3. rows["institutions"] \subseteq Institutions  BY <2>1 DEF DatabaseTyped, Institutions
  <2> QED  BY <2>2, <2>3, FS_Subset
<1>5. ASSUME NEW S, S \subseteq Records
      PROVE  /\ Listed(S) \in Seq(Things) /\ ToSet(Listed(S)) = S /\ IsInjective(Listed(S))
             /\ SetToSeq(S) = Listed(S)
  <2>1. IsFiniteSet(S)  BY <1>3, <1>5, FS_Subset
  <2>2. SetToSeq(S) \in Seq(S) /\ ToSet(SetToSeq(S)) = S /\ IsInjective(SetToSeq(S))
    BY <2>1, ListsAll
  <2>3. SetToSeq(S) \in Seq(Things)  BY <1>1, <1>2, <1>5, <2>2
  <2> QED  BY <2>2, <2>3 DEF Listed
<1>6. CASE s \in Tables
  <2>1. Work(s) = Slugged[s]  BY <1>6 DEF Work, Tables
  <2>2. Slugged[s] \in Seq(ToSet(Slugged[s]))  BY <1>6
  <2>3. Slugged[s] \in Seq(Things)  BY <1>1, <1>2, <1>6, <2>2
  <2>4. WorkSet(s) = ToSet(Slugged[s]) /\ Pool(s) = WorkSet(s)  BY <1>6 DEF WorkSet, Pool, Tables
  <2>5. s \notin OnceEach /\ s # "lessons"  BY <1>6 DEF Tables, OnceEach
  <2> QED  BY <2>1, <2>3, <2>4, <2>5
<1>7. CASE s = "roles"
  <2>1. Work(s) = Roles  BY <1>7 DEF Work, Tables
  <2>2. WorkSet(s) = ToSet(Roles) /\ Pool(s) = ToSet(Roles)  BY <1>7 DEF WorkSet, Pool, Tables
  <2>3. Roles \in Seq(Things)  BY <1>1, <1>2
  <2> QED  BY <1>7, <2>1, <2>2, <2>3 DEF OnceEach
<1>8. CASE s = "records"
  <2>1. Work(s) = SetToSeq(Seeded \ {Media})  BY <1>8 DEF Work, Tables
  <2>2. WorkSet(s) = Seeded \ {Media} /\ Pool(s) = Seeded \ {Media}
    BY <1>8 DEF WorkSet, Pool, Tables
  <2> QED  BY <1>3, <1>5, <1>8, <2>1, <2>2
<1>9. CASE s = "demo"
  <2>1. Work(s) = Listed((There \cap Seeded) \ {Media})  BY <1>9 DEF Work, Tables
  <2>2. WorkSet(s) = (There \cap Seeded) \ {Media} /\ Pool(s) = Seeded \ {Media}
    BY <1>9 DEF WorkSet, Pool, Tables
  <2> QED  BY <1>3, <1>5, <1>9, <2>1, <2>2
<1>10. CASE s = "media"
  <2>1. Work(s) = <<Media>>  BY <1>10 DEF Work, Tables
  <2>2. WorkSet(s) = {Media} /\ Pool(s) = {Media}  BY <1>10 DEF WorkSet, Pool, Tables
  <2>3. <<Media>> \in Seq(Things) /\ ToSet(<<Media>>) = {Media} /\ IsInjective(<<Media>>)
    BY <1>2, <1>3 DEF ToSet, IsInjective
  <2> QED  BY <1>10, <2>1, <2>2, <2>3
<1>11. CASE s = "fonds"
  <2>1. Work(s) = SetToSeq(rows["institutions"])  BY <1>11 DEF Work, Tables, Listed
  <2>2. WorkSet(s) = rows["institutions"] /\ Pool(s) = Institutions
    BY <1>11 DEF WorkSet, Pool, Tables
  <2>3. Work(s) \in Seq(rows["institutions"]) /\ ToSet(Work(s)) = rows["institutions"]
    BY <1>4, <2>1, ListsAll
  <2>4. Work(s) \in Seq(Things)  BY <1>1, <1>2, <1>4, <2>3
  <2> QED  BY <1>4, <1>11, <2>2, <2>3, <2>4 DEF OnceEach
<1>12. CASE s = "placing"
  <2>1. Work(s) = Listed(There)  BY <1>12 DEF Work, Tables
  <2>2. WorkSet(s) = There /\ Pool(s) = Records  BY <1>12 DEF WorkSet, Pool, Tables
  <2> QED  BY <1>3, <1>5, <1>12, <2>1, <2>2
<1>13. CASE s = "subjects"
  <2>1. Work(s) = Listed({r \in There : records[r].topic})  BY <1>13 DEF Work, Tables
  <2>2. WorkSet(s) = {r \in There : records[r].topic} /\ Pool(s) = Records
    BY <1>13 DEF WorkSet, Pool, Tables
  <2> QED  BY <1>3, <1>5, <1>13, <2>1, <2>2
<1>14. CASE s = "lessons"
  <2>1. Work(s) = Course  BY <1>14 DEF Work, Tables
  <2>2. WorkSet(s) = ToSet(Course) /\ Pool(s) = ToSet(Course)  BY <1>14 DEF WorkSet, Pool, Tables
  <2>3. Course \in Seq(Things)  BY <1>1, <1>2
  <2> QED  BY <1>14, <2>1, <2>2, <2>3 DEF OnceEach
<1>15. CASE s = "badges"
  <2>1. Work(s) = Badges  BY <1>15 DEF Work, Tables
  <2>2. WorkSet(s) = ToSet(Badges) /\ Pool(s) = ToSet(Badges)  BY <1>15 DEF WorkSet, Pool, Tables
  <2>3. Badges \in Seq(Things)  BY <1>1, <1>2
  <2> QED  BY <1>15, <2>1, <2>2, <2>3
<1>16. CASE s \in {"foreign", "awards"}
  <2>1. Work(s) = <<s>>  BY <1>16 DEF Work, Tables
  <2>2. WorkSet(s) = {s} /\ Pool(s) = {s}  BY <1>16 DEF WorkSet, Pool, Tables
  <2>3. s \in ToSet(Stages)  BY <1>16, StageNumbers DEF ToSet
  <2>4. <<s>> \in Seq(Things) /\ ToSet(<<s>>) = {s}  BY <1>2, <2>3 DEF ToSet
  <2> QED  BY <1>16, <2>1, <2>2, <2>4 DEF OnceEach
<1> QED  BY <1>6, <1>7, <1>8, <1>9, <1>10, <1>11, <1>12, <1>13, <1>14, <1>15, <1>16 DEF StageNames

-----------------------------------------------------------------------------
(* How the script moves on: a row is done, a stage begins, the script stops. *)

\* A stage comes before those with a greater number.
LEMMA BeforeByNumber ==
    ASSUME NEW m \in 1..19, NEW n \in 1..19
    PROVE  Before(Stages[n], m) <=> n < m
  BY StagesDiffer DEF Before

\* The stages before the ones whose order the script relies on.
LEMMA EarlierNumbers ==
    ASSUME NEW m \in 1..19
    PROVE  /\ Stages[m] = "demo" => Before("records", m)
           /\ Stages[m] = "media" => Before("records", m) /\ Before("demo", m)
           /\ Stages[m] = "fonds" => Before("institutions", m)
           /\ Before("media", m) => Before("records", m) /\ Before("demo", m)
           /\ Before("placing", m) => Before("records", m) /\ Before("media", m)
           /\ Before("subjects", m) => Before("placing", m)
           /\ Stages[m] = "placing" =>
                 Before("records", m) /\ Before("media", m) /\ Before("demo", m)
           /\ Stages[m] = "subjects" =>
                 Before("placing", m) /\ Before("media", m) /\ Before("records", m)
           /\ Stages[m] \in {"records", "demo", "media", "placing"} =>
                 ~Before("placing", m) /\ ~Before("subjects", m)
           /\ Stages[m] = "subjects" => ~Before("subjects", m)
           /\ \A s : ~(Before(s, m) /\ s = Stages[m])
<1>1. /\ Stages[m] = "records" => m = 6
      /\ Stages[m] = "demo" => m = 7
      /\ Stages[m] = "media" => m = 8
      /\ Stages[m] = "fonds" => m = 9
      /\ Stages[m] = "placing" => m = 10
      /\ Stages[m] = "subjects" => m = 11
  BY StagesDiffer, StageNumbers
<1>2. /\ Before("institutions", m) <=> 2 < m
      /\ Before("records", m) <=> 6 < m
      /\ Before("demo", m) <=> 7 < m
      /\ Before("media", m) <=> 8 < m
      /\ Before("placing", m) <=> 10 < m
      /\ Before("subjects", m) <=> 11 < m
  BY BeforeByNumber, StageNumbers
<1>3. \A s : ~(Before(s, m) /\ s = Stages[m])  BY BeforeByNumber
<1> QED  BY <1>1, <1>2, <1>3

\* The same of the stage that the script is at.
LEMMA EarlierStages ==
    ASSUME stage \in 1..19
    PROVE  /\ Stages[stage] = "demo" => Past("records")
           /\ Stages[stage] = "media" => Past("records") /\ Past("demo")
           /\ Stages[stage] = "fonds" => Past("institutions")
           /\ Past("media") => Past("records") /\ Past("demo")
           /\ Past("placing") => Past("records") /\ Past("media")
           /\ Past("subjects") => Past("placing")
           /\ Stages[stage] = "placing" => Past("records") /\ Past("media") /\ Past("demo")
           /\ Stages[stage] = "subjects" => Past("placing") /\ Past("media") /\ Past("records")
           /\ Stages[stage] \in {"records", "demo", "media", "placing"} =>
                 ~Past("placing") /\ ~Past("subjects")
           /\ Stages[stage] = "subjects" => ~Past("subjects")
           /\ \A s : ~(Past(s) /\ s = Stages[stage])
  BY EarlierNumbers DEF Past

\* When the first row of a stage is done, the others are what is left.
LEMMA RowDone ==
    ASSUME ScriptTyped, Queued, running, todo # <<>>, Onward
    PROVE  /\ ScriptTyped' /\ Queued'
           /\ running' /\ stage' = stage /\ half' = 0 /\ snapshot' = snapshot
           /\ Row \in ToSet(todo) /\ Row \in Pool(Stages[stage])
           /\ ToSet(todo) = {Row} \cup ToSet(todo') /\ Len(todo') = Len(todo) - 1
           /\ Len(todo) \in Nat
           /\ Stages[stage] \in OnceEach => Row \notin ToSet(todo')
           /\ \A s, x : Settled(s, x)' => Settled(s, x) \/ (s = Stages[stage] /\ x = Row)
           /\ \A s : (Past(s)' <=> Past(s)) /\ (Doing(s)' <=> Doing(s))
<1>1. /\ todo' = Tail(todo) /\ half' = 0 /\ running' = running /\ stage' = stage
      /\ snapshot' = snapshot /\ outcome' = outcome
  BY DEF Onward
<1>2. todo \in Seq(Things)  BY DEF ScriptTyped
<1>3. /\ Len(todo) \in Nat \ {0} /\ Row = todo[1] /\ Row \in ToSet(todo)
      /\ todo' \in Seq(Things) /\ Len(todo') = Len(todo) - 1
      /\ \A i \in 1..Len(todo') : todo'[i] = todo[i + 1]
      /\ ToSet(todo) = {Row} \cup ToSet(todo')
      /\ IsInjective(todo) => Row \notin ToSet(todo') /\ IsInjective(todo')
  BY <1>1, <1>2, TakeRow DEF Row
<1>4. ScriptTyped'  BY <1>1, <1>3 DEF ScriptTyped
<1>5. ASSUME Stages[stage] = "lessons"  PROVE Len(todo') <= Len(Course) /\ todo' = Rest'
  <2>1. Len(todo) <= Len(Course) /\ todo = Rest  BY <1>5 DEF Queued
  <2>2. Len(Course) \in Nat  BY SeedingAssumption
  <2>3. ASSUME NEW i \in 1..Len(todo')
        PROVE  todo'[i] = Course[Len(Course) - Len(todo') + i]
    <3>1. i + 1 \in 1..Len(todo) /\ todo'[i] = todo[i + 1]  BY <1>3
    <3>2. todo[i + 1] = Course[Len(Course) - Len(todo) + (i + 1)]  BY <2>1, <3>1 DEF Rest
    <3>3. Len(Course) - Len(todo) + (i + 1) = Len(Course) - Len(todo') + i  BY <1>3, <2>2
    <3> QED  BY <3>1, <3>2, <3>3
  <2>4. todo' = [i \in 1..Len(todo') |-> todo'[i]]  BY <1>3
  <2> QED  BY <1>3, <2>1, <2>2, <2>3, <2>4 DEF Rest
<1>6. Queued'
  <2>1. ToSet(todo) \subseteq Pool(Stages[stage])  BY DEF Queued
  <2>2. ToSet(todo') \subseteq Pool(Stages[stage'])  BY <1>1, <1>3, <2>1
  <2>3. Stages[stage'] \in OnceEach => IsInjective(todo')  BY <1>1, <1>3 DEF Queued
  <2> QED  BY <1>1, <1>5, <2>2, <2>3 DEF Queued
<1>7. Row \in Pool(Stages[stage])  BY <1>3 DEF Queued
<1>8. Stages[stage] \in OnceEach => Row \notin ToSet(todo')  BY <1>3 DEF Queued
<1>9. \A s, x : Settled(s, x)' => Settled(s, x) \/ (s = Stages[stage] /\ x = Row)
  BY <1>1, <1>3 DEF Settled, Past, Before
<1>10. \A s : (Past(s)' <=> Past(s)) /\ (Doing(s)' <=> Doing(s))  BY <1>1 DEF Past, Before, Doing
<1> QED  BY <1>1, <1>3, <1>4, <1>6, <1>7, <1>8, <1>9, <1>10

\* A statement that is not the last one of its row.
LEMMA HalfDone ==
    ASSUME ScriptTyped, Queued, half' \in 0..2,
           UNCHANGED <<running, stage, todo, snapshot, outcome>>
    PROVE  /\ ScriptTyped' /\ Queued'
           /\ \A s, x : Settled(s, x)' <=> Settled(s, x)
           /\ \A s : (Past(s)' <=> Past(s)) /\ (Doing(s)' <=> Doing(s))
<1>1. ScriptTyped'  BY DEF ScriptTyped
<1>2. Queued'  BY DEF Queued, Rest
<1> QED  BY <1>1, <1>2 DEF Settled, Past, Before, Doing

\* A stage begins with all of its rows; the one before has done with everything.
LEMMA StageBegun ==
    ASSUME DatabaseTyped, ScriptTyped, NextStage
    PROVE  /\ running /\ running' /\ stage' = stage + 1 /\ stage' \in 2..19 /\ half' = 0
           /\ snapshot' = records' /\ todo' \in Seq(Things) /\ outcome' = outcome
           /\ Queued' /\ ToSet(todo') = WorkSet(Stages[stage'])
           /\ Stages[stage'] = "lessons" => Len(todo') = Len(Course)
           /\ \A x : Settled(Stages[stage], x)
           /\ \A s, x : Settled(s, x)' => \/ Settled(s, x)
                                          \/ s = Stages[stage'] /\ x \notin WorkSet(s)
           /\ \A s : Past(s)' <=> (Past(s) \/ s = Stages[stage])
<1>1. /\ running /\ todo = <<>> /\ stage < 19 /\ running' = TRUE /\ stage' = stage + 1 /\ half' = 0
      /\ todo' = Work(Stages[stage + 1]) /\ snapshot' = records' /\ outcome' = outcome
  BY StageNumbers DEF NextStage, Enter
<1>2. stage \in 1..18 /\ stage' \in 2..19  BY <1>1 DEF ScriptTyped
<1>3. Stages[stage'] \in StageNames  BY <1>2, NamesOfStages
<1>4. /\ todo' \in Seq(Things) /\ ToSet(todo') = WorkSet(Stages[stage'])
      /\ WorkSet(Stages[stage']) \subseteq Pool(Stages[stage'])
      /\ Stages[stage'] \in OnceEach => IsInjective(todo')
      /\ Stages[stage'] = "lessons" => todo' = Course
  BY <1>1, <1>3, WorkIsSet
<1>5. Stages[stage'] = "lessons" => Len(todo') = Len(Course) /\ todo' = Rest'
  <2>1. Len(Course) \in Nat /\ Course = [i \in 1..Len(Course) |-> Course[i]]
    BY SeedingAssumption
  <2>2. \A i \in 1..Len(Course) : Len(Course) - Len(Course) + i = i  BY <2>1
  <2> QED  BY <1>4, <2>1, <2>2 DEF Rest
<1>6. Queued'
  <2>1. Len(Course) \in Nat  BY SeedingAssumption
  <2> QED  BY <1>4, <1>5, <2>1 DEF Queued
<1>7. \A x : Settled(Stages[stage], x)  BY <1>1 DEF Settled, ToSet
<1>8. \A s : Past(s)' <=> (Past(s) \/ s = Stages[stage])
  <2>1. ASSUME NEW s  PROVE Past(s)' <=> (Past(s) \/ s = Stages[stage])
    <3>1. Past(s)' <=> \E n \in 1..19 : Stages[n] = s /\ n < stage + 1  BY <1>1 DEF Past, Before
    <3>2. \A n \in 1..19 : n < stage + 1 <=> (n < stage \/ n = stage)  BY <1>2
    <3> QED  BY <1>2, <3>1, <3>2 DEF Past, Before
  <2> QED  BY <2>1
<1>9. \A s, x : Settled(s, x)' => \/ Settled(s, x)
                                  \/ s = Stages[stage'] /\ x \notin WorkSet(s)
  BY <1>4, <1>7, <1>8 DEF Settled
<1> QED  BY <1>1, <1>2, <1>4, <1>5, <1>6, <1>7, <1>8, <1>9

-----------------------------------------------------------------------------
(* What a statement leaves as it was. *)

\* A statement of the stage S disturbs what the other stages have done only if it
\* writes what they wrote.
Kept(S) ==
    /\ S \notin Tables /\ rows' = rows => RowsSoFar'
    /\ S # "roles" /\ role' = role => RolesSoFar'
    /\ S \notin {"records", "media"} /\ There' = There => SeedsSoFar'
    /\ S \notin {"demo", "media"} /\ (\A r \in Records : records'[r].files = records[r].files)
          => FilesSoFar'
    /\ S # "placing" /\ There' = There
       /\ (\A r \in Records : records'[r].institution = records[r].institution
                              /\ records'[r].unit = records[r].unit
                              /\ records'[r].level = records[r].level
                              /\ records'[r].policy = records[r].policy
                              /\ records'[r].events = records[r].events)
          => PlacesSoFar'
    /\ S \in {"records", "demo", "media"} => PlacesSoFar'
    /\ S \in {"records", "demo", "media", "placing"} => SubjectsSoFar'
    /\ S # "subjects" /\ records' = records => SubjectsSoFar'
    /\ S # "fonds" /\ fonds' = fonds => FondsSoFar'
    /\ S # "lessons" /\ lessons' = lessons => LessonsSoFar'
    /\ S # "badges" /\ badges' = badges => BadgesSoFar'
    /\ S \in {"demo", "media"} /\ (\A r \in ToSet(todo') : records'[r].files = 0) => Clean'
    /\ S = "badges" /\ (\A b \in ToSet(todo') : badges'[b] = 0) => Clean'
    /\ S \notin {"demo", "media", "badges"} => Clean'
    /\ lessons' = lessons => Lessons'
    /\ SeedsAreWhole' \/ outcome' = "done"
    /\ FailsOnlyIfCut' \/ outcome' = "failed"

\* A statement of the stage S leaves what the other stages have settled.
LEMMA OthersKept ==
    ASSUME SeedInv, NEW S, S = Stages[stage], running, mode' = mode, running' = running,
           stage' = stage, snapshot' = snapshot, ToSet(todo') \subseteq ToSet(todo),
           Len(todo) \in Nat, half' \in 0..2,
           \A s, x : Settled(s, x)' => Settled(s, x) \/ s = S,
           \A s : (Past(s)' <=> Past(s)) /\ (Doing(s)' <=> Doing(s))
    PROVE  Kept(S)
<1>1. Undisturbed' <=> Undisturbed  BY DEF Undisturbed
<1>2. stage \in 1..19  BY DEF SeedInv, ScriptTyped
<1>3. S \notin Tables /\ rows' = rows => RowsSoFar'
  BY <1>1 DEF SeedInv, SoFar, RowsSoFar
<1>4. S # "roles" /\ role' = role => RolesSoFar'
  BY <1>1 DEF SeedInv, SoFar, RolesSoFar
<1>5. S \notin {"records", "media"} /\ There' = There => SeedsSoFar'
  <2> SUFFICES ASSUME S \notin {"records", "media"}, There' = There, Undisturbed'  PROVE SeedsSoFar'
    BY DEF SeedsSoFar
  <2>1. SeedsSoFar  BY DEF SeedInv, SoFar
  <2>2. \A r \in Seeded : r \in Records  BY DEF Records
  <2>3. \A r \in Seeded : records'[r].there <=> records[r].there  BY <2>2 DEF There
  <2>4. ~Doing("media")'  BY DEF Doing
  <2>5. \A r \in Seeded \ {Media} : Settled("records", r)' => records'[r].there
    BY <1>1, <2>1, <2>3 DEF SeedsSoFar
  <2>6. Settled("media", Media)' => records'[Media].there
    BY <1>1, <2>1, <2>3, SeedingAssumption DEF SeedsSoFar
  <2>7. Stages[stage'] \in {"demo", "placing", "subjects"} => ToSet(todo') \subseteq There'
    BY <1>1, <2>1 DEF SeedsSoFar
  <2> QED  BY <2>4, <2>5, <2>6, <2>7 DEF SeedsSoFar
<1>6. S \notin {"demo", "media"} /\ (\A r \in Records : records'[r].files = records[r].files)
         => FilesSoFar'
  <2>1. Seeded \subseteq Records /\ Media \in Seeded  BY SeedingAssumption DEF Records
  <2> QED  BY <1>1, <2>1 DEF SeedInv, SoFar, FilesSoFar
<1>7. ASSUME S # "placing", There' = There,
             \A r \in Records : records'[r].institution = records[r].institution
                                /\ records'[r].unit = records[r].unit
                                /\ records'[r].level = records[r].level
                                /\ records'[r].policy = records[r].policy
                                /\ records'[r].events = records[r].events
      PROVE  PlacesSoFar'
  <2>1. PlacesSoFar  BY DEF SeedInv, SoFar
  <2>2. ~Doing("placing")'  BY <1>7 DEF Doing
  <2>3. ASSUME Undisturbed', NEW r \in There, Settled("placing", r)'
        PROVE  /\ InPlace(records'[r], records'[r].level)
               /\ records'[r].policy = records'[r].level /\ records'[r].events = 1
    <3>1. r \in Records /\ Settled("placing", r)  BY <1>7, <2>3 DEF There
    <3> QED  BY <1>1, <1>7, <2>1, <2>3, <3>1 DEF PlacesSoFar, InPlace
  <2> QED  BY <1>7, <2>2, <2>3 DEF PlacesSoFar
<1>8. S \in {"records", "demo", "media"} => PlacesSoFar'
  <2> SUFFICES ASSUME S \in {"records", "demo", "media"}  PROVE PlacesSoFar'
    OBVIOUS
  <2>1. ~Past("placing")' /\ Stages[stage'] # "placing"  BY <1>2, EarlierStages
  <2> QED  BY <2>1 DEF PlacesSoFar, Settled, Doing
<1>9. S \in {"records", "demo", "media", "placing"} => SubjectsSoFar'
  <2> SUFFICES ASSUME S \in {"records", "demo", "media", "placing"}  PROVE SubjectsSoFar'
    OBVIOUS
  <2>1. ~Past("subjects")' /\ Stages[stage'] # "subjects"  BY <1>2, EarlierStages
  <2> QED  BY <2>1 DEF SubjectsSoFar, Settled
<1>10. S # "subjects" /\ records' = records => SubjectsSoFar'
  BY <1>1 DEF SeedInv, SoFar, SubjectsSoFar, There
<1>11. S # "fonds" /\ fonds' = fonds => FondsSoFar'
  BY <1>1 DEF SeedInv, SoFar, FondsSoFar
<1>12. S # "lessons" /\ lessons' = lessons => LessonsSoFar'
  BY <1>1 DEF SeedInv, SoFar, LessonsSoFar, Doing
<1>13. S # "badges" /\ badges' = badges => BadgesSoFar'
  BY <1>1 DEF SeedInv, SoFar, BadgesSoFar
<1>14. S \in {"demo", "media"} /\ (\A r \in ToSet(todo') : records'[r].files = 0) => Clean'
  BY DEF Clean, Doing
<1>15. S = "badges" /\ (\A b \in ToSet(todo') : badges'[b] = 0) => Clean'
  BY DEF Clean, Doing
<1>16. S \notin {"demo", "media", "badges"} => Clean'
  BY DEF Clean, Doing
<1>17. lessons' = lessons => Lessons'  BY DEF SeedInv, Lessons
<1>18. (SeedsAreWhole' \/ outcome' = "done") /\ (FailsOnlyIfCut' \/ outcome' = "failed")
  BY DEF SeedsAreWhole, FailsOnlyIfCut
<1> QED
  BY <1>3, <1>4, <1>5, <1>6, <1>7, <1>8, <1>9, <1>10, <1>11, <1>12, <1>13, <1>14, <1>15, <1>16,
     <1>17, <1>18 DEF Kept

\* When the script stops, there is nothing left to hold but how it ended.
LEMMA Stopped ==
    ASSUME SeedInv, Stop, DatabaseTyped', Lessons', outcome' \in {"none", "done", "failed"},
           SeedsAreWhole', FailsOnlyIfCut'
    PROVE  SeedInv'
<1>1. running' = FALSE /\ stage' = 1 /\ todo' = <<>> /\ half' = 0 /\ snapshot' = Blank
  BY DEF Stop
<1>2. Blank \in [Records -> RecordType] /\ \A r \in Records : Fits(Blank[r])
  <2>1. Absent \in RecordType /\ Fits(Absent)  BY DEF Absent, RecordType, Fits, Levels
  <2> QED  BY <2>1 DEF Blank
<1>3. ScriptTyped'
  <2>1. snapshot' \in [Records -> RecordType] /\ \A r \in Records : Fits(snapshot'[r])
    BY <1>1, <1>2
  <2>2. running' \in BOOLEAN  BY <1>1, Zenon
  <2>5. stage' \in 1..19 /\ half' \in 0..2
    <3>1. stage' = 1 /\ half' = 0  BY <1>1, Zenon
    <3> QED  BY <3>1
  <2>3. <<>> \in Seq(Things)  OBVIOUS
  <2>4. todo' \in Seq(Things)  BY <1>1, <2>3, Zenon
  <2> QED  BY <1>1, <2>1, <2>2, <2>4, <2>5 DEF ScriptTyped
<1>4. Queued' /\ Clean'  BY <1>1 DEF Queued, Clean, Doing
<1>5. SoFar'
  BY <1>1 DEF SoFar, RowsSoFar, RolesSoFar, SeedsSoFar, FilesSoFar, PlacesSoFar, SubjectsSoFar,
              FondsSoFar, LessonsSoFar, BadgesSoFar, Undisturbed
<1> QED  BY <1>3, <1>4, <1>5 DEF SeedInv

\* The last statement of a row.
LEMMA RowStep ==
    ASSUME SeedInv, NEW S, At(S), Onward, mode' = mode, outcome' = outcome
    PROVE  /\ running /\ running' /\ Stages[stage] = S /\ stage' = stage /\ half' = 0
           /\ ScriptTyped' /\ Queued' /\ SeedsAreWhole' /\ FailsOnlyIfCut' /\ Kept(S)
           /\ snapshot' = snapshot /\ (Undisturbed' <=> Undisturbed) /\ outcome' = "none"
           /\ Row \in ToSet(todo) /\ Row \in Pool(S)
           /\ ToSet(todo) = {Row} \cup ToSet(todo') /\ Len(todo') = Len(todo) - 1
           /\ Len(todo) \in Nat
           /\ S \in OnceEach => Row \notin ToSet(todo')
           /\ \A s, x : Settled(s, x)' => Settled(s, x) \/ (s = S /\ x = Row)
           /\ \A s : (Past(s)' <=> Past(s)) /\ (Doing(s)' <=> Doing(s))
<1>1. running /\ Stages[stage] = S /\ todo # <<>>  BY DEF At
<1>2. ScriptTyped /\ Queued  BY DEF SeedInv
<1>3. /\ ScriptTyped' /\ Queued' /\ running' /\ stage' = stage /\ half' = 0
      /\ snapshot' = snapshot
      /\ Row \in ToSet(todo) /\ Row \in Pool(S)
      /\ ToSet(todo) = {Row} \cup ToSet(todo') /\ Len(todo') = Len(todo) - 1
      /\ Len(todo) \in Nat
      /\ S \in OnceEach => Row \notin ToSet(todo')
      /\ \A s, x : Settled(s, x)' => Settled(s, x) \/ (s = S /\ x = Row)
      /\ \A s : (Past(s)' <=> Past(s)) /\ (Doing(s)' <=> Doing(s))
  BY <1>1, <1>2, RowDone
<1>4. running' = running  BY DEF Onward
<1>5. Kept(S)
  <2>1. S = Stages[stage]  BY <1>1
  <2>2. ToSet(todo') \subseteq ToSet(todo) /\ half' \in 0..2  BY <1>3
  <2>3. \A s, x : Settled(s, x)' => Settled(s, x) \/ s = S  BY <1>3
  <2> HIDE DEF SeedInv
  <2> QED  BY <1>1, <1>3, <1>4, <2>1, <2>2, <2>3, OthersKept
<1>6. outcome' = "none"  BY <1>1, <1>2 DEF ScriptTyped
<1>7. SeedsAreWhole' /\ FailsOnlyIfCut'  BY <1>6 DEF SeedsAreWhole, FailsOnlyIfCut
<1>8. Undisturbed' <=> Undisturbed  BY <1>4 DEF Undisturbed
<1> QED  BY <1>1, <1>3, <1>5, <1>6, <1>7, <1>8

\* A row of a slugged table.
LEMMA Upserted ==
    ASSUME SeedInv, NEW t \in Tables, Upsert(t)
    PROVE  SeedInv'
<1>1. /\ At(t) /\ Onward /\ rows' = [rows EXCEPT ![t] = @ \cup {Row}]
      /\ UNCHANGED <<mode, crashes, edits, role, records, fonds, foreign, lessons, badges, awards>>
  BY DEF Upsert, people, courses
<1>2. outcome' = outcome  BY <1>1 DEF Onward
<1>3. /\ ScriptTyped' /\ Queued' /\ SeedsAreWhole' /\ FailsOnlyIfCut' /\ Kept(t)
      /\ (Undisturbed' <=> Undisturbed) /\ Row \in Pool(t)
      /\ \A s, x : Settled(s, x)' => Settled(s, x) \/ (s = t /\ x = Row)
  BY <1>1, <1>2, RowStep
<1>4. t \notin {"roles", "records", "demo", "media", "fonds", "placing", "subjects", "lessons",
                "badges"}
  BY DEF Tables
<1>5. Row \in ToSet(Slugged[t])
  <2>1. Pool(t) = ToSet(Slugged[t])  BY DEF Pool, Tables
  <2> QED  BY <1>3, <2>1
<1>6. DatabaseTyped'
  <2>1. Row \in Things
    <3>1. Row \in UNION {ToSet(Slugged[u]) : u \in Tables}  BY <1>5
    <3> QED  BY <3>1, Zenon DEF Things
  <2> QED  BY <1>1, <1>5, <2>1 DEF SeedInv, DatabaseTyped, Fits
<1>7. RowsSoFar'
  <2>1. DatabaseTyped /\ RowsSoFar  BY DEF SeedInv, SoFar
  <2> QED  BY <1>1, <1>3, <2>1 DEF RowsSoFar, DatabaseTyped
<1>8. There' = There  BY <1>1 DEF There
<1>9. SoFar' /\ Clean' /\ Lessons'
  BY <1>1, <1>3, <1>4, <1>7, <1>8 DEF Kept, SoFar
<1> QED  BY <1>3, <1>6, <1>9 DEF SeedInv

-----------------------------------------------------------------------------
(* The stages without records. *)

\* A role.
LEMMA RoleEnsured ==
    ASSUME SeedInv, EnsureRole
    PROVE  SeedInv'
<1>1. /\ At("roles") /\ Onward /\ role' = [role EXCEPT ![Row] = "active"]
      /\ UNCHANGED <<mode, crashes, edits, rows, records, fonds, foreign, lessons, badges, awards>>
  BY DEF EnsureRole, people, courses
<1>2. outcome' = outcome  BY <1>1 DEF Onward
<1>3. /\ ScriptTyped' /\ Queued' /\ SeedsAreWhole' /\ FailsOnlyIfCut' /\ Kept("roles")
      /\ (Undisturbed' <=> Undisturbed) /\ Row \in Pool("roles")
      /\ \A s, x : Settled(s, x)' => Settled(s, x) \/ (s = "roles" /\ x = Row)
  BY <1>1, <1>2, RowStep
<1>4. Row \in ToSet(Roles)
  <2>1. Pool("roles") = ToSet(Roles)  BY DEF Pool, Tables
  <2> QED  BY <1>3, <2>1
<1>5. DatabaseTyped'  BY <1>1, <1>4 DEF SeedInv, DatabaseTyped, Fits
<1>6. RolesSoFar'
  <2>1. DatabaseTyped /\ RolesSoFar  BY DEF SeedInv, SoFar
  <2> QED  BY <1>1, <1>3, <2>1 DEF RolesSoFar, DatabaseTyped
<1>7. There' = There /\ "roles" \notin Tables  BY <1>1 DEF There, Tables
<1>8. SoFar' /\ Clean' /\ Lessons'
  BY <1>1, <1>3, <1>6, <1>7 DEF Kept, SoFar
<1> QED  BY <1>3, <1>5, <1>8 DEF SeedInv

\* The default fonds of an institution.
LEMMA FondsMade ==
    ASSUME SeedInv, DefaultFonds
    PROVE  SeedInv'
<1>1. /\ At("fonds") /\ Onward /\ fonds' = [fonds EXCEPT ![Row] = IF @ = 0 THEN 1 ELSE @]
      /\ UNCHANGED <<mode, crashes, edits, rows, role, records, foreign, lessons, badges, awards>>
  BY DEF DefaultFonds, people, courses
<1>2. outcome' = outcome  BY <1>1 DEF Onward
<1>3. /\ ScriptTyped' /\ Queued' /\ SeedsAreWhole' /\ FailsOnlyIfCut' /\ Kept("fonds")
      /\ (Undisturbed' <=> Undisturbed) /\ Row \in Pool("fonds")
      /\ \A s, x : Settled(s, x)' => Settled(s, x) \/ (s = "fonds" /\ x = Row)
  BY <1>1, <1>2, RowStep
<1>4. Row \in Institutions
  <2>1. Pool("fonds") = Institutions  BY DEF Pool, Tables
  <2> QED  BY <1>3, <2>1
<1>5. DatabaseTyped /\ FondsSoFar  BY DEF SeedInv, SoFar
<1>6. fonds' \in [Institutions -> 0..1] /\ fonds'[Row] = 1
      /\ \A i \in Institutions \ {Row} : fonds'[i] = fonds[i]
  BY <1>1, <1>4, <1>5 DEF DatabaseTyped
<1>7. DatabaseTyped'  BY <1>1, <1>5, <1>6 DEF DatabaseTyped, Fits
<1>8. FondsSoFar'  BY <1>3, <1>5, <1>6 DEF FondsSoFar
<1>9. There' = There /\ "fonds" \notin Tables  BY <1>1 DEF There, Tables
<1>10. SoFar' /\ Clean' /\ Lessons'
  BY <1>1, <1>3, <1>8, <1>9 DEF Kept, SoFar
<1> QED  BY <1>3, <1>7, <1>10 DEF SeedInv

\* The foreign courses and the awards, which nothing here depends on.
LEMMA OthersDeleted ==
    ASSUME SeedInv, DeleteOthers \/ DeleteAwards
    PROVE  SeedInv'
<1> DEFINE S == Stages[stage]
<1>1. /\ S \in {"foreign", "awards"} /\ At(S) /\ Onward
      /\ UNCHANGED <<mode, crashes, edits, rows, role, records, fonds, lessons, badges>>
      /\ foreign' \in BOOLEAN /\ awards' \in BOOLEAN
  BY DEF DeleteOthers, DeleteAwards, people, At, SeedInv, DatabaseTyped
<1>2. outcome' = outcome  BY <1>1 DEF Onward
<1> HIDE DEF S
<1>3. ScriptTyped' /\ Queued' /\ SeedsAreWhole' /\ FailsOnlyIfCut' /\ Kept(S)
  BY <1>1, <1>2, RowStep
<1>4. DatabaseTyped'  BY <1>1 DEF SeedInv, DatabaseTyped, Fits
<1>5. There' = There  BY <1>1 DEF There
<1>6. S \notin Tables \cup {"roles", "records", "demo", "media", "fonds", "placing", "subjects",
                            "lessons", "badges"}
  BY <1>1 DEF Tables
<1>7. SoFar' /\ Clean' /\ Lessons'
  BY <1>1, <1>3, <1>5, <1>6 DEF Kept, SoFar
<1> QED  BY <1>3, <1>4, <1>7 DEF SeedInv

\* An achievement.
LEMMA BadgeCreated ==
    ASSUME SeedInv, CreateBadge
    PROVE  SeedInv'
<1>1. /\ At("badges") /\ Onward /\ badges' = [badges EXCEPT ![Row] = @ + 1]
      /\ UNCHANGED <<mode, crashes, edits, rows, role, records, fonds, foreign, lessons, awards>>
  BY DEF CreateBadge, people
<1>2. outcome' = outcome  BY <1>1 DEF Onward
<1>3. /\ ScriptTyped' /\ Queued' /\ SeedsAreWhole' /\ FailsOnlyIfCut' /\ Kept("badges")
      /\ (Undisturbed' <=> Undisturbed) /\ Row \in Pool("badges") /\ Row \in ToSet(todo)
      /\ ToSet(todo) = {Row} \cup ToSet(todo') /\ Row \notin ToSet(todo')
      /\ running /\ Stages[stage] = "badges"
      /\ \A s, x : Settled(s, x)' => Settled(s, x) \/ (s = "badges" /\ x = Row)
  BY <1>1, <1>2, RowStep DEF OnceEach
<1>4. Row \in ToSet(Badges)
  <2>1. Pool("badges") = ToSet(Badges)  BY DEF Pool, Tables
  <2> QED  BY <1>3, <2>1
<1>5. DatabaseTyped /\ BadgesSoFar /\ Clean  BY DEF SeedInv, SoFar
<1>6. badges[Row] = 0 /\ \A b \in ToSet(todo') : badges[b] = 0
  BY <1>3, <1>5 DEF Clean, Doing
<1>7. /\ badges' \in [ToSet(Badges) -> 0..1] /\ badges'[Row] = 1
      /\ \A b \in ToSet(Badges) \ {Row} : badges'[b] = badges[b]
  BY <1>1, <1>4, <1>5, <1>6 DEF DatabaseTyped
<1>8. \A b \in ToSet(todo') : badges'[b] = 0
  <2>1. ToSet(todo') \subseteq ToSet(Badges)
    <3>1. ToSet(todo') \subseteq Pool("badges")  BY <1>3 DEF SeedInv, Queued
    <3>2. Pool("badges") = ToSet(Badges)  BY DEF Pool, Tables
    <3> QED  BY <3>1, <3>2
  <2> QED  BY <1>3, <1>6, <1>7, <2>1
<1>9. DatabaseTyped'  BY <1>1, <1>5, <1>7 DEF DatabaseTyped, Fits
<1>10. BadgesSoFar'  BY <1>3, <1>5, <1>7 DEF BadgesSoFar
<1>11. There' = There /\ "badges" \notin Tables  BY <1>1 DEF There, Tables
<1>12. SoFar' /\ Clean' /\ Lessons'
  BY <1>1, <1>3, <1>8, <1>10, <1>11 DEF Kept, SoFar
<1> QED  BY <1>3, <1>9, <1>12 DEF SeedInv

-----------------------------------------------------------------------------
(* The lessons. *)

\* A lesson appended that is not there.
LEMMA LessonAppended ==
    ASSUME NEW S, NEW q \in Seq(S), IsInjective(q), NEW x \in S, x \notin ToSet(q)
    PROVE  /\ Append(q, x) \in Seq(S) /\ IsInjective(Append(q, x))
           /\ Len(Append(q, x)) = Len(q) + 1 /\ ToSet(Append(q, x)) = ToSet(q) \cup {x}
<1> DEFINE a == Append(q, x)
<1>1. /\ Len(q) \in Nat /\ DOMAIN q = 1..Len(q)
      /\ a \in Seq(S) /\ Len(a) = Len(q) + 1 /\ DOMAIN a = 1..Len(q) + 1
      /\ \A i \in 1..Len(q) : a[i] = q[i]
      /\ a[Len(q) + 1] = x
  OBVIOUS
<1> HIDE DEF a
<1>2. \A i \in 1..Len(q) : q[i] # x  BY <1>1 DEF ToSet
<1>3. ASSUME NEW i \in 1..Len(q) + 1, NEW j \in 1..Len(q) + 1, a[i] = a[j]  PROVE i = j
  <2>1. CASE i \in 1..Len(q) /\ j \in 1..Len(q)  BY <1>1, <1>3, <2>1 DEF IsInjective
  <2>2. CASE i = Len(q) + 1 \/ j = Len(q) + 1  BY <1>1, <1>2, <1>3, <2>2
  <2> QED  BY <1>1, <2>1, <2>2
<1>4. IsInjective(a)  BY <1>1, <1>3 DEF IsInjective
<1>5. ToSet(a) = ToSet(q) \cup {x}
  <2>1. 1..Len(q) + 1 = (1..Len(q)) \cup {Len(q) + 1}  BY <1>1
  <2> QED  BY <1>1, <2>1 DEF ToSet
<1> QED  BY <1>1, <1>4, <1>5 DEF a

\* A lesson taken out; those behind it move up.
LEMMA LessonTakenOut ==
    ASSUME NEW S, NEW q \in Seq(S), IsInjective(q), NEW n \in DOMAIN q
    PROVE  /\ RemoveAt(q, n) \in Seq(S) /\ IsInjective(RemoveAt(q, n))
           /\ Len(RemoveAt(q, n)) = Len(q) - 1
<1> DEFINE a == SubSeq(q, 1, n - 1)
           b == SubSeq(q, n + 1, Len(q))
           d == a \o b
<1>1. Len(q) \in Nat /\ DOMAIN q = 1..Len(q) /\ n \in 1..Len(q)  OBVIOUS
<1>2. /\ a \in Seq(S) /\ Len(a) = n - 1 /\ \A i \in 1..n - 1 : a[i] = q[i]
      /\ b \in Seq(S) /\ Len(b) = Len(q) - n /\ \A i \in 1..Len(q) - n : b[i] = q[i + n]
  <2>1. ASSUME NEW k \in 1..Len(q) + 1, NEW m \in 0..Len(q), k <= m + 1
        PROVE  /\ SubSeq(q, k, m) \in Seq(S) /\ Len(SubSeq(q, k, m)) = m - k + 1
               /\ \A i \in 1..m - k + 1 : SubSeq(q, k, m)[i] = q[i + k - 1]
    BY <1>1, <2>1
  <2>2. a \in Seq(S) /\ Len(a) = n - 1 /\ \A i \in 1..n - 1 : a[i] = q[i]
    <3>1. /\ 1 \in 1..Len(q) + 1 /\ n - 1 \in 0..Len(q) /\ 1 <= n - 1 + 1
          /\ n - 1 - 1 + 1 = n - 1 /\ \A i \in 1..n - 1 : i + 1 - 1 = i
      BY <1>1
    <3> QED  BY <2>1, <3>1
  <2>3. b \in Seq(S) /\ Len(b) = Len(q) - n /\ \A i \in 1..Len(q) - n : b[i] = q[i + n]
    <3>1. /\ n + 1 \in 1..Len(q) + 1 /\ Len(q) \in 0..Len(q) /\ n + 1 <= Len(q) + 1
          /\ Len(q) - (n + 1) + 1 = Len(q) - n
          /\ \A i \in 1..Len(q) - n : i + (n + 1) - 1 = i + n
      BY <1>1
    <3> QED  BY <2>1, <3>1
  <2> QED  BY <2>2, <2>3
<1> HIDE DEF a, b
<1>3. /\ d \in Seq(S) /\ Len(d) = Len(q) - 1 /\ DOMAIN d = 1..Len(q) - 1
      /\ \A i \in 1..Len(q) - 1 : d[i] = IF i <= n - 1 THEN a[i] ELSE b[i - (n - 1)]
  <2>1. ASSUME NEW u \in Seq(S), NEW v \in Seq(S)
        PROVE  /\ u \o v \in Seq(S) /\ Len(u \o v) = Len(u) + Len(v)
               /\ \A i \in 1..Len(u) + Len(v) :
                     (u \o v)[i] = IF i <= Len(u) THEN u[i] ELSE v[i - Len(u)]
    OBVIOUS
  <2>2. /\ d \in Seq(S) /\ Len(d) = Len(a) + Len(b)
        /\ \A i \in 1..Len(a) + Len(b) : d[i] = IF i <= Len(a) THEN a[i] ELSE b[i - Len(a)]
    BY <1>2, <2>1
  <2>3. Len(a) + Len(b) = Len(q) - 1  BY <1>1, <1>2
  <2>4. DOMAIN d = 1..Len(d)  BY <2>2
  <2> QED  BY <1>2, <2>2, <2>3, <2>4
<1> HIDE DEF d
<1>4. \A i \in 1..Len(q) - 1 : d[i] = q[IF i < n THEN i ELSE i + 1]
  <2> TAKE i \in 1..Len(q) - 1
  <2>1. CASE i < n
    <3>1. i \in 1..n - 1  BY <1>1, <2>1
    <3> QED  BY <1>1, <1>2, <1>3, <2>1, <3>1
  <2>2. CASE ~(i < n)
    <3>1. i - (n - 1) \in 1..Len(q) - n /\ i - (n - 1) + n = i + 1 /\ ~(i <= n - 1)
      BY <1>1, <2>2
    <3>2. d[i] = b[i - (n - 1)]  BY <1>3, <3>1
    <3> QED  BY <1>2, <2>2, <3>1, <3>2
  <2> QED  BY <2>1, <2>2
<1>5. IsInjective(d)
  <2>1. ASSUME NEW i \in 1..Len(q) - 1, NEW j \in 1..Len(q) - 1, d[i] = d[j]  PROVE i = j
    <3> DEFINE k(x) == IF x < n THEN x ELSE x + 1
    <3>1. k(i) \in 1..Len(q) /\ k(j) \in 1..Len(q)  BY <1>1
    <3>2. q[k(i)] = q[k(j)]  BY <1>4, <2>1
    <3>3. k(i) = k(j)  BY <1>1, <3>1, <3>2 DEF IsInjective
    <3> QED  BY <1>1, <3>3
  <2> QED  BY <1>3, <2>1 DEF IsInjective
<1> QED  BY <1>3, <1>5 DEF RemoveAt, a, b, d

\* Two lessons that change places.
Exchanged(q, n) == [q EXCEPT ![n] = q[n + 1], ![n + 1] = q[n]]

\* Two neighbours swapped.
LEMMA LessonsSwapped ==
    ASSUME NEW S, NEW q \in Seq(S), IsInjective(q), NEW n \in DOMAIN q, n < Len(q)
    PROVE  /\ Exchanged(q, n) \in Seq(S) /\ IsInjective(Exchanged(q, n))
           /\ Len(Exchanged(q, n)) = Len(q) /\ ToSet(Exchanged(q, n)) = ToSet(q)
<1> DEFINE d == Exchanged(q, n)
<1>1. Len(q) \in Nat /\ DOMAIN q = 1..Len(q) /\ n \in 1..Len(q) /\ n + 1 \in 1..Len(q)  OBVIOUS
<1> DEFINE k(x) == IF x = n THEN n + 1 ELSE IF x = n + 1 THEN n ELSE x
<1>2. /\ DOMAIN d = 1..Len(q) /\ d = [i \in 1..Len(q) |-> d[i]]
      /\ \A i \in 1..Len(q) : d[i] = q[k(i)]
  BY <1>1 DEF Exchanged
<1> HIDE DEF d
<1>3. \A i \in 1..Len(q) : k(i) \in 1..Len(q) /\ k(k(i)) = i  BY <1>1
<1>4. d \in Seq(S) /\ Len(d) = Len(q)
  <2>1. \A i \in 1..Len(q) : d[i] \in S  BY <1>1, <1>2, <1>3
  <2> QED  BY <1>1, <1>2, <2>1
<1> HIDE DEF k
<1>5. IsInjective(d)
  <2>1. ASSUME NEW i \in 1..Len(q), NEW j \in 1..Len(q), d[i] = d[j]  PROVE i = j
    <3>1. q[k(i)] = q[k(j)] /\ k(i) \in 1..Len(q) /\ k(j) \in 1..Len(q)  BY <1>2, <1>3, <2>1
    <3>2. k(i) = k(j)  BY <1>1, <3>1 DEF IsInjective
    <3> QED  BY <1>3, <3>2
  <2> QED  BY <1>2, <2>1 DEF IsInjective
<1>6. ToSet(d) = ToSet(q)
  <2>1. \A i \in 1..Len(q) : d[i] \in ToSet(q)  BY <1>1, <1>2, <1>3 DEF ToSet
  <2>2. ASSUME NEW i \in 1..Len(q)  PROVE q[i] \in ToSet(d)
    <3>1. k(i) \in 1..Len(q) /\ d[k(i)] = q[k(k(i))] /\ k(k(i)) = i  BY <1>2, <1>3
    <3> QED  BY <1>2, <3>1 DEF ToSet
  <2>3. ToSet(d) \subseteq ToSet(q)  BY <1>2, <2>1 DEF ToSet
  <2>4. ToSet(q) \subseteq ToSet(d)  BY <1>1, <2>2 DEF ToSet
  <2> QED  BY <2>3, <2>4
<1> QED  BY <1>4, <1>5, <1>6 DEF d

\* The number of the row that a run is at.
LEMMA NumberOfRow ==
    ASSUME SeedInv, At("lessons")
    PROVE  /\ Numbered \in 1..Len(Course) /\ Course[Numbered] = Row /\ Row \in ToSet(Course)
           /\ Len(Course) \in Nat /\ Len(todo) \in Nat /\ Numbered = Len(Course) - Len(todo) + 1
<1>1. running /\ Stages[stage] = "lessons" /\ todo # <<>> /\ ScriptTyped /\ Queued
  BY DEF At, SeedInv
<1>2. Len(todo) \in Nat \ {0} /\ Row = todo[1]
  BY <1>1, TakeRow DEF ScriptTyped, Row
<1>3. Len(Course) \in Nat /\ DOMAIN Course = 1..Len(Course) /\ IsInjective(Course)
  BY SeedingAssumption
<1>4. Len(todo) <= Len(Course) /\ todo = Rest  BY <1>1 DEF Queued
<1> DEFINE k == Len(Course) - Len(todo) + 1
<1>5. k \in 1..Len(Course)  BY <1>2, <1>3, <1>4
<1>6. Row = Course[k]  BY <1>2, <1>3, <1>4 DEF Rest
<1>7. \A n \in 1..Len(Course) : Course[n] = Row <=> n = k
  BY <1>3, <1>5, <1>6 DEF IsInjective
<1>8. Numbered = k  BY <1>5, <1>7 DEF Numbered
<1>9. Row \in ToSet(Course)  BY <1>3, <1>5, <1>6 DEF ToSet
<1> QED  BY <1>2, <1>3, <1>5, <1>6, <1>8, <1>9

\* A lesson.
LEMMA LessonUpserted ==
    ASSUME SeedInv, UpsertLesson
    PROVE  SeedInv'
<1>1. /\ At("lessons")
      /\ UNCHANGED <<mode, crashes, edits, rows, role, records, fonds, foreign, badges, awards>>
  BY DEF UpsertLesson, people
<1>2. /\ Numbered \in 1..Len(Course) /\ Course[Numbered] = Row /\ Row \in ToSet(Course)
      /\ Len(Course) \in Nat /\ Len(todo) \in Nat /\ Numbered = Len(Course) - Len(todo) + 1
  BY <1>1, NumberOfRow
<1>3. DatabaseTyped'  BY <1>1 DEF SeedInv, DatabaseTyped, Fits
<1>4. /\ lessons \in Seq(ToSet(Course)) /\ IsInjective(lessons) /\ Len(lessons) <= Len(Course)
      /\ mode = "between" => ToSet(lessons) = {Course[n] : n \in 1..Len(lessons)}
      /\ Len(lessons) \in Nat
  BY DEF SeedInv, Lessons
<1>5. mode \in {"between", "live", "authored"}
  BY SeedingAssumption DEF SeedInv, DatabaseTyped
<1>6. CASE Numbered > Len(lessons) /\ Row \in ToSet(lessons)
  <2>1. Throw /\ UNCHANGED lessons  BY <1>6 DEF UpsertLesson
  <2>2. Lessons'  BY <1>1, <2>1 DEF SeedInv, Lessons
  <2>3. mode # "between"
    <3>1. SUFFICES ASSUME mode = "between"  PROVE FALSE
      OBVIOUS
    <3>2. PICK n \in 1..Len(lessons) : Row = Course[n]  BY <1>4, <1>6, <3>1
    <3>3. n \in 1..Len(Course) /\ n # Numbered  BY <1>2, <1>4, <1>6
    <3>4. DOMAIN Course = 1..Len(Course) /\ IsInjective(Course)  BY SeedingAssumption
    <3> QED  BY <1>2, <3>2, <3>3, <3>4 DEF IsInjective
  <2>4. SeedsAreWhole' /\ FailsOnlyIfCut' /\ outcome' \in {"none", "done", "failed"}
    <3>1. outcome' = "failed" /\ mode' = mode /\ lessons' = lessons  BY <1>1, <2>1 DEF Throw
    <3>2. Len(lessons) < Len(Course)  BY <1>2, <1>4, <1>6
    <3> QED  BY <1>5, <2>3, <3>1, <3>2 DEF SeedsAreWhole, FailsOnlyIfCut
  <2> QED  BY <1>3, <2>1, <2>2, <2>4, Stopped DEF Throw
<1>7. CASE ~(Numbered > Len(lessons) /\ Row \in ToSet(lessons))
  <2>1. /\ lessons' = IF Numbered > Len(lessons) THEN Append(lessons, Row) ELSE lessons
        /\ Onward
    BY <1>7 DEF UpsertLesson
  <2>2. outcome' = outcome  BY <2>1 DEF Onward
  <2>3. /\ ScriptTyped' /\ Queued' /\ SeedsAreWhole' /\ FailsOnlyIfCut' /\ Kept("lessons")
        /\ (Undisturbed' <=> Undisturbed) /\ Len(todo') = Len(todo) - 1
        /\ running /\ Stages[stage] = "lessons"
        /\ \A s : (Past(s)' <=> Past(s)) /\ (Doing(s)' <=> Doing(s))
    BY <1>1, <2>1, <2>2, RowStep
  <2>4. Undisturbed => Len(lessons) + Len(todo) >= Len(Course)
    BY <2>3 DEF SeedInv, SoFar, LessonsSoFar, Doing
  <2>5. /\ lessons' \in Seq(ToSet(Course)) /\ IsInjective(lessons') /\ Len(lessons') <= Len(Course)
        /\ Undisturbed => Len(lessons') + Len(todo') >= Len(Course)
        /\ mode = "between" => ToSet(lessons') = {Course[n] : n \in 1..Len(lessons')}
    <3>1. CASE Numbered > Len(lessons)
      <4>1. lessons' = Append(lessons, Row) /\ Row \notin ToSet(lessons)  BY <1>7, <2>1, <3>1
      <4>2. /\ lessons' \in Seq(ToSet(Course)) /\ IsInjective(lessons')
            /\ Len(lessons') = Len(lessons) + 1 /\ ToSet(lessons') = ToSet(lessons) \cup {Row}
        BY <1>2, <1>4, <4>1, LessonAppended
      <4>3. Len(lessons') <= Len(Course)  BY <1>2, <1>4, <3>1, <4>2
      <4>4. Undisturbed => Len(lessons') + Len(todo') >= Len(Course)
        BY <1>2, <1>4, <2>3, <2>4, <4>2
      <4>5. ASSUME mode = "between"
            PROVE  ToSet(lessons') = {Course[n] : n \in 1..Len(lessons')}
        <5>1. Undisturbed  BY <2>3, <4>5 DEF Undisturbed
        <5>2. Numbered = Len(lessons) + 1  BY <1>2, <1>4, <2>4, <3>1, <5>1
        <5>3. 1..Len(lessons') = (1..Len(lessons)) \cup {Numbered}  BY <1>4, <4>2, <5>2
        <5>4. ToSet(lessons) = {Course[n] : n \in 1..Len(lessons)}  BY <1>4, <4>5
        <5> QED  BY <1>2, <4>2, <5>3, <5>4
      <4> QED  BY <4>2, <4>3, <4>4, <4>5
    <3>2. CASE ~(Numbered > Len(lessons))
      <4>1. lessons' = lessons  BY <2>1, <3>2
      <4>2. Len(lessons') + Len(todo') >= Len(Course)  BY <1>2, <1>4, <2>3, <3>2, <4>1
      <4> QED  BY <1>4, <4>1, <4>2
    <3> QED  BY <3>1, <3>2
  <2>6. Lessons'  BY <1>1, <2>5 DEF Lessons
  <2>7. LessonsSoFar'
    <3>1. ~Past("lessons")  BY <2>3, EarlierStages DEF SeedInv, ScriptTyped
    <3> QED  BY <2>3, <2>5, <3>1 DEF LessonsSoFar
  <2>8. There' = There /\ "lessons" \notin Tables  BY <1>1 DEF There, Tables
  <2>9. SoFar' /\ Clean'  BY <1>1, <2>3, <2>7, <2>8 DEF Kept, SoFar
  <2> QED  BY <1>3, <2>3, <2>6, <2>9 DEF SeedInv
<1> QED  BY <1>6, <1>7

-----------------------------------------------------------------------------
(* The stages of records. *)

\* A statement throws, which it does only while users write.
LEMMA Thrown ==
    ASSUME SeedInv, Throw, mode = "live",
           UNCHANGED <<people, rows, role, records, fonds, courses>>
    PROVE  SeedInv'
<1>1. UNCHANGED <<mode, crashes, edits, rows, role, records, fonds, foreign, lessons, badges, awards>>
  BY DEF people, courses
<1>2. DatabaseTyped' /\ Lessons'  BY <1>1 DEF SeedInv, DatabaseTyped, Lessons, Fits
<1>3. Stop /\ outcome' = "failed"  BY DEF Throw
<1>4. SeedsAreWhole' /\ FailsOnlyIfCut'  BY <1>1, <1>3 DEF SeedsAreWhole, FailsOnlyIfCut
<1> QED  BY <1>2, <1>3, <1>4, Stopped

\* The record of the row is written.
LEMMA RecordWritten ==
    ASSUME DatabaseTyped, NEW r \in Records, NEW new, Fits(new),
           records' = [records EXCEPT ![r] = new],
           UNCHANGED <<people, rows, role, fonds, courses>>
    PROVE  /\ DatabaseTyped' /\ records'[r] = new
           /\ \A x \in Records : x # r => records'[x] = records[x]
           /\ UNCHANGED <<mode, rows, role, fonds, lessons, badges>>
           /\ records[r].there = new.there => There' = There
<1>1. UNCHANGED <<mode, crashes, edits, rows, role, fonds, foreign, lessons, badges, awards>>
  BY DEF people, courses
<1>2. records \in [Records -> RecordType] /\ \A x \in Records : Fits(records[x])
  BY DEF DatabaseTyped
<1>3. records'[r] = new /\ \A x \in Records : x # r => records'[x] = records[x]
  BY <1>2
<1>4. records' \in [Records -> RecordType]
  <2>1. new \in RecordType  BY DEF Fits
  <2> QED  BY <1>2, <2>1
<1>5. \A x \in Records : Fits(records'[x])  BY <1>2, <1>3
<1>6. DatabaseTyped'  BY <1>1, <1>4, <1>5 DEF DatabaseTyped
<1>7. records[r].there = new.there => There' = There  BY <1>3 DEF There
<1> QED  BY <1>1, <1>3, <1>6, <1>7

\* The fields of a record that fits.
LEMMA FittingFields ==
    ASSUME DatabaseTyped, NEW r \in Records
    PROVE  /\ records[r] \in RecordType /\ Fits(records[r])
           /\ records[r].there \in BOOLEAN /\ records[r].topic \in BOOLEAN
           /\ records[r].institution \in Institutions \cup {None}
           /\ records[r].unit \in Institutions \cup {None, "series"}
           /\ records[r].unit \in {None, "series", records[r].institution}
           /\ records[r].level \in Levels /\ records[r].policy \in Levels \cup {None}
           /\ records[r].events \in 0..1 /\ records[r].subjects \in 0..1
           /\ records[r].files \in 0..1
  BY DEF DatabaseTyped, Fits, RecordType

\* A seeded record.
LEMMA RecordSeeded ==
    ASSUME DatabaseTyped, NEW r \in Seeded
    PROVE  /\ Fits(Seed(r)) /\ Seed(r).there = TRUE /\ Seed(r).files = records[r].files
           /\ Seed(r).institution = records[r].institution /\ Seed(r).unit = records[r].unit
           /\ Seed(r).subjects = records[r].subjects
<1>1. r \in Records  BY DEF Records
<1>2. records[r] \in RecordType /\ Fits(records[r])  BY <1>1, FittingFields
<1> QED  BY <1>2 DEF Seed, Fits, RecordType, Levels

\* The stages of records: a seeded record is found or created.
LEMMA SeedRecordKeeps ==
    ASSUME SeedInv, SeedRecord
    PROVE  SeedInv'
<1>1. /\ At("records") /\ Onward /\ records' = [records EXCEPT ![Row] = Seed(Row)]
      /\ UNCHANGED <<people, rows, role, fonds, courses>>
  BY DEF SeedRecord
<1>2. outcome' = outcome /\ mode' = mode  BY <1>1 DEF Onward, people
<1>3. /\ ScriptTyped' /\ Queued' /\ SeedsAreWhole' /\ FailsOnlyIfCut' /\ Kept("records")
      /\ (Undisturbed' <=> Undisturbed) /\ Row \in Pool("records")
      /\ running /\ Stages[stage] = "records" /\ stage' = stage
      /\ \A s, x : Settled(s, x)' => Settled(s, x) \/ (s = "records" /\ x = Row)
  BY <1>1, <1>2, RowStep
<1>4. Row \in Seeded \ {Media} /\ Row \in Records
  <2>1. Pool("records") = Seeded \ {Media}  BY DEF Pool, Tables
  <2> QED  BY <1>3, <2>1 DEF Records
<1>5. DatabaseTyped /\ SeedsSoFar  BY DEF SeedInv, SoFar
<1>6. Fits(Seed(Row)) /\ Seed(Row).there = TRUE /\ Seed(Row).files = records[Row].files
  BY <1>4, <1>5, RecordSeeded
<1>7. /\ DatabaseTyped' /\ records'[Row] = Seed(Row)
      /\ \A x \in Records : x # Row => records'[x] = records[x]
      /\ UNCHANGED <<mode, rows, role, fonds, lessons, badges>>
  BY <1>1, <1>4, <1>5, <1>6, RecordWritten
<1>8. \A r \in Seeded : records[r].there => records'[r].there
  BY <1>6, <1>7 DEF Records
<1>9. SeedsSoFar'
  <2>1. \A r \in Seeded \ {Media} : Undisturbed /\ Settled("records", r)' => records'[r].there
    BY <1>3, <1>5, <1>6, <1>7, <1>8 DEF SeedsSoFar
  <2>2. Undisturbed /\ Settled("media", Media)' => records'[Media].there
    BY <1>3, <1>5, <1>8, SeedingAssumption DEF SeedsSoFar
  <2> QED  BY <1>3, <2>1, <2>2 DEF SeedsSoFar, Doing
<1>10. \A r \in Records : records'[r].files = records[r].files  BY <1>6, <1>7
<1>11. "records" \notin Tables  BY DEF Tables
<1>12. SoFar' /\ Clean' /\ Lessons'
  BY <1>3, <1>7, <1>9, <1>10, <1>11 DEF Kept, SoFar
<1> QED  BY <1>3, <1>7, <1>12 DEF SeedInv

\* One file more, where there was none.
LEMMA FileAdded ==
    ASSUME DatabaseTyped, NEW r \in Records, records[r].files = 0
    PROVE  LET new == [records[r] EXCEPT !.files = @ + 1]
           IN  /\ Fits(new) /\ new.files = 1 /\ new.there = records[r].there
               /\ new.institution = records[r].institution /\ new.unit = records[r].unit
               /\ new.subjects = records[r].subjects /\ new.level = records[r].level
               /\ [records EXCEPT ![r].files = @ + 1] = [records EXCEPT ![r] = new]
<1>1. records[r] \in RecordType /\ Fits(records[r])  BY FittingFields
<1> QED  BY <1>1 DEF Fits, RecordType

\* A file of a record that has none.
LEMMA DemoFileKeeps ==
    ASSUME SeedInv, DemoFile
    PROVE  SeedInv'
<1>1. At("demo") /\ CreateFile /\ UNCHANGED <<people, rows, role, fonds, courses>>
  BY DEF DemoFile
<1>2. running /\ Stages[stage] = "demo" /\ todo # <<>> /\ mode' = mode  BY <1>1 DEF At, people
<1>3. DatabaseTyped /\ ScriptTyped /\ Queued /\ SeedsSoFar /\ FilesSoFar /\ Clean
  BY DEF SeedInv, SoFar
<1>4. Row \in ToSet(todo)  BY <1>2, <1>3, TakeRow DEF ScriptTyped, Row
<1>5. Row \in Seeded \ {Media} /\ Row \in Records
  <2>1. Pool("demo") = Seeded \ {Media}  BY DEF Pool, Tables
  <2> QED  BY <1>2, <1>3, <1>4, <2>1 DEF Queued, Records
<1>6. CASE ~records[Row].there
  <2>1. Throw /\ UNCHANGED records  BY <1>1, <1>6 DEF CreateFile
  <2>2. mode = "live"  BY <1>2, <1>3, <1>4, <1>6 DEF SeedsSoFar, Undisturbed, There
  <2> QED  BY <1>1, <2>1, <2>2, Thrown
<1>7. CASE records[Row].there
  <2>1. records' = [records EXCEPT ![Row].files = @ + 1] /\ Onward  BY <1>1, <1>7 DEF CreateFile
  <2>2. outcome' = outcome  BY <2>1 DEF Onward
  <2>3. /\ ScriptTyped' /\ Queued' /\ SeedsAreWhole' /\ FailsOnlyIfCut' /\ Kept("demo")
        /\ (Undisturbed' <=> Undisturbed)
        /\ ToSet(todo) = {Row} \cup ToSet(todo') /\ Row \notin ToSet(todo')
        /\ \A s, x : Settled(s, x)' => Settled(s, x) \/ (s = "demo" /\ x = Row)
    BY <1>1, <1>2, <2>1, <2>2, RowStep DEF OnceEach
  <2>4. \A r \in ToSet(todo) : records[r].files = 0  BY <1>2, <1>3 DEF Clean, Doing
  <2> DEFINE new == [records[Row] EXCEPT !.files = @ + 1]
  <2>5. /\ Fits(new) /\ new.files = 1 /\ new.there = records[Row].there
        /\ records' = [records EXCEPT ![Row] = new]
    BY <1>3, <1>4, <1>5, <2>1, <2>4, FileAdded
  <2> HIDE DEF new
  <2>6. /\ DatabaseTyped' /\ records'[Row] = new
        /\ \A x \in Records : x # Row => records'[x] = records[x]
        /\ UNCHANGED <<mode, rows, role, fonds, lessons, badges>> /\ There' = There
    BY <1>1, <1>3, <1>5, <2>5, RecordWritten
  <2>7. FilesSoFar'
    <3>1. \A r \in Seeded \ {Media} : Undisturbed /\ Settled("demo", r)' => records'[r].files = 1
      BY <1>3, <2>3, <2>5, <2>6 DEF FilesSoFar, Records
    <3>2. Media \in Records /\ Media # Row  BY <1>5, SeedingAssumption DEF Records
    <3>3. Undisturbed /\ Settled("media", Media)' => records'[Media].files = 1
      BY <1>3, <2>3, <2>6, <3>2 DEF FilesSoFar
    <3> QED  BY <2>3, <3>1, <3>3 DEF FilesSoFar
  <2>8. \A r \in ToSet(todo') : records'[r].files = 0
    <3>1. ToSet(todo') \subseteq Records
      <4>1. Pool("demo") = Seeded \ {Media}  BY DEF Pool, Tables
      <4> QED  BY <1>2, <1>3, <2>3, <4>1 DEF Queued, Records
    <3> QED  BY <2>3, <2>4, <2>6, <3>1
  <2>9. "demo" \notin Tables  BY DEF Tables
  <2>10. SoFar' /\ Clean' /\ Lessons'
    BY <2>3, <2>6, <2>7, <2>8, <2>9 DEF Kept, SoFar
  <2> QED  BY <2>3, <2>6, <2>10 DEF SeedInv
<1> QED  BY <1>6, <1>7

\* The record with genuine media, and then its file.
LEMMA RealMediaKeeps ==
    ASSUME SeedInv, RealMedia
    PROVE  SeedInv'
<1>1. At("media") /\ UNCHANGED <<people, rows, role, fonds, courses>>  BY DEF RealMedia
<1>2. running /\ Stages[stage] = "media" /\ todo # <<>> /\ mode' = mode  BY <1>1 DEF At, people
<1>3. DatabaseTyped /\ ScriptTyped /\ Queued /\ SeedsSoFar /\ FilesSoFar /\ Clean
  BY DEF SeedInv, SoFar
<1>4. Row \in ToSet(todo)  BY <1>2, <1>3, TakeRow DEF ScriptTyped, Row
<1>5. Row = Media /\ Media \in Seeded /\ Media \in Records /\ ToSet(todo) \subseteq {Media}
  <2>1. Pool("media") = {Media}  BY DEF Pool, Tables
  <2> QED  BY <1>2, <1>3, <1>4, <2>1, SeedingAssumption DEF Queued, Records
<1>6. records[Media].files = 0  BY <1>2, <1>3, <1>4, <1>5 DEF Clean, Doing
<1>7. "media" \notin Tables  BY DEF Tables
<1>8. CASE half = 0 /\ records' = [records EXCEPT ![Row] = Seed(Row)] /\ half' = 1
           /\ UNCHANGED <<running, stage, todo, snapshot, outcome>>
  <2>1. Fits(Seed(Media)) /\ Seed(Media).there = TRUE /\ Seed(Media).files = records[Media].files
    BY <1>3, <1>5, RecordSeeded
  <2>2. /\ DatabaseTyped' /\ records'[Media] = Seed(Media)
        /\ \A x \in Records : x # Media => records'[x] = records[x]
        /\ UNCHANGED <<mode, rows, role, fonds, lessons, badges>>
    BY <1>1, <1>3, <1>5, <1>8, <2>1, RecordWritten
  <2>3. /\ ScriptTyped' /\ Queued'
        /\ \A s, x : Settled(s, x)' <=> Settled(s, x)
        /\ \A s : (Past(s)' <=> Past(s)) /\ (Doing(s)' <=> Doing(s))
    BY <1>3, <1>8, HalfDone
  <2>4. Kept("media")
    <3>1. Len(todo) \in Nat /\ half' \in 0..2  BY <1>3, <1>8 DEF ScriptTyped
    <3>2. \A s, x : Settled(s, x)' => Settled(s, x) \/ s = "media"  BY <2>3
    <3> QED  BY <1>2, <1>8, <2>3, <3>1, <3>2, OthersKept
  <2>5. Undisturbed' <=> Undisturbed  BY <1>2, <1>8 DEF Undisturbed
  <2>6. \A r \in Records : records'[r].files = records[r].files  BY <2>1, <2>2
  <2>7. SeedsSoFar'
    <3>1. \A r \in Seeded : records[r].there => records'[r].there  BY <2>1, <2>2 DEF Records
    <3>2. \A r \in Seeded \ {Media} : Undisturbed /\ Settled("records", r)' => records'[r].there
      BY <1>3, <2>3, <3>1 DEF SeedsSoFar
    <3>3. records'[Media].there  BY <2>1, <2>2
    <3> QED  BY <1>2, <1>8, <2>5, <3>2, <3>3 DEF SeedsSoFar
  <2>8. FilesSoFar'
    <3>1. \A r \in Seeded : records'[r].files = records[r].files  BY <2>6 DEF Records
    <3> QED  BY <1>3, <1>5, <2>3, <2>5, <3>1 DEF FilesSoFar
  <2>9. \A r \in ToSet(todo') : records'[r].files = 0  BY <1>5, <1>6, <1>8, <2>6
  <2>10. SoFar' /\ Clean' /\ Lessons'
    BY <1>7, <2>2, <2>4, <2>7, <2>8, <2>9 DEF Kept, SoFar
  <2>11. outcome' = "none"  BY <1>2, <1>3, <1>8 DEF ScriptTyped
  <2>12. SeedsAreWhole' /\ FailsOnlyIfCut'  BY <2>11 DEF SeedsAreWhole, FailsOnlyIfCut
  <2> QED  BY <2>2, <2>3, <2>10, <2>12 DEF SeedInv
<1>9. CASE half = 1 /\ CreateFile
  <2>1. CASE ~records[Row].there
    <3>1. Throw /\ UNCHANGED records  BY <1>9, <2>1 DEF CreateFile
    <3>2. mode = "live"  BY <1>2, <1>3, <1>5, <1>9, <2>1 DEF SeedsSoFar, Undisturbed, Doing
    <3> QED  BY <1>1, <3>1, <3>2, Thrown
  <2>2. CASE records[Row].there
    <3>1. records' = [records EXCEPT ![Row].files = @ + 1] /\ Onward  BY <1>9, <2>2 DEF CreateFile
    <3>2. outcome' = outcome  BY <3>1 DEF Onward
    <3>3. /\ ScriptTyped' /\ Queued' /\ SeedsAreWhole' /\ FailsOnlyIfCut' /\ Kept("media")
          /\ (Undisturbed' <=> Undisturbed)
          /\ ToSet(todo) = {Row} \cup ToSet(todo') /\ Row \notin ToSet(todo')
          /\ stage' = stage /\ half' = 0
          /\ \A s, x : Settled(s, x)' => Settled(s, x) \/ (s = "media" /\ x = Row)
      BY <1>1, <1>2, <3>1, <3>2, RowStep DEF OnceEach
    <3> DEFINE new == [records[Media] EXCEPT !.files = @ + 1]
    <3>4. /\ Fits(new) /\ new.files = 1 /\ new.there = records[Media].there
          /\ records' = [records EXCEPT ![Media] = new]
      BY <1>3, <1>5, <1>6, <3>1, FileAdded
    <3> HIDE DEF new
    <3>5. /\ DatabaseTyped' /\ records'[Media] = new
          /\ \A x \in Records : x # Media => records'[x] = records[x]
          /\ UNCHANGED <<mode, rows, role, fonds, lessons, badges>> /\ There' = There
      BY <1>1, <1>3, <1>5, <3>4, RecordWritten
    <3>6. SeedsSoFar'
      <4>1. \A r \in Seeded : records'[r].there <=> records[r].there  BY <3>4, <3>5 DEF Records
      <4>2. \A r \in Seeded \ {Media} : Undisturbed /\ Settled("records", r)' => records'[r].there
        BY <1>3, <3>3, <4>1 DEF SeedsSoFar
      <4>3. records'[Media].there  BY <1>5, <2>2, <4>1
      <4> QED  BY <1>2, <3>3, <4>2, <4>3 DEF SeedsSoFar
    <3>7. FilesSoFar'
      <4>1. \A r \in Seeded \ {Media} : records'[r].files = records[r].files
        BY <3>5 DEF Records
      <4>2. \A r \in Seeded \ {Media} : Undisturbed /\ Settled("demo", r)' => records'[r].files = 1
        BY <1>3, <1>5, <3>3, <4>1 DEF FilesSoFar
      <4> QED  BY <3>3, <3>4, <3>5, <4>2 DEF FilesSoFar
    <3>8. ToSet(todo') = {}  BY <1>5, <3>3
    <3>9. SoFar' /\ Clean' /\ Lessons'
      BY <1>7, <3>3, <3>5, <3>6, <3>7, <3>8 DEF Kept, SoFar
    <3> QED  BY <3>3, <3>5, <3>9 DEF SeedInv
  <2> QED  BY <2>1, <2>2
<1> QED  BY <1>8, <1>9 DEF RealMedia

\* The three statements that place a record.
LEMMA PlacedFits ==
    ASSUME DatabaseTyped, ScriptTyped, NEW r \in Records
    PROVE  /\ Fits(Placed(r)) /\ InPlace(Placed(r), snapshot[r].level)
           /\ Placed(r).there = records[r].there /\ Placed(r).files = records[r].files
           /\ Placed(r).subjects = records[r].subjects
<1>1. records[r] \in RecordType  BY FittingFields
<1>2. snapshot[r] \in RecordType /\ Fits(snapshot[r])  BY DEF ScriptTyped
<1>3. /\ snapshot[r].institution \in Institutions \cup {None}
      /\ snapshot[r].unit \in {None, "series", snapshot[r].institution}
      /\ snapshot[r].level \in Levels
  BY <1>2 DEF Fits, RecordType
<1> DEFINE home == IF snapshot[r].institution # None THEN snapshot[r].institution
                   ELSE IF r \in Seeded THEN NamedBy[r] ELSE Pilot
           unit == IF snapshot[r].unit # None THEN snapshot[r].unit ELSE home
           level == IF snapshot[r].level = "private" THEN "sensitive" ELSE snapshot[r].level
<1>4. home \in Institutions /\ home # None  BY <1>3, SeedingAssumption
<1>5. unit \in {"series", home}  BY <1>3
<1>6. level \in Levels /\ level = Opened(snapshot[r].level)  BY <1>3 DEF Levels, Opened
<1>7. Placed(r) = [records[r] EXCEPT !.institution = home, !.unit = unit, !.level = level]
  BY DEF Placed
<1> HIDE DEF home, unit, level
<1>8. /\ Placed(r).institution = home /\ Placed(r).unit = unit /\ Placed(r).level = level
      /\ Placed(r).there = records[r].there /\ Placed(r).files = records[r].files
      /\ Placed(r).subjects = records[r].subjects
  BY <1>1, <1>7 DEF RecordType
<1>9. Placed(r) \in RecordType
  <2>1. home \in Institutions \cup {None} /\ unit \in Institutions \cup {None, "series"}
    BY <1>4, <1>5
  <2>2. ASSUME NEW rec \in RecordType
        PROVE  /\ [rec EXCEPT !.institution = home] \in RecordType
               /\ [rec EXCEPT !.unit = unit] \in RecordType
               /\ [rec EXCEPT !.level = level] \in RecordType
    BY <1>6, <2>1 DEF RecordType
  <2> DEFINE first == [records[r] EXCEPT !.institution = home]
             second == [first EXCEPT !.unit = unit]
             third == [second EXCEPT !.level = level]
  <2>3. Placed(r) = third  BY <1>7
  <2>4. first \in RecordType  BY <1>1, <2>2
  <2> HIDE DEF first
  <2>5. second \in RecordType  BY <2>2, <2>4
  <2> HIDE DEF second
  <2>6. third \in RecordType  BY <2>2, <2>5
  <2> HIDE DEF third
  <2> QED  BY <2>3, <2>6
<1> QED  BY <1>4, <1>5, <1>6, <1>8, <1>9 DEF Fits, InPlace

\* The policy that the stage writes, from the level it has read.
LEMMA PolicyFits ==
    ASSUME DatabaseTyped, ScriptTyped, NEW r \in Records
    PROVE  /\ Fits(PolicyOf(r)) /\ PolicyOf(r).policy = Opened(snapshot[r].level)
           /\ PolicyOf(r).there = records[r].there /\ PolicyOf(r).files = records[r].files
           /\ PolicyOf(r).institution = records[r].institution
           /\ PolicyOf(r).unit = records[r].unit /\ PolicyOf(r).level = records[r].level
           /\ PolicyOf(r).subjects = records[r].subjects
<1>1. records[r] \in RecordType /\ Fits(records[r])  BY FittingFields
<1>2. snapshot[r].level \in Levels  BY DEF ScriptTyped, RecordType
<1>3. Opened(snapshot[r].level) \in Levels  BY <1>2 DEF Opened, Levels
<1>4. PolicyOf(r) = [records[r] EXCEPT !.policy = Opened(snapshot[r].level)]
  BY DEF PolicyOf, Opened
<1> QED  BY <1>1, <1>3, <1>4 DEF Fits, RecordType

\* The event or the subject that a record is given if it has none.
LEMMA OneGiven ==
    ASSUME DatabaseTyped, NEW r \in Records
    PROVE  /\ LET new == [records[r] EXCEPT !.events = IF @ = 0 THEN 1 ELSE @]
              IN  /\ Fits(new) /\ new.events = 1 /\ new.there = records[r].there
                  /\ new.files = records[r].files /\ new.institution = records[r].institution
                  /\ new.unit = records[r].unit /\ new.level = records[r].level
                  /\ new.policy = records[r].policy /\ new.subjects = records[r].subjects
                  /\ [records EXCEPT ![r].events = IF @ = 0 THEN 1 ELSE @]
                        = [records EXCEPT ![r] = new]
           /\ LET new == [records[r] EXCEPT !.subjects = IF @ = 0 THEN 1 ELSE @]
              IN  /\ Fits(new) /\ new.subjects = 1 /\ new.there = records[r].there
                  /\ new.files = records[r].files /\ new.institution = records[r].institution
                  /\ new.unit = records[r].unit /\ new.level = records[r].level
                  /\ new.policy = records[r].policy /\ new.events = records[r].events
                  /\ [records EXCEPT ![r].subjects = IF @ = 0 THEN 1 ELSE @]
                        = [records EXCEPT ![r] = new]
<1>1. records[r] \in RecordType /\ Fits(records[r])  BY FittingFields
<1>2. records[r].events \in 0..1 /\ records[r].subjects \in 0..1  BY FittingFields
<1> QED  BY <1>1, <1>2 DEF Fits, RecordType

\* The three statements for a record that is placed.
LEMMA PlaceRecordKeeps ==
    ASSUME SeedInv, PlaceRecord
    PROVE  SeedInv'
<1>1. At("placing") /\ UNCHANGED <<people, rows, role, fonds, courses>>  BY DEF PlaceRecord
<1>2. running /\ Stages[stage] = "placing" /\ todo # <<>> /\ mode' = mode  BY <1>1 DEF At, people
<1>3. DatabaseTyped /\ ScriptTyped /\ Queued /\ SeedsSoFar /\ PlacesSoFar /\ stage \in 1..19
  BY DEF SeedInv, SoFar, ScriptTyped
<1>4. Row \in ToSet(todo)  BY <1>2, <1>3, TakeRow DEF ScriptTyped, Row
<1>5. Row \in Records /\ ToSet(todo) \subseteq Records
  <2>1. Pool("placing") = Records  BY DEF Pool, Tables
  <2> QED  BY <1>2, <1>3, <1>4, <2>1 DEF Queued
<1>6. ~Past("placing")  BY <1>2, <1>3, EarlierStages
<1>7. "placing" \notin Tables  BY DEF Tables
<1>8. CASE ~records[Row].there
  <2>1. Throw /\ UNCHANGED records  BY <1>8 DEF PlaceRecord
  <2>2. mode = "live"  BY <1>2, <1>3, <1>4, <1>8 DEF SeedsSoFar, Undisturbed, There
  <2> QED  BY <1>1, <2>1, <2>2, Thrown
<1>9. CASE /\ half < 2 /\ half' = half + 1 /\ UNCHANGED <<running, stage, todo, snapshot, outcome>>
           /\ records' = [records EXCEPT ![Row] = IF half = 0 THEN Placed(Row) ELSE PolicyOf(Row)]
  <2> DEFINE new == IF half = 0 THEN Placed(Row) ELSE PolicyOf(Row)
  <2>1. /\ Fits(new) /\ new.there = records[Row].there /\ new.files = records[Row].files
        /\ half = 0 => InPlace(new, snapshot[Row].level)
        /\ half # 0 => /\ new.policy = Opened(snapshot[Row].level)
                       /\ new.institution = records[Row].institution
                       /\ new.unit = records[Row].unit /\ new.level = records[Row].level
    BY <1>3, <1>5, PlacedFits, PolicyFits
  <2>2. records' = [records EXCEPT ![Row] = new]  BY <1>9
  <2> HIDE DEF new
  <2>3. /\ DatabaseTyped' /\ records'[Row] = new
        /\ \A x \in Records : x # Row => records'[x] = records[x]
        /\ UNCHANGED <<mode, rows, role, fonds, lessons, badges>> /\ There' = There
    BY <1>1, <1>3, <1>5, <2>1, <2>2, RecordWritten
  <2>4. half \in 0..2 /\ half' \in 1..2 /\ half' \in 0..2 /\ Len(todo) \in Nat
    BY <1>3, <1>9 DEF ScriptTyped
  <2>5. /\ ScriptTyped' /\ Queued'
        /\ \A s, x : Settled(s, x)' <=> Settled(s, x)
        /\ \A s : (Past(s)' <=> Past(s)) /\ (Doing(s)' <=> Doing(s))
    BY <1>3, <1>9, <2>4, HalfDone
  <2>6. Kept("placing")
    <3>1. \A s, x : Settled(s, x)' => Settled(s, x) \/ s = "placing"  BY <2>5
    <3> QED  BY <1>2, <1>9, <2>4, <2>5, <3>1, OthersKept
  <2>7. Undisturbed' <=> Undisturbed  BY <1>2, <1>9 DEF Undisturbed
  <2>8. \A r \in Records : records'[r].files = records[r].files  BY <2>1, <2>3
  <2>9. PlacesSoFar'
    <3>1. ASSUME Undisturbed', NEW r \in There', Settled("placing", r)'
          PROVE  /\ InPlace(records'[r], records'[r].level)
                 /\ records'[r].policy = records'[r].level /\ records'[r].events = 1
      <4>1. Settled("placing", r) /\ r \notin ToSet(todo) /\ r \in There /\ r \in Records
        BY <1>6, <2>3, <2>5, <3>1 DEF Settled, There
      <4>2. r # Row  BY <1>4, <4>1
      <4>3. records'[r] = records[r]  BY <2>3, <4>1, <4>2
      <4>4. /\ InPlace(records[r], records[r].level)
            /\ records[r].policy = records[r].level /\ records[r].events = 1
        BY <1>3, <2>7, <3>1, <4>1 DEF PlacesSoFar
      <4> QED  BY <4>3, <4>4
    <3>2. ASSUME Undisturbed'
          PROVE  /\ InPlace(records'[Row], snapshot[Row].level)
                 /\ half' = 2 => records'[Row].policy = records'[Row].level
      <4>1. CASE half = 0
        <5>1. half' = 1 /\ InPlace(new, snapshot[Row].level)  BY <1>9, <2>1, <4>1
        <5> QED  BY <2>3, <5>1
      <4>2. CASE half # 0
        <5>1. InPlace(records[Row], snapshot[Row].level)
          BY <1>2, <1>3, <1>4, <2>7, <3>2, <4>2 DEF PlacesSoFar, Doing
        <5>2. /\ new.policy = Opened(snapshot[Row].level)
              /\ new.institution = records[Row].institution
              /\ new.unit = records[Row].unit /\ new.level = records[Row].level
          BY <2>1, <4>2
        <5>3. InPlace(new, snapshot[Row].level) /\ new.policy = new.level
          BY <5>1, <5>2 DEF InPlace
        <5> QED  BY <2>3, <5>3
      <4> QED  BY <4>1, <4>2
    <3>3. ASSUME Undisturbed', NEW r \in ToSet(todo), r # Row  PROVE records'[r] = snapshot[r]
      <4>1. records[r] = snapshot[r]  BY <1>2, <1>3, <2>7, <3>3 DEF PlacesSoFar, Doing
      <4> QED  BY <1>5, <2>3, <3>3, <4>1
    <3>4. Row' = Row /\ snapshot' = snapshot /\ todo' = todo /\ half' # 0
      BY <1>9, <2>4 DEF Row
    <3> QED  BY <3>1, <3>2, <3>3, <3>4 DEF PlacesSoFar
  <2>10. SoFar' /\ Clean' /\ Lessons'
    BY <1>7, <2>3, <2>6, <2>8, <2>9 DEF Kept, SoFar
  <2>11. outcome' = "none"  BY <1>2, <1>3, <1>9 DEF ScriptTyped
  <2>12. SeedsAreWhole' /\ FailsOnlyIfCut'  BY <2>11 DEF SeedsAreWhole, FailsOnlyIfCut
  <2> QED  BY <2>3, <2>5, <2>10, <2>12 DEF SeedInv
<1>10. CASE /\ half = 2 /\ Onward
            /\ records' = [records EXCEPT ![Row].events = IF @ = 0 THEN 1 ELSE @]
  <2>1. outcome' = outcome  BY <1>10 DEF Onward
  <2>2. /\ ScriptTyped' /\ Queued' /\ SeedsAreWhole' /\ FailsOnlyIfCut' /\ Kept("placing")
        /\ (Undisturbed' <=> Undisturbed)
        /\ ToSet(todo) = {Row} \cup ToSet(todo') /\ Row \notin ToSet(todo')
        /\ stage' = stage /\ half' = 0 /\ snapshot' = snapshot
        /\ \A s, x : Settled(s, x)' => Settled(s, x) \/ (s = "placing" /\ x = Row)
    BY <1>1, <1>2, <1>10, <2>1, RowStep DEF OnceEach
  <2> DEFINE new == [records[Row] EXCEPT !.events = IF @ = 0 THEN 1 ELSE @]
  <2>3. /\ Fits(new) /\ new.events = 1 /\ new.there = records[Row].there
        /\ new.files = records[Row].files /\ new.institution = records[Row].institution
        /\ new.unit = records[Row].unit /\ new.level = records[Row].level
        /\ new.policy = records[Row].policy
        /\ records' = [records EXCEPT ![Row] = new]
    BY <1>3, <1>5, <1>10, OneGiven
  <2> HIDE DEF new
  <2>4. /\ DatabaseTyped' /\ records'[Row] = new
        /\ \A x \in Records : x # Row => records'[x] = records[x]
        /\ UNCHANGED <<mode, rows, role, fonds, lessons, badges>> /\ There' = There
    BY <1>1, <1>3, <1>5, <2>3, RecordWritten
  <2>5. \A r \in Records : records'[r].files = records[r].files  BY <2>3, <2>4
  <2>6. PlacesSoFar'
    <3>1. ASSUME Undisturbed', NEW r \in There', Settled("placing", r)'
          PROVE  /\ InPlace(records'[r], records'[r].level)
                 /\ records'[r].policy = records'[r].level /\ records'[r].events = 1
      <4>1. CASE r = Row
        <5>1. InPlace(records[Row], snapshot[Row].level) /\ records[Row].policy = records[Row].level
          BY <1>2, <1>3, <1>4, <1>10, <2>2, <3>1 DEF PlacesSoFar, Doing
        <5>2. InPlace(new, new.level) /\ new.policy = new.level
          BY <2>3, <5>1 DEF InPlace, Opened
        <5> QED  BY <2>3, <2>4, <4>1, <5>2
      <4>2. CASE r # Row
        <5>1. Settled("placing", r) /\ r \in There /\ r \in Records
          BY <2>2, <2>4, <3>1, <4>2 DEF There
        <5>2. records'[r] = records[r]  BY <2>4, <4>2, <5>1
        <5>3. /\ InPlace(records[r], records[r].level)
              /\ records[r].policy = records[r].level /\ records[r].events = 1
          BY <1>3, <2>2, <3>1, <5>1 DEF PlacesSoFar
        <5> QED  BY <5>2, <5>3
      <4> QED  BY <4>1, <4>2
    <3>2. ASSUME Undisturbed', NEW r \in ToSet(todo')  PROVE records'[r] = snapshot'[r]
      <4>1. r \in ToSet(todo) /\ r # Row  BY <2>2, <3>2
      <4>2. records[r] = snapshot[r]  BY <1>2, <1>3, <2>2, <3>2, <4>1 DEF PlacesSoFar, Doing
      <4> QED  BY <1>5, <2>2, <2>4, <4>1, <4>2
    <3> QED  BY <2>2, <3>1, <3>2 DEF PlacesSoFar
  <2>7. SoFar' /\ Clean' /\ Lessons'
    BY <1>7, <2>2, <2>4, <2>5, <2>6 DEF Kept, SoFar
  <2> QED  BY <2>2, <2>4, <2>7 DEF SeedInv
<1> QED  BY <1>8, <1>9, <1>10 DEF PlaceRecord

\* A subject for a record that names one.
LEMMA AddSubjectKeeps ==
    ASSUME SeedInv, AddSubject
    PROVE  SeedInv'
<1>1. At("subjects") /\ UNCHANGED <<people, rows, role, fonds, courses>>  BY DEF AddSubject
<1>2. running /\ Stages[stage] = "subjects" /\ todo # <<>> /\ mode' = mode
  BY <1>1 DEF At, people
<1>3. DatabaseTyped /\ ScriptTyped /\ Queued /\ SeedsSoFar /\ SubjectsSoFar
  BY DEF SeedInv, SoFar
<1>4. Row \in ToSet(todo)  BY <1>2, <1>3, TakeRow DEF ScriptTyped, Row
<1>5. Row \in Records
  <2>1. Pool("subjects") = Records  BY DEF Pool, Tables
  <2> QED  BY <1>2, <1>3, <1>4, <2>1 DEF Queued
<1>6. CASE ~records[Row].there
  <2>1. Throw /\ UNCHANGED records  BY <1>6 DEF AddSubject
  <2>2. mode = "live"  BY <1>2, <1>3, <1>4, <1>6 DEF SeedsSoFar, Undisturbed, There
  <2> QED  BY <1>1, <2>1, <2>2, Thrown
<1>7. CASE records[Row].there
  <2>1. records' = [records EXCEPT ![Row].subjects = IF @ = 0 THEN 1 ELSE @] /\ Onward
    BY <1>7 DEF AddSubject
  <2>2. outcome' = outcome  BY <2>1 DEF Onward
  <2>3. /\ ScriptTyped' /\ Queued' /\ SeedsAreWhole' /\ FailsOnlyIfCut' /\ Kept("subjects")
        /\ (Undisturbed' <=> Undisturbed)
        /\ \A s, x : Settled(s, x)' => Settled(s, x) \/ (s = "subjects" /\ x = Row)
    BY <1>1, <1>2, <2>1, <2>2, RowStep
  <2> DEFINE new == [records[Row] EXCEPT !.subjects = IF @ = 0 THEN 1 ELSE @]
  <2>4. /\ Fits(new) /\ new.subjects = 1 /\ new.there = records[Row].there
        /\ new.files = records[Row].files /\ new.institution = records[Row].institution
        /\ new.unit = records[Row].unit /\ new.level = records[Row].level
        /\ new.policy = records[Row].policy /\ new.events = records[Row].events
        /\ records' = [records EXCEPT ![Row] = new]
    BY <1>3, <1>5, <2>1, OneGiven
  <2>5. new.topic = records[Row].topic
    <3>1. records[Row] \in RecordType  BY <1>3, <1>5, FittingFields
    <3> QED  BY <3>1 DEF RecordType
  <2> HIDE DEF new
  <2>6. /\ DatabaseTyped' /\ records'[Row] = new
        /\ \A x \in Records : x # Row => records'[x] = records[x]
        /\ UNCHANGED <<mode, rows, role, fonds, lessons, badges>> /\ There' = There
    BY <1>1, <1>3, <1>5, <2>4, RecordWritten
  <2>7. SubjectsSoFar'
    <3>1. ASSUME Undisturbed', NEW r \in There', records'[r].topic, Settled("subjects", r)'
          PROVE  records'[r].subjects = 1
      <4>1. CASE r = Row  BY <2>4, <2>6, <4>1
      <4>2. CASE r # Row
        <5>1. Settled("subjects", r) /\ r \in There /\ r \in Records
          BY <2>3, <2>6, <3>1, <4>2 DEF There
        <5>2. records'[r] = records[r]  BY <2>6, <4>2, <5>1
        <5> QED  BY <1>3, <2>3, <3>1, <5>1, <5>2 DEF SubjectsSoFar
      <4> QED  BY <4>1, <4>2
    <3> QED  BY <3>1 DEF SubjectsSoFar
  <2>8. \A r \in Records : /\ records'[r].files = records[r].files
                           /\ records'[r].institution = records[r].institution
                           /\ records'[r].unit = records[r].unit
                           /\ records'[r].level = records[r].level
                           /\ records'[r].policy = records[r].policy
                           /\ records'[r].events = records[r].events
    BY <2>4, <2>6
  <2>9. "subjects" \notin Tables  BY DEF Tables
  <2>10. SoFar' /\ Clean' /\ Lessons'
    BY <2>3, <2>6, <2>7, <2>8, <2>9 DEF Kept, SoFar
  <2> QED  BY <2>3, <2>6, <2>10 DEF SeedInv
<1> QED  BY <1>6, <1>7

-----------------------------------------------------------------------------
(* The script from its start to its end. *)

\* What a stage takes away as it begins.
LEMMA OnlyFilesCleared ==
    ASSUME DatabaseTyped, NEW s, records' = Cleared(s)
    PROVE  /\ records' \in [Records -> RecordType] /\ \A r \in Records : Fits(records'[r])
           /\ There' = There
           /\ \A r \in Records :
                 /\ records'[r].institution = records[r].institution
                 /\ records'[r].unit = records[r].unit /\ records'[r].level = records[r].level
                 /\ records'[r].policy = records[r].policy
                 /\ records'[r].events = records[r].events
                 /\ records'[r].topic = records[r].topic
                 /\ records'[r].subjects = records[r].subjects
                 /\ records'[r].files =
                       IF (s = "demo" /\ r # Media) \/ (s = "media" /\ r = Media) THEN 0
                       ELSE records[r].files
<1>1. records \in [Records -> RecordType] /\ \A r \in Records : Fits(records[r])
  BY DEF DatabaseTyped
<1>2. Media \in Records  BY SeedingAssumption DEF Records
<1>3. /\ records' = [r \in Records |-> records'[r]]
      /\ \A r \in Records : records'[r] =
            IF (s = "demo" /\ r # Media) \/ (s = "media" /\ r = Media)
            THEN [records[r] EXCEPT !.files = 0] ELSE records[r]
  <2>1. CASE s = "demo"
    <3>1. records' = [r \in Records |-> IF r = Media THEN records[r]
                                       ELSE [records[r] EXCEPT !.files = 0]]
      BY <2>1 DEF Cleared
    <3> QED  BY <2>1, <3>1
  <2>2. CASE s = "media"
    <3>1. records' = [records EXCEPT ![Media].files = 0]  BY <2>2 DEF Cleared
    <3> QED  BY <1>1, <1>2, <2>2, <3>1
  <2>3. CASE s # "demo" /\ s # "media"
    <3>1. records' = records  BY <2>3 DEF Cleared
    <3> QED  BY <1>1, <2>3, <3>1
  <2> QED  BY <2>1, <2>2, <2>3
<1>4. ASSUME NEW r \in Records
      PROVE  /\ records'[r] \in RecordType /\ Fits(records'[r])
             /\ records'[r].there = records[r].there
             /\ records'[r].institution = records[r].institution
             /\ records'[r].unit = records[r].unit /\ records'[r].level = records[r].level
             /\ records'[r].policy = records[r].policy
             /\ records'[r].events = records[r].events
             /\ records'[r].topic = records[r].topic
             /\ records'[r].subjects = records[r].subjects
             /\ records'[r].files =
                   IF (s = "demo" /\ r # Media) \/ (s = "media" /\ r = Media) THEN 0
                   ELSE records[r].files
  <2>1. records[r] \in RecordType /\ Fits(records[r])  BY <1>1
  <2>2. CASE (s = "demo" /\ r # Media) \/ (s = "media" /\ r = Media)
    <3>1. records'[r] = [records[r] EXCEPT !.files = 0]  BY <1>3, <2>2
    <3> QED  BY <2>1, <2>2, <3>1 DEF RecordType, Fits
  <2>3. CASE ~((s = "demo" /\ r # Media) \/ (s = "media" /\ r = Media))
    <3>1. records'[r] = records[r]  BY <1>3, <2>3
    <3> QED  BY <2>1, <2>3, <3>1
  <2> QED  BY <2>2, <2>3
<1>5. There' = There  BY <1>4 DEF There
<1>6. records' \in [Records -> RecordType]  BY <1>3, <1>4
<1> QED  BY <1>4, <1>5, <1>6

\* A stage begins, with what it takes away before its loop.
LEMMA NextStageKeeps ==
    ASSUME SeedInv, NextStage
    PROVE  SeedInv'
<1>1. DatabaseTyped /\ ScriptTyped /\ Clean /\ Lessons /\ stage \in 1..19
  BY DEF SeedInv, ScriptTyped
<1> PICK s : s = Stages[stage + 1]  OBVIOUS
<1>2. /\ records' = Cleared(s) /\ todo = <<>>
      /\ badges' = IF s = "badges" THEN [b \in ToSet(Badges) |-> 0] ELSE badges
      /\ UNCHANGED <<mode, crashes, edits, rows, role, fonds, foreign, lessons, awards>>
  BY DEF NextStage, people
<1>3. /\ running /\ running' /\ stage' = stage + 1 /\ stage' \in 2..19 /\ half' = 0
      /\ snapshot' = records' /\ todo' \in Seq(Things) /\ outcome' = outcome
      /\ Queued' /\ ToSet(todo') = WorkSet(s) /\ s = Stages[stage']
      /\ s = "lessons" => Len(todo') = Len(Course)
      /\ \A x : Settled(Stages[stage], x)
      /\ \A t, x : Settled(t, x)' => Settled(t, x) \/ (t = s /\ x \notin WorkSet(t))
      /\ \A t : Past(t)' <=> (Past(t) \/ t = Stages[stage])
  BY <1>1, StageBegun
<1>4. /\ records' \in [Records -> RecordType] /\ \A r \in Records : Fits(records'[r])
      /\ There' = There
      /\ \A r \in Records :
            /\ records'[r].institution = records[r].institution
            /\ records'[r].unit = records[r].unit /\ records'[r].level = records[r].level
            /\ records'[r].policy = records[r].policy
            /\ records'[r].events = records[r].events
            /\ records'[r].topic = records[r].topic
            /\ records'[r].subjects = records[r].subjects
            /\ records'[r].files =
                  IF (s = "demo" /\ r # Media) \/ (s = "media" /\ r = Media) THEN 0
                  ELSE records[r].files
  BY <1>1, <1>2, OnlyFilesCleared
<1>5. DatabaseTyped'
  <2>1. badges' \in [ToSet(Badges) -> 0..1]  BY <1>1, <1>2 DEF DatabaseTyped
  <2> QED  BY <1>1, <1>2, <1>4, <2>1 DEF DatabaseTyped
<1>6. outcome' = "none"  BY <1>1, <1>3 DEF ScriptTyped
<1>7. ScriptTyped'
  <2>1. \A r \in Records : Fits(snapshot'[r])  BY <1>3, <1>4
  <2> QED  BY <1>1, <1>3, <1>4, <1>6, <2>1 DEF ScriptTyped
<1>8. SeedsAreWhole' /\ FailsOnlyIfCut'  BY <1>6 DEF SeedsAreWhole, FailsOnlyIfCut
<1>9. Lessons'  BY <1>1, <1>2 DEF Lessons
<1>10. Undisturbed' <=> Undisturbed  BY <1>2, <1>3 DEF Undisturbed
<1>11. stage' \in 1..19  BY <1>3
<1>12. ~Past(s)' /\ ~Past(s)
  <2>1. \A t : ~(Past(t)' /\ t = Stages[stage'])  BY <1>11, EarlierNumbers DEF Past
  <2> QED  BY <1>3, <2>1
<1>13. \A t, x : Settled(t, x)' => IF t = s THEN x \notin WorkSet(t) ELSE Settled(t, x)
  BY <1>3, <1>12 DEF Settled
<1>14. \A t : Past(t)' => \A x : Settled(t, x)  BY <1>3 DEF Settled
<1>15. /\ s = "demo" => WorkSet(s) = (There \cap Seeded) \ {Media}
       /\ s = "media" => WorkSet(s) = {Media}
       /\ s = "placing" => WorkSet(s) = There
       /\ s = "subjects" => WorkSet(s) = {r \in There : records[r].topic}
       /\ s = "fonds" => WorkSet(s) = rows["institutions"]
       /\ s = "roles" => WorkSet(s) = ToSet(Roles)
       /\ s = "records" => WorkSet(s) = Seeded \ {Media}
       /\ s = "badges" => WorkSet(s) = ToSet(Badges)
       /\ s \in Tables => WorkSet(s) = ToSet(Slugged[s])
  BY DEF WorkSet, Tables
<1>16. Seeded \subseteq Records /\ Media \in Seeded /\ There \subseteq Records
  BY SeedingAssumption DEF Records, There
<1>17. Clean'
  <2>1. s = "demo" \/ s = "media" => \A r \in ToSet(todo') : records'[r].files = 0
    BY <1>3, <1>4, <1>15, <1>16
  <2>2. s = "badges" => \A b \in ToSet(todo') : badges'[b] = 0  BY <1>2, <1>3, <1>15
  <2> QED  BY <1>3, <2>1, <2>2 DEF Clean, Doing
<1>18. RowsSoFar'
  <2>1. RowsSoFar  BY DEF SeedInv, SoFar
  <2> QED  BY <1>2, <1>10, <1>13, <1>15, <2>1 DEF RowsSoFar
<1>19. RolesSoFar'
  <2>1. RolesSoFar  BY DEF SeedInv, SoFar
  <2> QED  BY <1>2, <1>10, <1>13, <1>15, <2>1 DEF RolesSoFar
<1>20. SeedsSoFar'
  <2>1. SeedsSoFar  BY DEF SeedInv, SoFar
  <2>2. \A r \in Seeded : records'[r].there <=> records[r].there  BY <1>4, <1>16 DEF There
  <2>3. \A r \in Seeded \ {Media} : Undisturbed /\ Settled("records", r)' => records'[r].there
    BY <1>13, <1>15, <2>1, <2>2 DEF SeedsSoFar
  <2>4. Undisturbed /\ Settled("media", Media)' => records'[Media].there
    BY <1>13, <1>15, <1>16, <2>1, <2>2 DEF SeedsSoFar
  <2>5. s \in {"demo", "placing", "subjects"} => ToSet(todo') \subseteq There'
    BY <1>3, <1>4, <1>15
  <2> QED  BY <1>3, <1>10, <2>3, <2>4, <2>5 DEF SeedsSoFar
<1>21. FilesSoFar'
  <2>1. FilesSoFar /\ SeedsSoFar  BY DEF SeedInv, SoFar
  <2>2. ASSUME Undisturbed, s = "demo", NEW r \in Seeded \ {Media}  PROVE r \in WorkSet(s)
    <3>1. Past("records")'  BY <1>3, <1>11, <2>2, EarlierNumbers DEF Past
    <3>2. Settled("records", r)  BY <1>14, <3>1
    <3>3. records[r].there  BY <2>1, <2>2, <3>2 DEF SeedsSoFar
    <3> QED  BY <1>15, <1>16, <2>2, <3>3 DEF There
  <2>3. ASSUME Undisturbed, NEW r \in Seeded \ {Media}, Settled("demo", r)'
        PROVE  records'[r].files = 1
    <3>1. s # "demo" /\ Settled("demo", r)  BY <1>13, <2>2, <2>3
    <3> QED  BY <1>4, <1>16, <2>1, <2>3, <3>1 DEF FilesSoFar
  <2>4. ASSUME Undisturbed, Settled("media", Media)'  PROVE records'[Media].files = 1
    <3>1. s # "media" /\ Settled("media", Media)  BY <1>13, <1>15, <2>4
    <3> QED  BY <1>4, <1>16, <2>1, <2>4, <3>1 DEF FilesSoFar
  <2> QED  BY <1>10, <2>3, <2>4 DEF FilesSoFar
<1>22. PlacesSoFar'
  <2>1. PlacesSoFar  BY DEF SeedInv, SoFar
  <2>2. ASSUME Undisturbed, NEW r \in There', Settled("placing", r)'
        PROVE  /\ InPlace(records'[r], records'[r].level)
               /\ records'[r].policy = records'[r].level /\ records'[r].events = 1
    <3>1. r \in There /\ r \in Records  BY <1>4, <1>16, <2>2
    <3>2. s # "placing" /\ Settled("placing", r)  BY <1>13, <1>15, <2>2, <3>1
    <3> QED  BY <1>4, <2>1, <2>2, <3>1, <3>2 DEF PlacesSoFar, InPlace
  <2>3. half' = 0 /\ \A r \in ToSet(todo') : records'[r] = snapshot'[r]  BY <1>3
  <2> QED  BY <1>10, <2>2, <2>3 DEF PlacesSoFar
<1>23. SubjectsSoFar'
  <2>1. SubjectsSoFar  BY DEF SeedInv, SoFar
  <2>2. ASSUME Undisturbed, NEW r \in There', records'[r].topic, Settled("subjects", r)'
        PROVE  records'[r].subjects = 1
    <3>1. r \in There /\ r \in Records /\ records[r].topic  BY <1>4, <1>16, <2>2
    <3>2. s # "subjects" /\ Settled("subjects", r)  BY <1>13, <1>15, <2>2, <3>1
    <3> QED  BY <1>4, <2>1, <2>2, <3>1, <3>2 DEF SubjectsSoFar
  <2> QED  BY <1>10, <2>2 DEF SubjectsSoFar
<1>24. FondsSoFar'
  <2>1. FondsSoFar /\ RowsSoFar  BY DEF SeedInv, SoFar
  <2>2. ASSUME Undisturbed, s = "fonds", NEW i \in Institutions  PROVE i \in WorkSet(s)
    <3>1. Past("institutions")'  BY <1>3, <1>11, <2>2, EarlierNumbers DEF Past
    <3>2. Settled("institutions", i)  BY <1>14, <3>1
    <3>3. i \in rows["institutions"]
      BY <2>1, <2>2, <3>2 DEF RowsSoFar, Institutions, Tables
    <3> QED  BY <1>15, <2>2, <3>3
  <2> QED  BY <1>2, <1>10, <1>13, <2>1, <2>2 DEF FondsSoFar
<1>25. LessonsSoFar'
  <2>1. LessonsSoFar  BY DEF SeedInv, SoFar
  <2>2. Len(lessons) \in Nat /\ Len(Course) \in Nat /\ Len(lessons) <= Len(Course)
    BY <1>1, SeedingAssumption DEF Lessons
  <2>3. s = "lessons" => Len(lessons) + Len(todo') >= Len(Course)  BY <1>3, <2>2
  <2>4. ASSUME Undisturbed, Past("lessons")'  PROVE Len(lessons) = Len(Course)
    <3>1. CASE Past("lessons")  BY <2>1, <2>4, <3>1 DEF LessonsSoFar
    <3>2. CASE Stages[stage] = "lessons"
      <4>1. Len(lessons) + Len(todo) >= Len(Course)
        BY <1>3, <2>1, <2>4, <3>2 DEF LessonsSoFar, Doing
      <4>2. Len(todo) = 0  BY <1>2
      <4> QED  BY <2>2, <4>1, <4>2
    <3> QED  BY <1>3, <2>4, <3>1, <3>2
  <2> QED  BY <1>2, <1>3, <1>10, <2>3, <2>4 DEF LessonsSoFar, Doing
<1>26. BadgesSoFar'
  <2>1. BadgesSoFar  BY DEF SeedInv, SoFar
  <2> QED  BY <1>2, <1>10, <1>13, <1>15, <2>1 DEF BadgesSoFar
<1> QED
  BY <1>3, <1>5, <1>7, <1>8, <1>9, <1>17, <1>18, <1>19, <1>20, <1>21, <1>22, <1>23, <1>24, <1>25,
     <1>26 DEF SeedInv, SoFar

\* A run begins with nothing settled.
LEMMA StartKeeps ==
    ASSUME SeedInv, Start
    PROVE  SeedInv'
<1>1. /\ running' = TRUE /\ stage' = 1 /\ todo' = Work(Stages[1]) /\ half' = 0
      /\ outcome' = "none" /\ snapshot' = records
      /\ UNCHANGED <<mode, crashes, edits, rows, role, records, fonds, foreign, lessons, badges, awards>>
  BY DEF Start, Enter, people, courses
<1>2. DatabaseTyped /\ Lessons  BY DEF SeedInv
<1>3. DatabaseTyped' /\ Lessons'  BY <1>1, <1>2 DEF DatabaseTyped, Lessons, Fits
<1>4. /\ todo' \in Seq(Things) /\ ToSet(todo') = ToSet(Slugged["users"])
      /\ ToSet(todo') \subseteq Pool("users")
  <2>1. "users" \in Tables /\ "users" \in StageNames /\ Stages[1] = "users"
    BY StageNumbers DEF Tables, StageNames
  <2>2. WorkSet("users") = ToSet(Slugged["users"])  BY <2>1 DEF WorkSet
  <2> QED  BY <1>1, <1>2, <2>1, <2>2, WorkIsSet
<1>5. ScriptTyped'
  <2>1. running' \in BOOLEAN /\ stage' \in 1..19 /\ half' \in 0..2  BY <1>1
  <2>2. \A r \in Records : Fits(snapshot'[r])  BY <1>1, <1>2 DEF DatabaseTyped
  <2> QED  BY <1>1, <1>2, <1>4, <2>1, <2>2 DEF ScriptTyped, DatabaseTyped
<1>6. Stages[stage'] = "users"  BY <1>1, StageNumbers
<1>7. Queued' /\ Clean'  BY <1>4, <1>6 DEF Queued, Clean, OnceEach, Doing
<1>8. \A s : ~Past(s)'  BY <1>1 DEF Past, Before
<1>9. \A s, x : Settled(s, x)' => s = "users" /\ x \notin ToSet(Slugged["users"])
  BY <1>4, <1>6, <1>8 DEF Settled
<1>10. RowsSoFar' /\ RolesSoFar' /\ FilesSoFar' /\ SubjectsSoFar' /\ FondsSoFar' /\ BadgesSoFar'
  BY <1>9 DEF RowsSoFar, RolesSoFar, FilesSoFar, SubjectsSoFar, FondsSoFar, BadgesSoFar
<1>11. SeedsSoFar' /\ PlacesSoFar' /\ LessonsSoFar'
  BY <1>6, <1>8, <1>9 DEF SeedsSoFar, PlacesSoFar, LessonsSoFar, Doing
<1>12. SeedsAreWhole' /\ FailsOnlyIfCut'  BY <1>1 DEF SeedsAreWhole, FailsOnlyIfCut
<1> QED  BY <1>3, <1>5, <1>7, <1>10, <1>11, <1>12 DEF SeedInv, SoFar

\* At the end of the last stage every stage has done with everything.
LEMMA EndKeeps ==
    ASSUME SeedInv, End
    PROVE  SeedInv'
<1>1. /\ running /\ todo = <<>> /\ stage = 19 /\ Stop /\ outcome' = "done"
      /\ UNCHANGED <<mode, crashes, edits, rows, role, records, fonds, foreign, lessons, badges, awards>>
  BY StageNumbers DEF End, people, courses
<1>2. DatabaseTyped /\ ScriptTyped /\ Lessons /\ SoFar  BY DEF SeedInv
<1>3. DatabaseTyped' /\ Lessons'  BY <1>1, <1>2 DEF DatabaseTyped, Lessons, Fits
<1>4. \A n \in 1..19 : \A x : Settled(Stages[n], x)
  BY <1>1 DEF Settled, Past, Before, ToSet
<1>5. /\ \A t \in Tables : \A x : Settled(t, x)
      /\ \A x : /\ Settled("roles", x) /\ Settled("records", x) /\ Settled("demo", x)
                /\ Settled("media", x) /\ Settled("placing", x) /\ Settled("subjects", x)
                /\ Settled("fonds", x) /\ Settled("badges", x)
  <2>1. \A t \in Tables : \E n \in 1..19 : Stages[n] = t
    BY StageNumbers DEF Tables
  <2> QED  BY <1>4, <2>1, StageNumbers
<1>6. ASSUME mode # "live"
      PROVE  /\ \A t \in DOMAIN Slugged : rows[t] = ToSet(Slugged[t])
             /\ \A x \in ToSet(Roles) : role[x] = "active"
             /\ \A r \in Seeded : records[r].there /\ records[r].files = 1
             /\ \A r \in There :
                   /\ records[r].institution # None
                   /\ records[r].unit \in {"series", records[r].institution}
                   /\ records[r].policy = records[r].level /\ records[r].level # "private"
                   /\ records[r].events = 1
                   /\ records[r].topic => records[r].subjects = 1
             /\ \A i \in Institutions : fonds[i] = 1
             /\ Len(lessons) = Len(Course)
             /\ \A b \in ToSet(Badges) : badges[b] = 1
  <2>1. Undisturbed  BY <1>1, <1>6 DEF Undisturbed
  <2>2. \A t \in DOMAIN Slugged : rows[t] = ToSet(Slugged[t])
    BY <1>2, <1>5, <2>1, SeedingAssumption DEF SoFar, RowsSoFar, DatabaseTyped
  <2>3. \A x \in ToSet(Roles) : role[x] = "active"  BY <1>2, <1>5, <2>1 DEF SoFar, RolesSoFar
  <2>4. \A r \in Seeded : records[r].there /\ records[r].files = 1
    BY <1>2, <1>5, <2>1 DEF SoFar, SeedsSoFar, FilesSoFar
  <2>5. ASSUME NEW r \in There
        PROVE  /\ records[r].institution # None
               /\ records[r].unit \in {"series", records[r].institution}
               /\ records[r].policy = records[r].level /\ records[r].level # "private"
               /\ records[r].events = 1
               /\ records[r].topic => records[r].subjects = 1
    <3>1. /\ InPlace(records[r], records[r].level)
          /\ records[r].policy = records[r].level /\ records[r].events = 1
      BY <1>2, <1>5, <2>1 DEF SoFar, PlacesSoFar
    <3>2. records[r].topic => records[r].subjects = 1
      BY <1>2, <1>5, <2>1 DEF SoFar, SubjectsSoFar
    <3> QED  BY <3>1, <3>2 DEF InPlace, Opened
  <2>6. \A i \in Institutions : fonds[i] = 1  BY <1>2, <1>5, <2>1 DEF SoFar, FondsSoFar
  <2>7. Len(lessons) = Len(Course)
    <3>1. Past("lessons")  BY <1>1, StageNumbers DEF Past, Before
    <3> QED  BY <1>2, <2>1, <3>1 DEF SoFar, LessonsSoFar
  <2>8. \A b \in ToSet(Badges) : badges[b] = 1  BY <1>2, <1>5, <2>1 DEF SoFar, BadgesSoFar
  <2> QED  BY <2>2, <2>3, <2>4, <2>5, <2>6, <2>7, <2>8
<1>7. SeedsAreWhole'
  <2>1. There' = There  BY <1>1 DEF There
  <2> QED  BY <1>1, <1>6, <2>1 DEF SeedsAreWhole
<1>8. FailsOnlyIfCut'  BY <1>1 DEF FailsOnlyIfCut
<1> QED  BY <1>1, <1>3, <1>7, <1>8, Stopped

\* A crash leaves the rows as they are, and no run.
LEMMA DiesKeeps ==
    ASSUME SeedInv, Dies
    PROVE  SeedInv'
<1>1. /\ running /\ Stop /\ outcome' = outcome /\ crashes < MaxCrashes /\ crashes' = crashes + 1
      /\ UNCHANGED <<mode, edits, rows, role, records, fonds, foreign, lessons, badges, awards>>
  BY DEF Dies, courses
<1>2. DatabaseTyped'  BY <1>1, SeedingAssumption DEF SeedInv, DatabaseTyped, Fits
<1>3. Lessons'  BY <1>1 DEF SeedInv, Lessons
<1>4. outcome' = "none"  BY <1>1 DEF SeedInv, ScriptTyped
<1>5. SeedsAreWhole' /\ FailsOnlyIfCut'  BY <1>4 DEF SeedsAreWhole, FailsOnlyIfCut
<1> QED  BY <1>1, <1>2, <1>3, <1>4, <1>5, Stopped

-----------------------------------------------------------------------------
(* The platform in use. *)

\* Users write while the script rests, or where it has promised nothing.
LEMMA UsersAct ==
    ASSUME SeedInv, Act, DatabaseTyped', Lessons', badges' = badges,
           \A r \in Records : records'[r].files \in {records[r].files, 0}
    PROVE  SeedInv'
<1>1. /\ mode = "live" \/ ~running
      /\ outcome' = IF running THEN outcome ELSE "none"
      /\ UNCHANGED <<mode, running, stage, todo, half, snapshot>>
  BY DEF Act
<1>2. ScriptTyped /\ Queued /\ Clean  BY DEF SeedInv
<1>3. outcome' = "none"  BY <1>1, <1>2 DEF ScriptTyped
<1>4. ScriptTyped'  BY <1>1, <1>2, <1>3 DEF ScriptTyped
<1>5. Queued'  BY <1>1, <1>2 DEF Queued, Rest
<1>6. Clean'
  <2>1. ASSUME Doing("demo") \/ Doing("media")  PROVE ToSet(todo) \subseteq Records
    <3>1. Pool("demo") = Seeded \ {Media} /\ Pool("media") = {Media}  BY DEF Pool, Tables
    <3> QED  BY <1>2, <2>1, <3>1, SeedingAssumption DEF Queued, Doing, Records
  <2> QED  BY <1>1, <1>2, <2>1 DEF Clean, Doing
<1>7. ~Undisturbed'  BY <1>1 DEF Undisturbed
<1>8. SoFar'
  BY <1>7 DEF SoFar, RowsSoFar, RolesSoFar, SeedsSoFar, FilesSoFar, PlacesSoFar, SubjectsSoFar,
              FondsSoFar, LessonsSoFar, BadgesSoFar
<1>9. SeedsAreWhole' /\ FailsOnlyIfCut'  BY <1>3 DEF SeedsAreWhole, FailsOnlyIfCut
<1> QED  BY <1>4, <1>5, <1>6, <1>8, <1>9 DEF SeedInv

\* A record as users leave it.
LEMMA RecordUsed ==
    ASSUME SeedInv, Act, NEW r \in Records, NEW new, Fits(new),
           new.files \in {records[r].files, 0}, records' = [records EXCEPT ![r] = new],
           UNCHANGED <<rows, role, fonds, courses>>
    PROVE  SeedInv'
<1>1. /\ UNCHANGED <<mode, crashes, rows, role, fonds, foreign, lessons, badges, awards>>
      /\ edits' = edits + 1 /\ edits < MaxEdits
  BY DEF Act, courses
<1>2. DatabaseTyped /\ Lessons  BY DEF SeedInv
<1>3. records'[r] = new /\ \A x \in Records : x # r => records'[x] = records[x]
  BY <1>2 DEF DatabaseTyped
<1>4. records' \in [Records -> RecordType] /\ \A x \in Records : Fits(records'[x])
  <2>1. new \in RecordType  BY DEF Fits
  <2>2. \A x \in Records : Fits(records'[x])  BY <1>2, <1>3 DEF DatabaseTyped
  <2> QED  BY <1>2, <2>1, <2>2 DEF DatabaseTyped
<1>5. DatabaseTyped'  BY <1>1, <1>2, <1>4, SeedingAssumption DEF DatabaseTyped
<1>6. Lessons'  BY <1>1, <1>2 DEF Lessons
<1>7. \A x \in Records : records'[x].files \in {records[x].files, 0}  BY <1>3
<1> QED  BY <1>1, <1>5, <1>6, <1>7, UsersAct

\* Each act of a user.
LEMMA UseKeeps ==
    ASSUME SeedInv, Use
    PROVE  SeedInv'
<1>1. DatabaseTyped /\ Lessons  BY DEF SeedInv
<1>2. ASSUME NEW r \in Deposits, NEW l \in Levels, NEW u \in {None, "series"}, NEW t \in BOOLEAN,
             Deposit(r, l, u, t)
      PROVE  SeedInv'
  <2>1. PICK i \in rows["institutions"] :
           records' = [records EXCEPT ![r] =
              [Absent EXCEPT !.there = TRUE, !.institution = i, !.unit = u, !.level = l,
                             !.policy = l, !.events = 1, !.topic = t]]
    BY <1>2 DEF Deposit
  <2> DEFINE new == [Absent EXCEPT !.there = TRUE, !.institution = i, !.unit = u, !.level = l,
                                   !.policy = l, !.events = 1, !.topic = t]
  <2>2. i \in Institutions  BY <1>1, <2>1 DEF DatabaseTyped, Institutions, Tables
  <2>3. Fits(new) /\ new.files = 0
    <3> DEFINE a == [Absent EXCEPT !.there = TRUE, !.institution = i, !.unit = u]
               b == [a EXCEPT !.level = l, !.policy = l]
               c == [b EXCEPT !.events = 1]
               d == [c EXCEPT !.topic = t]
    <3>1. Absent \in RecordType  BY DEF Absent, RecordType, Levels
    <3>2. a \in RecordType /\ a.unit = u /\ a.institution = i /\ a.files = 0
      BY <2>2, <3>1 DEF RecordType, Absent
    <3> HIDE DEF a
    <3>3. b \in RecordType /\ b.unit = u /\ b.institution = i /\ b.files = 0
      BY <3>2 DEF RecordType
    <3> HIDE DEF b
    <3>4. c \in RecordType /\ c.unit = u /\ c.institution = i /\ c.files = 0
      BY <3>3 DEF RecordType
    <3> HIDE DEF c
    <3>5. d \in RecordType /\ d.unit = u /\ d.institution = i /\ d.files = 0
      BY <3>4 DEF RecordType
    <3>6. new = d  BY <3>1 DEF a, b, c
    <3> QED  BY <3>5, <3>6 DEF Fits
  <2>4. r \in Records  BY DEF Records
  <2>5. Act /\ UNCHANGED <<rows, role, fonds, courses>>  BY <1>2 DEF Deposit
  <2> HIDE DEF new
  <2> QED  BY <2>1, <2>3, <2>4, <2>5, RecordUsed DEF new
<1>3. ASSUME NEW r \in Records, RemoveRecord(r)  PROVE SeedInv'
  <2>1. Fits(Absent) /\ Absent.files = 0  BY DEF Fits, RecordType, Absent, Levels
  <2>2. /\ records' = [records EXCEPT ![r] = Absent] /\ Act
        /\ UNCHANGED <<rows, role, fonds, courses>>
    BY <1>3 DEF RemoveRecord
  <2> QED  BY <2>1, <2>2, RecordUsed
<1>4. ASSUME NEW r \in Records, NEW l \in Levels, ChangeLevel(r, l)  PROVE SeedInv'
  <2> DEFINE new == [records[r] EXCEPT !.level = l, !.policy = l]
  <2>1. Fits(new) /\ new.files = records[r].files
    <3>1. records[r] \in RecordType /\ Fits(records[r])  BY <1>1, FittingFields
    <3> QED  BY <3>1 DEF Fits, RecordType
  <2>2. /\ records' = [records EXCEPT ![r].level = l, ![r].policy = l] /\ Act
        /\ UNCHANGED <<rows, role, fonds, courses>>
    BY <1>4 DEF ChangeLevel
  <2>3. records' = [records EXCEPT ![r] = new]  BY <1>1, <2>2 DEF DatabaseTyped
  <2> HIDE DEF new
  <2> QED  BY <2>1, <2>2, <2>3, RecordUsed
<1>5. ASSUME NEW x \in ToSet(Roles), Revoke(x)  PROVE SeedInv'
  <2>1. /\ role' = [role EXCEPT ![x] = "revoked"] /\ Act
        /\ UNCHANGED <<rows, records, fonds, foreign, lessons, badges, awards>>
    BY <1>5 DEF Revoke, courses
  <2>2. edits' = edits + 1 /\ edits < MaxEdits /\ UNCHANGED <<mode, crashes>>  BY <2>1 DEF Act
  <2>3. DatabaseTyped' /\ Lessons'
    BY <1>1, <2>1, <2>2, SeedingAssumption DEF DatabaseTyped, Fits, Lessons
  <2> QED  BY <2>1, <2>3, UsersAct
<1>6. ASSUME NEW n \in DOMAIN lessons, DeleteLesson(n)  PROVE SeedInv'
  <2>1. /\ mode = "authored" /\ lessons' = RemoveAt(lessons, n) /\ Act
        /\ UNCHANGED <<rows, role, records, fonds, foreign, badges, awards>>
    BY <1>6 DEF DeleteLesson
  <2>2. edits' = edits + 1 /\ edits < MaxEdits /\ UNCHANGED <<mode, crashes>>  BY <2>1 DEF Act
  <2>3. DatabaseTyped'
    BY <1>1, <2>1, <2>2, SeedingAssumption DEF DatabaseTyped, Fits
  <2>4. /\ lessons' \in Seq(ToSet(Course)) /\ IsInjective(lessons')
        /\ Len(lessons') = Len(lessons) - 1
    BY <1>1, <2>1, LessonTakenOut DEF Lessons
  <2>5. Len(lessons') <= Len(Course)  BY <1>1, <2>4, SeedingAssumption DEF Lessons
  <2>6. Lessons'  BY <2>1, <2>2, <2>4, <2>5 DEF Lessons
  <2> QED  BY <2>1, <2>3, <2>6, UsersAct
<1>7. ASSUME NEW n \in DOMAIN lessons, ReorderLessons(n)  PROVE SeedInv'
  <2>1. /\ n < Len(lessons) /\ Act
        /\ lessons' = [lessons EXCEPT ![n] = lessons[n + 1], ![n + 1] = lessons[n]]
        /\ UNCHANGED <<rows, role, records, fonds, foreign, badges, awards>>
    BY <1>7 DEF ReorderLessons
  <2>2. edits' = edits + 1 /\ edits < MaxEdits /\ UNCHANGED <<mode, crashes>>  BY <2>1 DEF Act
  <2>3. DatabaseTyped'
    BY <1>1, <2>1, <2>2, SeedingAssumption DEF DatabaseTyped, Fits
  <2>4. /\ lessons' \in Seq(ToSet(Course)) /\ IsInjective(lessons')
        /\ Len(lessons') = Len(lessons) /\ ToSet(lessons') = ToSet(lessons)
    <3>1. lessons \in Seq(ToSet(Course)) /\ IsInjective(lessons)  BY <1>1 DEF Lessons
    <3>2. lessons' = Exchanged(lessons, n)  BY <2>1 DEF Exchanged
    <3>3. n < Len(lessons)  BY <2>1
    <3>4. \A q \in Seq(ToSet(Course)) : IsInjective(q) => \A i \in DOMAIN q : i < Len(q) =>
             /\ Exchanged(q, i) \in Seq(ToSet(Course)) /\ IsInjective(Exchanged(q, i))
             /\ Len(Exchanged(q, i)) = Len(q) /\ ToSet(Exchanged(q, i)) = ToSet(q)
      BY LessonsSwapped
    <3>5. /\ Exchanged(lessons, n) \in Seq(ToSet(Course)) /\ IsInjective(Exchanged(lessons, n))
          /\ Len(Exchanged(lessons, n)) = Len(lessons)
          /\ ToSet(Exchanged(lessons, n)) = ToSet(lessons)
      BY <3>1, <3>3, <3>4
    <3> QED  BY <3>2, <3>5
  <2>5. Lessons'  BY <1>1, <2>2, <2>4 DEF Lessons
  <2> QED  BY <2>1, <2>3, <2>5, UsersAct
<1>8. ASSUME CreateCourse \/ Award  PROVE SeedInv'
  <2>1. /\ foreign' \in BOOLEAN /\ awards' \in BOOLEAN /\ Act
        /\ UNCHANGED <<rows, role, records, fonds, lessons, badges>>
    BY <1>1, <1>8 DEF CreateCourse, Award, DatabaseTyped
  <2>2. edits' = edits + 1 /\ edits < MaxEdits /\ UNCHANGED <<mode, crashes>>  BY <2>1 DEF Act
  <2>3. DatabaseTyped' /\ Lessons'
    BY <1>1, <2>1, <2>2, SeedingAssumption DEF DatabaseTyped, Fits, Lessons
  <2> QED  BY <2>1, <2>3, UsersAct
<1> QED  BY <1>2, <1>3, <1>4, <1>5, <1>6, <1>7, <1>8 DEF Use

-----------------------------------------------------------------------------
(* The theorems. *)

\* The database as the migrations leave it.
LEMMA SeedInvAtFirst == SeedingInit => SeedInv
<1> SUFFICES ASSUME SeedingInit  PROVE SeedInv
  OBVIOUS
<1>1. /\ mode \in Modes /\ rows = [t \in DOMAIN Slugged |-> IF t = "institutions" THEN {Pilot} ELSE {}]
      /\ role = [x \in ToSet(Roles) |-> "none"] /\ records = Blank
      /\ fonds = [i \in Institutions |-> IF i = Pilot THEN 1 ELSE 0]
      /\ foreign = FALSE /\ lessons = <<>> /\ badges = [b \in ToSet(Badges) |-> 0] /\ awards = FALSE
      /\ running = FALSE /\ stage = 1 /\ todo = <<>> /\ half = 0 /\ snapshot = Blank
      /\ outcome = "none" /\ crashes = 0 /\ edits = 0
  BY DEF SeedingInit
<1>2. Blank \in [Records -> RecordType] /\ \A r \in Records : Fits(Blank[r])
  <2>1. Absent \in RecordType /\ Fits(Absent)  BY DEF Absent, RecordType, Fits, Levels
  <2> QED  BY <2>1 DEF Blank
<1>3. rows \in [Tables -> SUBSET Things] /\ \A t \in Tables : rows[t] \subseteq ToSet(Slugged[t])
  <2>1. Pilot \in ToSet(Slugged["institutions"])  BY SeedingAssumption DEF Institutions
  <2>2. Pilot \in Things  BY SeedingAssumption DEF Things
  <2> QED  BY <1>1, <2>1, <2>2, SeedingAssumption
<1>4. DatabaseTyped
  <2>1. records \in [Records -> RecordType] /\ \A r \in Records : Fits(records[r])
    BY <1>1, <1>2
  <2>2. /\ role \in [ToSet(Roles) -> {"none", "active", "revoked"}]
        /\ fonds \in [Institutions -> 0..1] /\ badges \in [ToSet(Badges) -> 0..1]
        /\ crashes \in 0..MaxCrashes /\ edits \in 0..MaxEdits
    BY <1>1, SeedingAssumption
  <2>3. mode \in Modes /\ foreign \in BOOLEAN /\ awards \in BOOLEAN  BY <1>1
  <2> QED  BY <1>3, <2>1, <2>2, <2>3 DEF DatabaseTyped
<1>5. ScriptTyped
  <2>1. snapshot \in [Records -> RecordType] /\ \A r \in Records : Fits(snapshot[r])
    BY <1>1, <1>2
  <2>2. <<>> \in Seq(Things)  OBVIOUS
  <2>3. todo \in Seq(Things)  BY <1>1, <2>2, Zenon
  <2>4. running \in BOOLEAN /\ outcome = "none"  BY <1>1, Zenon
  <2>5. stage = 1 /\ half = 0  BY <1>1, Zenon
  <2>6. stage \in 1..19 /\ half \in 0..2  BY <2>5
  <2> QED  BY <2>1, <2>3, <2>4, <2>6 DEF ScriptTyped
<1>6. Queued /\ Clean  BY <1>1 DEF Queued, Clean, Doing
<1>7. Lessons
  <2>1. Len(Course) \in Nat  BY SeedingAssumption
  <2>2. ToSet(<<>>) = {} /\ Len(<<>>) = 0 /\ IsInjective(<<>>)  BY DEF ToSet, IsInjective
  <2>3. <<>> \in Seq(ToSet(Course))  OBVIOUS
  <2>4. lessons \in Seq(ToSet(Course))  BY <1>1, <2>3, Zenon
  <2>5. ToSet(lessons) = {} /\ Len(lessons) = 0 /\ IsInjective(lessons)  BY <1>1, <2>2, Zenon
  <2> QED  BY <2>1, <2>4, <2>5 DEF Lessons
<1>8. SoFar
  BY <1>1 DEF SoFar, RowsSoFar, RolesSoFar, SeedsSoFar, FilesSoFar, PlacesSoFar, SubjectsSoFar,
              FondsSoFar, LessonsSoFar, BadgesSoFar, Undisturbed
<1>9. SeedsAreWhole /\ FailsOnlyIfCut  BY <1>1 DEF SeedsAreWhole, FailsOnlyIfCut
<1> QED  BY <1>4, <1>5, <1>6, <1>7, <1>8, <1>9 DEF SeedInv

\* One case for each way the script or its users go on.
LEMMA SeedInvKept ==
    ASSUME SeedInv, [SeedingNext]_seedingVars
    PROVE  SeedInv'
<1>1. CASE Start  BY <1>1, StartKeeps
<1>2. CASE Dies  BY <1>2, DiesKeeps
<1>3. CASE Use  BY <1>3, UseKeeps
<1>4. CASE Run
  <2>1. {"users", "institutions", "members", "newsCategories", "news", "categories", "tags",
         "courses"} \subseteq Tables
    BY DEF Tables
  <2>2. ASSUME \/ UpsertUsers \/ UpsertInstitutions \/ LinkMembers \/ UpsertNewsCategories
               \/ UpsertNews \/ UpsertCategories \/ UpsertTags \/ UpsertCourses
        PROVE  SeedInv'
    BY <2>1, <2>2, Upserted DEF UpsertUsers, UpsertInstitutions, LinkMembers, UpsertNewsCategories,
       UpsertNews, UpsertCategories, UpsertTags, UpsertCourses
  <2> QED
    BY <1>4, <2>2, NextStageKeeps, EndKeeps, RoleEnsured, SeedRecordKeeps, DemoFileKeeps,
       RealMediaKeeps, FondsMade, PlaceRecordKeeps, AddSubjectKeeps, OthersDeleted,
       LessonUpserted, BadgeCreated
    DEF Run
<1>5. CASE UNCHANGED seedingVars
  <2> USE <1>5 DEF seedingVars, people, courses, script
  <2>1. DatabaseTyped'  BY DEF SeedInv, DatabaseTyped, Fits
  <2>2. ScriptTyped'  BY DEF SeedInv, ScriptTyped, Fits
  <2>3. Queued' /\ Clean'  BY DEF SeedInv, Queued, Clean, Rest, Doing
  <2>4. Lessons'  BY DEF SeedInv, Lessons
  <2>5. /\ Undisturbed' <=> Undisturbed
        /\ There' = There /\ Row' = Row
        /\ \A s : (Past(s)' <=> Past(s)) /\ (Doing(s)' <=> Doing(s))
        /\ \A s, x : Settled(s, x)' <=> Settled(s, x)
    BY DEF Undisturbed, There, Row, Past, Before, Doing, Settled
  <2>6. RowsSoFar' /\ RolesSoFar' /\ FondsSoFar' /\ LessonsSoFar' /\ BadgesSoFar'
    BY <2>5 DEF SeedInv, SoFar, RowsSoFar, RolesSoFar, FondsSoFar, LessonsSoFar, BadgesSoFar
  <2>7. SeedsSoFar' /\ FilesSoFar' /\ SubjectsSoFar'
    BY <2>5 DEF SeedInv, SoFar, SeedsSoFar, FilesSoFar, SubjectsSoFar
  <2>8. PlacesSoFar'
    BY <2>5 DEF SeedInv, SoFar, PlacesSoFar, InPlace
  <2>9. SeedsAreWhole' /\ FailsOnlyIfCut'
    BY <2>5 DEF SeedInv, SeedsAreWhole, FailsOnlyIfCut
  <2> QED  BY <2>1, <2>2, <2>3, <2>4, <2>6, <2>7, <2>8, <2>9 DEF SeedInv, SoFar
<1> QED  BY <1>1, <1>2, <1>3, <1>4, <1>5 DEF SeedingNext

\* What is true of the database and of the script at every moment, in every mode, with any
\* number of crashes, runs and acts of users.
THEOREM SeedsAlwaysSound == SeedingSpec => []SeedInv
<1>1. SeedInv /\ [SeedingNext]_seedingVars => SeedInv'  BY SeedInvKept
<1> QED  BY <1>1, SeedInvAtFirst, PTL DEF SeedingSpec

\* prisma/seed.ts leaves nothing twice, and a run of it that gets through leaves the seeds
\* complete and every record in its place.
THEOREM SeedsComeOnce == SeedingSpec => []SeededOnce
<1>1. SeedInv => SeededOnce
  <2> SUFFICES ASSUME SeedInv  PROVE SeededOnce
    OBVIOUS
  <2>1. DatabaseTyped /\ ScriptTyped /\ Lessons /\ SeedsAreWhole  BY DEF SeedInv
  <2>2. ASSUME NEW r \in Records
        PROVE  /\ records[r].institution \in Institutions \cup {None}
               /\ records[r].unit \in Institutions \cup {None, "series"}
               /\ records[r].level \in Levels /\ records[r].policy \in Levels \cup {None}
               /\ records[r].events \in 0..1 /\ records[r].subjects \in 0..1
               /\ records[r].files \in 0..1
    BY <2>1, FittingFields
  <2>3. \A r \in Records : {records[r].events, records[r].subjects, records[r].files} \subseteq Nat
    BY <2>2
  <2>4. \A t \in DOMAIN Slugged : rows[t] \subseteq ToSet(Slugged[t])
    BY <2>1, SeedingAssumption DEF DatabaseTyped
  <2>5. fonds \in [Institutions -> Nat] /\ badges \in [ToSet(Badges) -> Nat]
    BY <2>1 DEF DatabaseTyped
  <2>6. ToSet(lessons) \subseteq ToSet(Course) /\ IsInjective(lessons)
    BY <2>1 DEF Lessons, ToSet
  <2>7. stage \in 1..Len(Stages)  BY <2>1, StageNumbers DEF ScriptTyped
  <2>8. SeedingTypeOK
    BY <2>1, <2>2, <2>3, <2>4, <2>5, <2>6, <2>7 DEF SeedingTypeOK, DatabaseTyped, ScriptTyped
  <2>9. NothingTwice
    <3>1. \A r \in Records :
             records[r].events <= 1 /\ records[r].subjects <= 1 /\ records[r].files <= 1
      BY <2>2
    <3>2. /\ \A i \in Institutions : fonds[i] <= 1
          /\ \A b \in ToSet(Badges) : badges[b] <= 1
      BY <2>1 DEF DatabaseTyped
    <3> QED  BY <3>1, <3>2 DEF NothingTwice
  <2> QED  BY <2>1, <2>8, <2>9 DEF SeededOnce
<1> QED  BY <1>1, SeedsAlwaysSound, PTL

\* A run fails only where lessons were deleted, or while users write.
THEOREM RunsGetThrough == SeedingSpec => []FailsOnlyIfCut
<1>1. SeedInv => FailsOnlyIfCut  BY DEF SeedInv
<1> QED  BY <1>1, SeedsAlwaysSound, PTL

-----------------------------------------------------------------------------
(* What the script leaves of the records it finds. *)

\* A record r that was old and is new after a step of the script.
Keeps(r, old, new) ==
    /\ new.there
    /\ old.institution # None => new.institution = old.institution
    /\ old.unit # None => new.unit = old.unit
    /\ new.subjects >= old.subjects
    /\ r \in Deposits /\ new.level # old.level => old.level = "private" /\ new.level = "sensitive"

KeepsAll == \A r \in There : Keeps(r, records[r], records'[r])

\* A step that writes one record, or none.
LEMMA OneRecordKept ==
    ASSUME DatabaseTyped, NEW x \in Records, NEW new, records' = [records EXCEPT ![x] = new],
           records[x].there => Keeps(x, records[x], new)
    PROVE  KeepsAll
<1> SUFFICES ASSUME NEW r \in There  PROVE Keeps(r, records[r], records'[r])
  BY DEF KeepsAll
<1>1. r \in Records /\ records[r].there  BY DEF There
<1>2. DOMAIN records = Records  BY DEF DatabaseTyped
<1>3. CASE r = x  BY <1>1, <1>2, <1>3
<1>4. CASE r # x
  <2>1. records'[r] = records[r]  BY <1>1, <1>2, <1>4
  <2>2. records[r].subjects \in 0..1  BY <1>1, FittingFields
  <2> QED  BY <1>1, <2>1, <2>2 DEF Keeps
<1> QED  BY <1>3, <1>4

\* A step that writes no record.
LEMMA NoRecordWritten ==
    ASSUME DatabaseTyped, records' = records
    PROVE  KeepsAll
<1> SUFFICES ASSUME NEW r \in There  PROVE Keeps(r, records[r], records'[r])
  BY DEF KeepsAll
<1>1. r \in Records /\ records[r].there  BY DEF There
<1>2. records[r].subjects \in 0..1  BY <1>1, FittingFields
<1> QED  BY <1>1, <1>2 DEF Keeps

\* Nothing but the script runs while it runs and users rest.
LEMMA UsersRest ==
    ASSUME Undisturbed, Use
    PROVE  FALSE
<1>1. ~Act  BY DEF Act, Undisturbed
<1> QED
  BY <1>1 DEF Use, Deposit, RemoveRecord, ChangeLevel, Revoke, DeleteLesson, ReorderLessons,
     CreateCourse, Award

\* A record seeded: it is not deposited, and the seed names neither its unit nor its subjects.
LEMMA SeedKeeps ==
    ASSUME DatabaseTyped, NEW x \in Seeded, records' = [records EXCEPT ![x] = Seed(x)]
    PROVE  KeepsAll
<1>1. x \in Records /\ x \notin Deposits  BY SeedingAssumption DEF Records
<1>2. records[x].subjects \in 0..1  BY <1>1, FittingFields
<1>3. Keeps(x, records[x], Seed(x))
  <2>1. /\ Seed(x).institution = records[x].institution /\ Seed(x).unit = records[x].unit
        /\ Seed(x).subjects = records[x].subjects
    BY RecordSeeded
  <2>2. Seed(x).there = TRUE  BY RecordSeeded
  <2>3. Seed(x).there  BY <2>2, Zenon
  <2> QED  BY <1>1, <1>2, <2>1, <2>3 DEF Keeps
<1> QED  BY <1>1, <1>3, OneRecordKept

\* A file created: nothing else of its record changes.
LEMMA FileKeeps ==
    ASSUME SeedInv, running, todo # <<>>, Row \in Records, CreateFile,
           Stages[stage] \in {"demo", "media"}
    PROVE  KeepsAll
<1>1. DatabaseTyped /\ ScriptTyped /\ Clean  BY DEF SeedInv
<1>2. Row \in ToSet(todo)  BY <1>1, TakeRow DEF ScriptTyped, Row
<1>3. records[Row].files = 0  BY <1>1, <1>2 DEF Clean, Doing
<1>4. CASE records[Row].there
  <2>1. records' = [records EXCEPT ![Row].files = @ + 1]  BY <1>4 DEF CreateFile
  <2> DEFINE new == [records[Row] EXCEPT !.files = @ + 1]
  <2>2. /\ new.there = records[Row].there /\ new.institution = records[Row].institution
        /\ new.unit = records[Row].unit /\ new.subjects = records[Row].subjects
        /\ new.level = records[Row].level /\ records' = [records EXCEPT ![Row] = new]
    BY <1>1, <1>3, <2>1, FileAdded
  <2> HIDE DEF new
  <2>3. records[Row].subjects \in 0..1  BY <1>1, FittingFields
  <2>4. Keeps(Row, records[Row], new)  BY <1>4, <2>2, <2>3 DEF Keeps
  <2> QED  BY <1>1, <2>2, <2>4, OneRecordKept
<1>5. CASE ~records[Row].there
  <2>1. records' = records  BY <1>5 DEF CreateFile
  <2> QED  BY <1>1, <2>1, NoRecordWritten
<1> QED  BY <1>4, <1>5

\* A record placed: while users rest, it still is as the stage has read it.
LEMMA PlacingKeeps ==
    ASSUME SeedInv, Undisturbed, PlaceRecord
    PROVE  KeepsAll
<1>1. running /\ Stages[stage] = "placing" /\ todo # <<>>  BY DEF PlaceRecord, At
<1>2. DatabaseTyped /\ ScriptTyped /\ Queued /\ PlacesSoFar  BY DEF SeedInv, SoFar
<1>3. Row \in ToSet(todo)  BY <1>1, <1>2, TakeRow DEF ScriptTyped, Row
<1>4. Row \in Records
  <2>1. Pool("placing") = Records  BY DEF Pool, Tables
  <2> QED  BY <1>1, <1>2, <1>3, <2>1 DEF Queued
<1>5. records[Row].subjects \in 0..1 /\ records[Row].level \in Levels
  BY <1>2, <1>4, FittingFields
<1>6. CASE ~records[Row].there
  <2>1. records' = records  BY <1>6 DEF PlaceRecord
  <2> QED  BY <1>2, <2>1, NoRecordWritten
<1>7. CASE records[Row].there /\ half = 0
  <2>1. records' = [records EXCEPT ![Row] = Placed(Row)]  BY <1>7 DEF PlaceRecord
  <2>2. records[Row] = snapshot[Row]  BY <1>1, <1>2, <1>3, <1>7 DEF PlacesSoFar, Doing
  <2>3. Placed(Row).there = records[Row].there /\ Placed(Row).subjects = records[Row].subjects
    BY <1>2, <1>4, PlacedFits
  <2>4. /\ records[Row].institution # None => Placed(Row).institution = records[Row].institution
        /\ records[Row].unit # None => Placed(Row).unit = records[Row].unit
        /\ Placed(Row).level = Opened(records[Row].level)
    <3>1. records[Row] \in RecordType  BY <1>2, <1>4, FittingFields
    <3> QED  BY <2>2, <3>1 DEF Placed, Opened, RecordType
  <2>5. Keeps(Row, records[Row], Placed(Row))
    BY <1>5, <1>7, <2>3, <2>4 DEF Keeps, Opened
  <2> QED  BY <1>2, <1>4, <2>1, <2>5, OneRecordKept
<1>8. CASE records[Row].there /\ half = 1
  <2>1. records' = [records EXCEPT ![Row] = PolicyOf(Row)]  BY <1>8 DEF PlaceRecord
  <2>2. Keeps(Row, records[Row], PolicyOf(Row))
    BY <1>2, <1>4, <1>5, <1>8, PolicyFits DEF Keeps
  <2> QED  BY <1>2, <1>4, <2>1, <2>2, OneRecordKept
<1>9. CASE records[Row].there /\ half = 2
  <2>1. records' = [records EXCEPT ![Row].events = IF @ = 0 THEN 1 ELSE @]
    BY <1>9 DEF PlaceRecord
  <2> DEFINE new == [records[Row] EXCEPT !.events = IF @ = 0 THEN 1 ELSE @]
  <2>2. /\ new.there = records[Row].there /\ new.institution = records[Row].institution
        /\ new.unit = records[Row].unit /\ new.level = records[Row].level
        /\ new.subjects = records[Row].subjects /\ records' = [records EXCEPT ![Row] = new]
    BY <1>2, <1>4, <2>1, OneGiven
  <2> HIDE DEF new
  <2>3. Keeps(Row, records[Row], new)  BY <1>5, <1>9, <2>2 DEF Keeps
  <2> QED  BY <1>2, <1>4, <2>2, <2>3, OneRecordKept
<1> QED
  <2>1. half \in {0, 1, 2}  BY <1>2 DEF ScriptTyped
  <2> QED  BY <1>6, <1>7, <1>8, <1>9, <2>1

\* A subject created where there is none.
LEMMA SubjectKeeps ==
    ASSUME SeedInv, AddSubject
    PROVE  KeepsAll
<1>1. running /\ Stages[stage] = "subjects" /\ todo # <<>>  BY DEF AddSubject, At
<1>2. DatabaseTyped /\ ScriptTyped /\ Queued  BY DEF SeedInv
<1>3. Row \in ToSet(todo)  BY <1>1, <1>2, TakeRow DEF ScriptTyped, Row
<1>4. Row \in Records
  <2>1. Pool("subjects") = Records  BY DEF Pool, Tables
  <2> QED  BY <1>1, <1>2, <1>3, <2>1 DEF Queued
<1>5. CASE records[Row].there
  <2>1. records' = [records EXCEPT ![Row].subjects = IF @ = 0 THEN 1 ELSE @]
    BY <1>5 DEF AddSubject
  <2> DEFINE new == [records[Row] EXCEPT !.subjects = IF @ = 0 THEN 1 ELSE @]
  <2>2. /\ new.subjects = 1 /\ new.there = records[Row].there
        /\ new.institution = records[Row].institution /\ new.unit = records[Row].unit
        /\ new.level = records[Row].level /\ records' = [records EXCEPT ![Row] = new]
    BY <1>2, <1>4, <2>1, OneGiven
  <2> HIDE DEF new
  <2>3. records[Row].subjects \in 0..1  BY <1>2, <1>4, FittingFields
  <2>4. Keeps(Row, records[Row], new)  BY <1>5, <2>2, <2>3 DEF Keeps
  <2> QED  BY <1>2, <1>4, <2>2, <2>4, OneRecordKept
<1>6. CASE ~records[Row].there
  <2>1. records' = records  BY <1>6 DEF AddSubject
  <2> QED  BY <1>2, <2>1, NoRecordWritten
<1> QED  BY <1>5, <1>6

\* A step of the script, one case for each statement that writes records.
LEMMA ScriptKeeps ==
    ASSUME SeedInv, Undisturbed, [SeedingNext]_seedingVars
    PROVE  KeepsAll
<1>1. DatabaseTyped /\ ScriptTyped /\ Queued  BY DEF SeedInv
<1>2. ASSUME todo # <<>>, NEW S, Stages[stage] = S, S \in {"records", "demo", "media"}
      PROVE  Row \in Seeded /\ Row \in Records
  <2>1. Row \in ToSet(todo)  BY <1>1, <1>2, TakeRow DEF ScriptTyped, Row
  <2>2. Pool(S) \subseteq Seeded  BY <1>2, SeedingAssumption DEF Pool, Tables
  <2>3. Row \in Seeded  BY <1>1, <1>2, <2>1, <2>2 DEF Queued, Undisturbed
  <2> QED  BY <2>3 DEF Records
<1>3. ASSUME records' = records  PROVE KeepsAll  BY <1>1, <1>3, NoRecordWritten
<1>4. CASE NextStage
  <2>1. records' = Cleared(Stages[stage + 1])  BY <1>4 DEF NextStage
  <2> SUFFICES ASSUME NEW r \in There  PROVE Keeps(r, records[r], records'[r])
    BY DEF KeepsAll
  <2>2. r \in Records /\ r \in There'  BY <1>1, <2>1, OnlyFilesCleared DEF There
  <2>3. /\ records'[r].there /\ records'[r].institution = records[r].institution
        /\ records'[r].unit = records[r].unit /\ records'[r].level = records[r].level
        /\ records'[r].subjects = records[r].subjects /\ records[r].subjects \in 0..1
    BY <1>1, <2>1, <2>2, OnlyFilesCleared, FittingFields DEF There
  <2> QED  BY <2>3 DEF Keeps
<1>5. CASE SeedRecord
  BY <1>1, <1>2, <1>5, SeedKeeps DEF SeedRecord, At
<1>6. CASE DemoFile
  BY <1>2, <1>6, FileKeeps DEF DemoFile, At
<1>7. CASE RealMedia
  <2>1. running /\ Stages[stage] = "media" /\ todo # <<>>  BY <1>7 DEF RealMedia, At
  <2>2. Row \in Seeded /\ Row \in Records  BY <1>2, <2>1
  <2> QED  BY <1>1, <1>7, <2>1, <2>2, SeedKeeps, FileKeeps DEF RealMedia
<1>8. CASE PlaceRecord \/ AddSubject  BY <1>8, PlacingKeeps, SubjectKeeps
<1>9. CASE \/ Start \/ Dies \/ End
           \/ UpsertUsers \/ UpsertInstitutions \/ LinkMembers \/ UpsertNewsCategories
           \/ UpsertNews \/ UpsertCategories \/ UpsertTags \/ UpsertCourses
           \/ EnsureRole \/ DefaultFonds \/ DeleteOthers \/ UpsertLesson \/ DeleteAwards
           \/ CreateBadge \/ UNCHANGED seedingVars
  <2>1. records' = records
    BY <1>9 DEF Start, Dies, End, UpsertUsers, UpsertInstitutions, LinkMembers,
       UpsertNewsCategories, UpsertNews, UpsertCategories, UpsertTags, UpsertCourses, Upsert,
       EnsureRole, DefaultFonds, DeleteOthers, UpsertLesson, DeleteAwards, CreateBadge, seedingVars
  <2> QED  BY <1>3, <2>1
<1> QED
  BY <1>4, <1>5, <1>6, <1>7, <1>8, <1>9, UsersRest DEF SeedingNext, Run

\* prisma/seed.ts, run again while users rest, moves no record that has its place, takes
\* none away, and changes the level of a deposited one from private to sensitive only.
THEOREM SeedingKeepsRecords == SeedingSpec => PreservesRecords
<1>1. SeedInv /\ [SeedingNext]_seedingVars =>
        [running /\ mode # "live" => \A r \in There :
          /\ records'[r].there
          /\ records[r].institution # None => records'[r].institution = records[r].institution
          /\ records[r].unit # None => records'[r].unit = records[r].unit
          /\ records'[r].subjects >= records[r].subjects
          /\ r \in Deposits /\ records'[r].level # records[r].level =>
                records[r].level = "private" /\ records'[r].level = "sensitive"]_seedingVars
  <2>1. SeedInv /\ Undisturbed /\ [SeedingNext]_seedingVars => KeepsAll  BY ScriptKeeps
  <2> QED  BY <2>1 DEF KeepsAll, Keeps, Undisturbed
<1> QED  BY <1>1, SeedsAlwaysSound, PTL DEF SeedingSpec, PreservesRecords

=============================================================================
