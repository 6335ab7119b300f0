-------------------------- MODULE LessonOrder_proofs --------------------------
(***************************************************************************)
(* For every number of lessons and requests: edits that do not overlap     *)
(* leave the lessons numbered from one without a gap, no renumbering of    *)
(* theirs runs into a number in use, and the duration of the course keeps  *)
(* step.  Whatever has gone before, a renumbering that has the course to   *)
(* itself and gets through leaves no gap.  And the edits that do not       *)
(* overlap implement the list of LessonList.                               *)
(***************************************************************************)
EXTENDS LessonOrder, FiniteSetTheorems, SequenceTheorems, TLAPS

-----------------------------------------------------------------------------
(* Facts about the operators *)

\* Sets of lessons are finite and no larger than the course can be.
LEMMA LessonSets ==
    ASSUME NEW S \in SUBSET Lessons
    PROVE  /\ IsFiniteSet(S) /\ Cardinality(S) \in Nat
           /\ Cardinality(S) <= Cardinality(Lessons)
           /\ Cardinality(S) = Cardinality(Lessons) => S = Lessons
<1>1. /\ IsFiniteSet(S) /\ Cardinality(S) <= Cardinality(Lessons)
      /\ Cardinality(S) = Cardinality(Lessons) => S = Lessons
  BY FS_Subset, OrderAssumption
<1>2. Cardinality(S) \in Nat
  BY <1>1, FS_CardinalityType
<1> QED
  BY <1>1, <1>2

LEMMA LessonCount == Cardinality(Lessons) \in Nat
BY LessonSets

LEMMA StoredType == Stored \in SUBSET Lessons
BY DEF Stored

LEMMA MinutesType == Minutes \in Nat
<1>1. counted \cap Stored \in SUBSET Lessons
  BY StoredType
<1> QED
  BY <1>1, LessonSets DEF Minutes

\* What a list of lessons is.
LEMMA ListType ==
    ASSUME NEW o \in Lists
    PROVE  \E n \in 0..Cardinality(Lessons) : o \in [1..n -> Lessons]
BY DEF Lists

LEMMA EmptyList == << >> \in Lists
<1>1. << >> \in [1..0 -> Lessons]
  OBVIOUS
<1>2. 0 \in 0..Cardinality(Lessons)
  BY LessonCount
<1> QED
  BY <1>1, <1>2 DEF Lists

LEMMA IdleType == Idle \in Request
BY EmptyList DEF Idle, Request

\* What a row of a set of lessons is.
LEMMA RowOf ==
    ASSUME NEW S \in SUBSET Lessons, NEW o \in Bijection(1..Cardinality(S), S)
    PROVE  /\ o \in [1..Cardinality(S) -> S]
           /\ \A i, j \in 1..Cardinality(S) : o[i] = o[j] => i = j
           /\ \A l \in S : \E i \in 1..Cardinality(S) : o[i] = l
           /\ o \in Lists
<1>1. /\ o \in [1..Cardinality(S) -> S]
      /\ \A i, j \in 1..Cardinality(S) : o[i] = o[j] => i = j
  BY DEF Bijection, Injection, IsInjective
<1>2. \A l \in S : \E i \in 1..Cardinality(S) : o[i] = l
  BY DEF Bijection, Surjection
<1>3. Cardinality(S) \in 0..Cardinality(Lessons)
  BY LessonSets, LessonCount
<1>4. o \in [1..Cardinality(S) -> Lessons]
  BY <1>1
<1> QED
  BY <1>1, <1>2, <1>3, <1>4 DEF Lists

LEMMA OrderOf ==
    ASSUME NEW o \in Orders
    PROVE  /\ o \in [1..Cardinality(Stored) -> Stored]
           /\ \A i, j \in 1..Cardinality(Stored) : o[i] = o[j] => i = j
           /\ \A l \in Stored : \E i \in 1..Cardinality(Stored) : o[i] = l
           /\ o \in Lists
BY RowOf, StoredType DEF Orders

\* Renumbering keeps the numbers within the course.
LEMMA RenumberedType ==
    ASSUME TypeOK, NEW o \in Lists, NEW sign \in {-1, 1}
    PROVE  Renumbered(o, sign) \in
               [Lessons -> -Cardinality(Lessons)..Cardinality(Lessons)]
<1>1. PICK n \in 0..Cardinality(Lessons) : o \in [1..n -> Lessons]
  BY ListType
<1> SUFFICES ASSUME NEW l \in Lessons
             PROVE  (IF l \in Range(o) THEN sign * (CHOOSE i \in DOMAIN o : o[i] = l)
                     ELSE number[l]) \in -Cardinality(Lessons)..Cardinality(Lessons)
  BY DEF Renumbered
<1>2. CASE l \in Range(o)
  <2> DEFINE c == CHOOSE i \in DOMAIN o : o[i] = l
  <2>1. \E i \in DOMAIN o : o[i] = l
    BY <1>2 DEF Range
  <2>2. c \in 1..n
    BY <1>1, <2>1
  <2> HIDE DEF c
  <2>3. sign * c \in -Cardinality(Lessons)..Cardinality(Lessons)
    BY <2>2, LessonCount
  <2> QED
    BY <1>2, <2>3 DEF c
<1>3. CASE l \notin Range(o)
  BY <1>3 DEF TypeOK
<1> QED
  BY <1>2, <1>3

\* What a transaction does to the lessons of a row of all of them.
LEMMA RenumberedOrder ==
    ASSUME TypeOK, NEW o \in Orders, NEW sign \in {-1, 1},
           number' = Renumbered(o, sign)
    PROVE  /\ \A i \in 1..Cardinality(Stored) : number'[o[i]] = sign * i
           /\ Stored' = Stored
<1>1. /\ o \in [1..Cardinality(Stored) -> Stored]
      /\ \A i, j \in 1..Cardinality(Stored) : o[i] = o[j] => i = j
      /\ \A l \in Stored : \E i \in 1..Cardinality(Stored) : o[i] = l
  BY OrderOf
<1>2. Cardinality(Stored) \in Nat
  BY StoredType, LessonSets
<1>3. ASSUME NEW i \in 1..Cardinality(Stored)
      PROVE  number'[o[i]] = sign * i
  <2>1. o[i] \in Lessons /\ o[i] \in Range(o)
    BY <1>1, StoredType DEF Range
  <2>2. (CHOOSE j \in DOMAIN o : o[j] = o[i]) = i
    BY <1>1
  <2> QED
    BY <2>1, <2>2 DEF Renumbered
<1>4. \A l \in Stored : number'[l] # 0
  BY <1>1, <1>2, <1>3
<1>5. \A l \in Lessons : l \notin Stored => number'[l] = number[l]
  BY <1>1 DEF Renumbered, Range
<1>6. Stored' = Stored
  BY <1>4, <1>5 DEF Stored
<1> QED
  BY <1>3, <1>6

\* A row of all lessons that is numbered from one leaves no gap.
LEMMA NumberedRow ==
    ASSUME NEW o \in Orders,
           \A i \in 1..Cardinality(Stored) : number'[o[i]] = i,
           Stored' = Stored
    PROVE  Gapless'
<1>1. /\ o \in [1..Cardinality(Stored) -> Stored]
      /\ \A l \in Stored : \E i \in 1..Cardinality(Stored) : o[i] = l
  BY OrderOf
<1>2. {number'[l] : l \in Stored} = 1..Cardinality(Stored)
  BY <1>1
<1> QED
  BY <1>2 DEF Gapless

-----------------------------------------------------------------------------
(* Type correctness.  TypeOK alone is not inductive: the number of a new   *)
(* lesson fits because there was an id left when the lessons were counted. *)

CountFits == \A w \in Workers : At(w, "create") => req[w].count < Cardinality(Lessons)

TypeInv == TypeOK /\ CountFits

LEMMA TypeInit == Init => TypeInv
<1> SUFFICES ASSUME Init PROVE TypeInv
  OBVIOUS
<1>1. req \in [Workers -> Request] /\ CountFits
  BY IdleType DEF Init, CountFits, At, Idle
<1>2. number \in [Lessons -> -Cardinality(Lessons)..Cardinality(Lessons)]
  BY LessonCount DEF Init
<1>3. duration \in Nat /\ counted \in SUBSET Lessons
  BY LessonCount, StoredType DEF Init
<1> QED
  BY <1>1, <1>2, <1>3 DEF Init, TypeInv, TypeOK

\* A request that goes on to a request of its type, and does not go on to
\* create a lesson, keeps both facts about requests.
LEMMA RequestStep ==
    ASSUME TypeInv, NEW w \in Workers, NEW value \in Request,
           value.pc = "create" => value.count < Cardinality(Lessons),
           req' = [req EXCEPT ![w] = value]
    PROVE  req' \in [Workers -> Request] /\ CountFits'
BY DEF TypeInv, TypeOK, CountFits, At

LEMMA AloneStep ==
    ASSUME TypeInv, NEW w \in Workers, NEW value, Set(w, value) \/ Begin(w, value)
    PROVE  /\ alone' \in SUBSET Workers
           /\ req' = [req EXCEPT ![w] = value]
BY DEF TypeInv, TypeOK, Set, Begin

\* Moving on to another step of the same request keeps the request's type.
LEMMA MoveOn ==
    ASSUME TypeInv, NEW w \in Workers,
           NEW pc \in {"collect", "park", "number", "minutes", "duration"}
    PROVE  /\ [req[w] EXCEPT !.pc = pc] \in Request
           /\ [Idle EXCEPT !.pc = pc] \in Request
           /\ \A o \in Lists : /\ [req[w] EXCEPT !.pc = pc, !.order = o] \in Request
                               /\ [Idle EXCEPT !.pc = pc, !.order = o] \in Request
           /\ \A n \in Nat : [req[w] EXCEPT !.pc = pc, !.count = n] \in Request
BY IdleType DEF TypeInv, TypeOK, Request

LEMMA StartOn ==
    ASSUME NEW l \in Lessons, NEW n \in Nat
    PROVE  /\ [Idle EXCEPT !.pc = "update", !.lesson = l] \in Request
           /\ [Idle EXCEPT !.pc = "delete", !.lesson = l] \in Request
           /\ [Idle EXCEPT !.pc = "create", !.count = n] \in Request
BY IdleType DEF Request

LEMMA TypeStep == TypeInv /\ [Next]_vars => TypeInv'
<1> SUFFICES ASSUME TypeInv, [Next]_vars PROVE TypeInv'
  OBVIOUS
<1>t. TypeOK /\ CountFits
  BY DEF TypeInv
\* It is enough to look at what became of the rows and of one request.
<1>e. ASSUME NEW w \in Workers, NEW value \in Request,
             value.pc = "create" => value.count < Cardinality(Lessons),
             Set(w, value) \/ Begin(w, value),
             number' \in [Lessons -> -Cardinality(Lessons)..Cardinality(Lessons)],
             counted' \in SUBSET Lessons, duration' \in Nat, orderly' = orderly
      PROVE  TypeInv'
  <2>1. req' \in [Workers -> Request] /\ CountFits' /\ alone' \in SUBSET Workers
    BY <1>e, RequestStep, AloneStep
  <2> QED
    BY <1>e, <1>t, <2>1 DEF TypeInv, TypeOK
<1>i. Idle \in Request /\ Idle.pc = "idle"
  BY IdleType DEF Idle
<1>1. ASSUME NEW w \in Workers, AddRead(w) PROVE TypeInv'
  <2>1. Fresh # {}
    <3>1. {v \in Workers : At(v, "create")} \in SUBSET Workers
      OBVIOUS
    <3>2. Cardinality({v \in Workers : At(v, "create")}) \in Nat
      BY <3>1, OrderAssumption, FS_Subset, FS_CardinalityType
    <3>3. Cardinality({}) = 0
      BY FS_EmptySet
    <3> QED
      BY <1>1, <3>2, <3>3 DEF AddRead
  <2>2. Stored \in SUBSET Lessons /\ Stored # Lessons
    BY <2>1, StoredType DEF Fresh
  <2>3. Cardinality(Stored) \in Nat /\ Cardinality(Stored) < Cardinality(Lessons)
    BY <2>2, LessonSets, LessonCount
  <2> DEFINE value == [Idle EXCEPT !.pc = "create", !.count = Cardinality(Stored)]
  <2>4. value \in Request /\ value.count = Cardinality(Stored)
    <3>1. value \in Request
      BY <1>i, <2>3 DEF Request
    <3> QED
      BY <3>1 DEF Idle
  <2>5. Begin(w, value) /\ UNCHANGED <<number, counted, duration, orderly>>
    BY <1>1 DEF AddRead
  <2> HIDE DEF value
  <2> QED
    BY <1>e, <1>t, <2>3, <2>4, <2>5 DEF TypeOK
<1>2. ASSUME NEW w \in Workers, AddCreate(w) PROVE TypeInv'
  <2>1. At(w, "create") /\ UNCHANGED <<duration, orderly>>
    BY <1>2 DEF AddCreate
  <2>2. req[w].count \in Nat /\ req[w].count < Cardinality(Lessons)
    BY <1>t, <2>1 DEF TypeOK, CountFits, Request
  <2>3. req[w].count + 1 \in -Cardinality(Lessons)..Cardinality(Lessons)
    BY <2>2, LessonCount
  <2>4. CASE Set(w, Idle) /\ UNCHANGED <<number, counted>>
    BY <1>e, <1>i, <1>t, <2>1, <2>4 DEF TypeOK
  <2>5. CASE ~(Set(w, Idle) /\ UNCHANGED <<number, counted>>)
    <3>1. PICK l \in Fresh :
             /\ number' = [number EXCEPT ![l] = req[w].count + 1]
             /\ counted' \in {counted \ {l}, counted \cup {l}}
      BY <1>2, <2>5 DEF AddCreate
    <3>2. l \in Lessons
      BY DEF Fresh
    <3>3. number' \in [Lessons -> -Cardinality(Lessons)..Cardinality(Lessons)]
      BY <1>t, <2>3, <3>1, <3>2 DEF TypeOK
    <3>4. counted' \in SUBSET Lessons
      BY <1>t, <3>1, <3>2 DEF TypeOK
    <3>5. Set(w, [Idle EXCEPT !.pc = "minutes"])
      BY <1>2, <2>5 DEF AddCreate
    <3>6. [Idle EXCEPT !.pc = "minutes"].pc # "create"
      BY DEF Idle
    <3> QED
      BY <1>e, <1>t, <2>1, <3>3, <3>4, <3>5, <3>6, MoveOn DEF TypeOK
  <2> QED
    BY <2>4, <2>5
<1>3. ASSUME NEW w \in Workers, NEW l \in Lessons, UpdateRead(w, l) \/ DeleteRead(w, l)
      PROVE  TypeInv'
  <2>1. PICK pc \in {"update", "delete"} :
           Begin(w, [Idle EXCEPT !.pc = pc, !.lesson = l])
    BY <1>3 DEF UpdateRead, DeleteRead
  <2>2. UNCHANGED <<number, counted, duration, orderly>>
    BY <1>3 DEF UpdateRead, DeleteRead
  <2>3. /\ [Idle EXCEPT !.pc = pc, !.lesson = l] \in Request
        /\ [Idle EXCEPT !.pc = pc, !.lesson = l].pc # "create"
    BY <1>i, StartOn DEF Idle
  <2> QED
    BY <1>e, <1>t, <2>1, <2>2, <2>3 DEF TypeOK
<1>4. ASSUME NEW w \in Workers, UpdateWrite(w) PROVE TypeInv'
  <2>1. UNCHANGED <<number, duration, orderly>>
    BY <1>4 DEF UpdateWrite
  <2>2. CASE Set(w, Idle) /\ UNCHANGED counted
    BY <1>e, <1>i, <1>t, <2>1, <2>2 DEF TypeOK
  <2>3. CASE ~(Set(w, Idle) /\ UNCHANGED counted)
    <3>1. /\ req[w].lesson \in Stored
          /\ counted' \in {counted \ {req[w].lesson}, counted \cup {req[w].lesson}}
          /\ Set(w, [Idle EXCEPT !.pc = "minutes"])
      BY <1>4, <2>3 DEF UpdateWrite
    <3>2. counted' \in SUBSET Lessons
      BY <1>t, <3>1 DEF TypeOK, Stored
    <3>3. [Idle EXCEPT !.pc = "minutes"].pc # "create"
      BY DEF Idle
    <3> QED
      BY <1>e, <1>t, <2>1, <3>1, <3>2, <3>3, MoveOn DEF TypeOK
  <2> QED
    BY <2>2, <2>3
<1>5. ASSUME NEW w \in Workers, DeleteRow(w) PROVE TypeInv'
  <2>1. UNCHANGED <<counted, duration, orderly>>
    BY <1>5 DEF DeleteRow
  <2>2. CASE Set(w, Idle) /\ UNCHANGED number
    BY <1>e, <1>i, <1>t, <2>1, <2>2 DEF TypeOK
  <2>3. CASE ~(Set(w, Idle) /\ UNCHANGED number)
    <3>1. /\ number' = [number EXCEPT ![req[w].lesson] = 0]
          /\ Set(w, [req[w] EXCEPT !.pc = "collect"])
      BY <1>5, <2>3 DEF DeleteRow
    <3>2. number' \in [Lessons -> -Cardinality(Lessons)..Cardinality(Lessons)]
      <4>1. 0 \in -Cardinality(Lessons)..Cardinality(Lessons)
        BY LessonCount
      <4> QED
        BY <1>t, <3>1, <4>1 DEF TypeOK
    <3>3. [req[w] EXCEPT !.pc = "collect"].pc # "create"
      BY <1>t DEF TypeOK, Request
    <3> QED
      BY <1>e, <1>t, <2>1, <3>1, <3>2, <3>3, MoveOn DEF TypeOK
  <2> QED
    BY <2>2, <2>3
<1>6. ASSUME NEW w \in Workers, Collect(w) PROVE TypeInv'
  <2>1. PICK o \in Orders : Set(w, [req[w] EXCEPT !.pc = "park", !.order = o])
    BY <1>6 DEF Collect
  <2>2. [req[w] EXCEPT !.pc = "park", !.order = o] \in Request
    BY MoveOn, OrderOf
  <2>3. [req[w] EXCEPT !.pc = "park", !.order = o].pc # "create"
    BY <1>t DEF TypeOK, Request
  <2> QED
    BY <1>6, <1>e, <1>t, <2>1, <2>2, <2>3 DEF Collect, TypeOK
<1>7. ASSUME NEW w \in Workers, ReorderRead(w) PROVE TypeInv'
  <2>1. PICK o \in Orders : Begin(w, [Idle EXCEPT !.pc = "park", !.order = o])
    BY <1>7 DEF ReorderRead
  <2>2. /\ [Idle EXCEPT !.pc = "park", !.order = o] \in Request
        /\ [Idle EXCEPT !.pc = "park", !.order = o].pc # "create"
    BY MoveOn, OrderOf DEF Idle
  <2> QED
    BY <1>7, <1>e, <1>t, <2>1, <2>2 DEF ReorderRead, TypeOK
<1>8. ASSUME NEW w \in Workers, Park(w) PROVE TypeInv'
  <2>1. UNCHANGED <<counted, duration, orderly>>
    BY <1>8 DEF Park
  <2>2. req[w].order \in Lists
    BY <1>t DEF TypeOK, Request
  <2>3. number' \in [Lessons -> -Cardinality(Lessons)..Cardinality(Lessons)]
    BY <1>8, <1>t, <2>2, RenumberedType DEF Park, TypeOK
  <2>4. Set(w, Idle) \/ Set(w, [req[w] EXCEPT !.pc = "number"])
    BY <1>8 DEF Park
  <2>5. [req[w] EXCEPT !.pc = "number"].pc # "create"
    BY <1>t DEF TypeOK, Request
  <2> QED
    BY <1>e, <1>i, <1>t, <2>1, <2>3, <2>4, <2>5, MoveOn DEF TypeOK
<1>9. ASSUME NEW w \in Workers, Number(w) PROVE TypeInv'
  <2>1. UNCHANGED <<counted, duration, orderly>>
    BY <1>9 DEF Number
  <2>2. req[w].order \in Lists
    BY <1>t DEF TypeOK, Request
  <2>3. number' \in [Lessons -> -Cardinality(Lessons)..Cardinality(Lessons)]
    BY <1>9, <1>t, <2>2, RenumberedType DEF Number, TypeOK
  <2>4. Set(w, Idle) \/ Set(w, [Idle EXCEPT !.pc = "minutes"])
    BY <1>9 DEF Number
  <2>5. [Idle EXCEPT !.pc = "minutes"].pc # "create"
    BY DEF Idle
  <2> QED
    BY <1>e, <1>i, <1>t, <2>1, <2>3, <2>4, <2>5, MoveOn DEF TypeOK
<1>10. ASSUME NEW w \in Workers, SumMinutes(w) PROVE TypeInv'
  <2>1. Set(w, Idle) \/ Set(w, [req[w] EXCEPT !.pc = "duration", !.count = Minutes])
    BY <1>10 DEF SumMinutes
  <2>2. [req[w] EXCEPT !.pc = "duration", !.count = Minutes] \in Request
    BY MoveOn, MinutesType
  <2>3. [req[w] EXCEPT !.pc = "duration", !.count = Minutes].pc # "create"
    BY <1>t DEF TypeOK, Request
  <2> QED
    BY <1>10, <1>e, <1>i, <1>t, <2>1, <2>2, <2>3 DEF SumMinutes, TypeOK
<1>11. ASSUME NEW w \in Workers, WriteDuration(w) PROVE TypeInv'
  <2>1. duration' \in Nat
    BY <1>11, <1>t DEF WriteDuration, TypeOK, Request
  <2> QED
    BY <1>11, <1>e, <1>i, <1>t, <2>1 DEF WriteDuration, TypeOK
<1>12. ASSUME NEW w \in Workers, Crash(w) PROVE TypeInv'
  BY <1>12, <1>e, <1>i, <1>t DEF Crash, TypeOK
<1>13. CASE UNCHANGED vars
  BY <1>13, <1>t DEF vars, TypeInv, TypeOK, CountFits, At
<1> QED
  BY <1>1, <1>2, <1>3, <1>4, <1>5, <1>6, <1>7, <1>8, <1>9, <1>10, <1>11, <1>12, <1>13
  DEF Next

\* Numbers stay within the course, and requests keep their ranges.
THEOREM TypeCorrect == Spec => []TypeOK
<1>1. TypeInv => TypeOK
  BY DEF TypeInv
<1> QED
  BY <1>1, TypeInit, TypeStep, PTL DEF Spec

-----------------------------------------------------------------------------
(* The inductive invariant.  A request that has had the course to itself   *)
(* knows the rows as they are, and in an orderly behaviour every request   *)
(* has: then the numbers are positive until they are parked, and without a *)
(* gap outside a renumbering.                                              *)

Prepared(w) ==
    /\ At(w, "create") => req[w].count = Cardinality(Stored)
    /\ At(w, "duration") => req[w].count = Minutes
    /\ At(w, "park") => req[w].order \in Orders
    /\ At(w, "number") => /\ req[w].order \in Orders
                          /\ \A i \in DOMAIN req[w].order : number[req[w].order[i]] = -i

AloneInv == \A w \in alone : At(w, "idle") \/ (Busy = {w} /\ Prepared(w))

Positive == \A l \in Stored : number[l] > 0

OrderlyInv ==
    orderly =>
        /\ Busy \subseteq alone
        /\ \A w \in Workers : req[w].pc \in {"collect", "park"} => Positive
        /\ (\A w \in Workers : req[w].pc \notin {"collect", "park", "number"}) => Gapless

OrderInv == TypeInv /\ AloneInv /\ OrderlyInv

LEMMA GaplessIsPositive == TypeOK /\ Gapless => Positive
<1> SUFFICES ASSUME TypeOK, Gapless, NEW l \in Stored PROVE number[l] > 0
  BY DEF Positive
<1>1. Cardinality(Stored) \in Nat
  BY StoredType, LessonSets
<1>2. number[l] \in 1..Cardinality(Stored)
  BY DEF Gapless
<1> QED
  BY <1>1, <1>2

\* With nobody at work on an orderly course there is no gap.
LEMMA QuietIsGapless == OrderInv /\ orderly /\ Busy = {} => Gapless /\ Positive
<1> SUFFICES ASSUME OrderInv, orderly, Busy = {} PROVE Gapless /\ Positive
  OBVIOUS
<1>1. \A w \in Workers : req[w].pc \notin {"collect", "park", "number"}
  BY DEF Busy
<1> QED
  BY <1>1, GaplessIsPositive DEF OrderInv, OrderlyInv, TypeInv

LEMMA InvInit == Init => OrderInv
<1> SUFFICES ASSUME Init PROVE OrderInv
  OBVIOUS
<1>1. TypeInv /\ AloneInv
  BY TypeInit DEF Init, AloneInv
<1>2. Gapless
  BY DEF Init, Gapless
<1>3. \A w \in Workers : req[w].pc = "idle"
  BY DEF Init, Idle
<1> QED
  BY <1>1, <1>2, <1>3 DEF OrderInv, OrderlyInv, Busy

\* What a request in progress has to see to when it goes on.
LEMMA ContinueStep ==
    ASSUME OrderInv, NEW w \in Workers, NEW value \in Request,
           ~At(w, "idle"), Set(w, value), orderly' = orderly,
           w \in alone /\ value.pc # "idle" => Prepared(w)',
           orderly /\ value.pc \in {"collect", "park"} => Positive',
           orderly /\ value.pc \notin {"collect", "park", "number"} => Gapless'
    PROVE  AloneInv' /\ OrderlyInv'
<1>1. /\ req \in [Workers -> Request] /\ alone \in SUBSET Workers
      /\ req' = [req EXCEPT ![w] = value] /\ alone' = alone
  BY DEF OrderInv, TypeInv, TypeOK, Set
<1>2. req'[w] = value /\ \A v \in Workers : v # w => req'[v] = req[v]
  BY <1>1
<1>3. w \in Busy /\ Busy' \subseteq Busy
  BY <1>2 DEF Busy, At
<1>4. ASSUME NEW v \in alone PROVE At(v, "idle")' \/ (Busy' = {v} /\ Prepared(v)')
  <2>1. CASE v # w
    <3>1. At(v, "idle")
      BY <1>3, <2>1 DEF OrderInv, AloneInv
    <3> QED
      BY <1>1, <1>2, <2>1, <3>1 DEF At
  <2>2. CASE v = w /\ value.pc # "idle"
    <3>1. Busy = {w}
      BY <2>2 DEF OrderInv, AloneInv
    <3>2. w \in Busy'
      BY <1>2, <2>2 DEF Busy
    <3> QED
      BY <1>3, <2>2, <3>1, <3>2
  <2>3. CASE v = w /\ value.pc = "idle"
    BY <1>2, <2>3 DEF At
  <2> QED
    BY <2>1, <2>2, <2>3
<1>5. ASSUME orderly
      PROVE  /\ Busy' \subseteq alone'
             /\ \A v \in Workers : req'[v].pc \in {"collect", "park"} => Positive'
             /\ (\A v \in Workers : req'[v].pc \notin {"collect", "park", "number"})
                    => Gapless'
  <2>1. Busy \subseteq alone
    BY <1>5 DEF OrderInv, OrderlyInv
  <2>2. Busy = {w}
    BY <1>3, <2>1 DEF OrderInv, AloneInv, At
  <2>3. \A v \in Workers : v # w => req'[v].pc = "idle"
    BY <1>2, <2>2 DEF Busy
  <2> QED
    BY <1>1, <1>2, <1>3, <1>5, <2>1, <2>3
<1> QED
  BY <1>1, <1>4, <1>5 DEF AloneInv, OrderlyInv

\* A request only begins on an orderly course when no other is at work.
LEMMA BeginsAlone ==
    ASSUME orderly, NEW w \in Workers, NEW value, Begin(w, value)
    PROVE  Busy = {}
<1>1. IsFiniteSet(Busy) /\ Cardinality(Busy) \in Nat
  <2>1. Busy \in SUBSET Workers
    BY DEF Busy
  <2> QED
    BY <2>1, OrderAssumption, FS_Subset, FS_CardinalityType
<1>2. Cardinality(Busy) = 0
  BY <1>1 DEF Begin, Room
<1> QED
  BY <1>1, <1>2, FS_EmptySet

\* What a request that comes in has to see to.
LEMMA BeginStep ==
    ASSUME OrderInv, NEW w \in Workers, NEW value \in Request,
           value.pc # "idle", Begin(w, value), orderly' = orderly,
           Busy = {} => Prepared(w)',
           orderly /\ Busy = {} /\ value.pc \in {"collect", "park"} => Positive',
           orderly /\ Busy = {} /\ value.pc \notin {"collect", "park", "number"}
               => Gapless'
    PROVE  AloneInv' /\ OrderlyInv'
<1>1. /\ req \in [Workers -> Request]
      /\ req' = [req EXCEPT ![w] = value]
      /\ alone' = IF Busy = {} THEN {w} ELSE {}
  BY DEF OrderInv, TypeInv, TypeOK, Begin
<1>2. req'[w] = value /\ \A v \in Workers : v # w => req'[v] = req[v]
  BY <1>1
<1>3. Busy = {} => Busy' = {w}
  BY <1>2 DEF Busy
<1>4. AloneInv'
  BY <1>1, <1>3 DEF AloneInv
<1>5. ASSUME orderly PROVE Busy = {}
  BY <1>5, BeginsAlone
<1>6. ASSUME orderly
      PROVE  /\ Busy' \subseteq alone'
             /\ \A v \in Workers : req'[v].pc \in {"collect", "park"} => Positive'
             /\ (\A v \in Workers : req'[v].pc \notin {"collect", "park", "number"})
                    => Gapless'
  <2>1. \A v \in Workers : v # w => req'[v].pc = "idle"
    BY <1>2, <1>5, <1>6 DEF Busy
  <2> QED
    BY <1>1, <1>2, <1>3, <1>5, <1>6, <2>1
<1> QED
  BY <1>4, <1>6 DEF OrderlyInv

\* Numbers that stay leave everything that depends on them alone.
LEMMA SameNumbers ==
    ASSUME number' = number
    PROVE  Stored' = Stored /\ Orders' = Orders /\ (Gapless => Gapless')
           /\ (Positive => Positive')
BY DEF Stored, Orders, Gapless, Positive

\* Positive numbers are never in the way of parking, and parked ones never in
\* the way of the numbers to come.
LEMMA PositiveFits ==
    ASSUME TypeOK, Positive, NEW o \in Orders
    PROVE  Fits(o, -1)
<1> SUFFICES ASSUME NEW i \in DOMAIN o
             PROVE  o[i] \in Stored /\ \A l \in Stored : number[l] # (-1) * i
  BY DEF Fits
<1>1. o \in [1..Cardinality(Stored) -> Stored] /\ Cardinality(Stored) \in Nat
  BY OrderOf, StoredType, LessonSets
<1>2. i \in 1..Cardinality(Stored) /\ (-1) * i < 0
  BY <1>1
<1>3. \A l \in Stored : number[l] \in Int /\ number[l] > 0
  BY StoredType, LessonCount DEF Positive, TypeOK
<1> QED
  BY <1>1, <1>2, <1>3

LEMMA ParkedFits ==
    ASSUME TypeOK, NEW o \in Orders, \A i \in DOMAIN o : number[o[i]] = -i
    PROVE  Fits(o, 1)
<1> SUFFICES ASSUME NEW i \in DOMAIN o
             PROVE  o[i] \in Stored /\ \A l \in Stored : number[l] # 1 * i
  BY DEF Fits
<1>1. /\ o \in [1..Cardinality(Stored) -> Stored] /\ Cardinality(Stored) \in Nat
      /\ \A l \in Stored : \E j \in 1..Cardinality(Stored) : o[j] = l
  BY OrderOf, StoredType, LessonSets
<1>2. \A l \in Stored : number[l] \in Int /\ number[l] < 0
  BY <1>1
<1> QED
  BY <1>1, <1>2

\* The same, for a request that has had the course to itself.
LEMMA AloneKnows ==
    ASSUME OrderInv, NEW w \in alone, ~At(w, "idle")
    PROVE  Busy = {w} /\ Prepared(w)
BY DEF OrderInv, AloneInv

LEMMA OrderlyKnows ==
    ASSUME OrderInv, orderly, NEW w \in Workers, ~At(w, "idle")
    PROVE  w \in alone /\ Busy = {w} /\ Prepared(w)
<1>1. w \in alone
  BY DEF OrderInv, OrderlyInv, Busy, At
<1> QED
  BY <1>1, AloneKnows

\* Outside a renumbering an orderly course has no gap.
LEMMA OrderlySteady ==
    ASSUME OrderInv, orderly, NEW w \in Workers, ~At(w, "idle"),
           req[w].pc \notin {"collect", "park", "number"}
    PROVE  Gapless /\ Positive
<1>1. Busy = {w}
  BY OrderlyKnows
<1>2. \A v \in Workers : req[v].pc \notin {"collect", "park", "number"}
  BY <1>1 DEF Busy
<1> QED
  BY <1>2, GaplessIsPositive DEF OrderInv, OrderlyInv, TypeInv

\* A new lesson behind a course without a gap leaves none.
LEMMA AppendedGapless ==
    ASSUME TypeOK, Gapless, NEW l \in Lessons \ Stored,
           number' = [number EXCEPT ![l] = Cardinality(Stored) + 1]
    PROVE  Gapless'
<1>1. Cardinality(Stored) \in Nat /\ IsFiniteSet(Stored)
  BY StoredType, LessonSets
<1>2. /\ number'[l] = Cardinality(Stored) + 1
      /\ \A m \in Lessons : m # l => number'[m] = number[m]
  BY DEF TypeOK
<1>3. Stored' = Stored \cup {l}
  <2>1. number'[l] # 0
    BY <1>1, <1>2
  <2>2. \A m \in Lessons : number'[m] # 0 <=> m = l \/ number[m] # 0
    BY <1>2, <2>1
  <2> QED
    BY <2>2 DEF Stored
<1>4. Cardinality(Stored') = Cardinality(Stored) + 1
  BY <1>1, <1>3, FS_AddElement
<1>5. {number'[m] : m \in Stored'} = {number[m] : m \in Stored} \cup {Cardinality(Stored) + 1}
  BY <1>2, <1>3, StoredType
<1>6. 1..(Cardinality(Stored) + 1) = 1..Cardinality(Stored) \cup {Cardinality(Stored) + 1}
  BY <1>1
<1> QED
  BY <1>4, <1>5, <1>6 DEF Gapless

LEMMA InvStep == OrderInv /\ [Next]_vars => OrderInv'
<1> SUFFICES ASSUME OrderInv, [Next]_vars PROVE AloneInv' /\ OrderlyInv'
  BY TypeStep DEF OrderInv
<1>t. TypeOK /\ TypeInv'
  BY TypeStep DEF OrderInv, TypeInv
<1>i. Idle \in Request /\ Idle.pc = "idle"
  BY IdleType DEF Idle
\* Going on to see to the duration.
<1>m. ASSUME NEW w \in Workers, ~At(w, "idle"), orderly' = orderly,
             Set(w, [Idle EXCEPT !.pc = "minutes"]),
             orderly => Gapless'
      PROVE  AloneInv' /\ OrderlyInv'
  <2> DEFINE value == [Idle EXCEPT !.pc = "minutes"]
  <2>1. value \in Request /\ value.pc = "minutes"
    BY MoveOn, IdleType DEF OrderInv, Idle
  <2>2. req'[w] = value
    BY <1>m, <1>t DEF Set, TypeOK
  <2>3. Prepared(w)'
    BY <2>1, <2>2 DEF Prepared, At
  <2> HIDE DEF value
  <2> QED
    BY <1>m, <2>1, <2>3, ContinueStep DEF value
\* Ending the request.
<1>d. ASSUME NEW w \in Workers, ~At(w, "idle"), orderly' = orderly, Set(w, Idle),
             orderly => Gapless'
      PROVE  AloneInv' /\ OrderlyInv'
  BY <1>d, <1>i, ContinueStep
<1>1. ASSUME NEW w \in Workers, AddRead(w) PROVE AloneInv' /\ OrderlyInv'
  <2> DEFINE value == [Idle EXCEPT !.pc = "create", !.count = Cardinality(Stored)]
  <2>1. /\ Begin(w, value) /\ number' = number /\ orderly' = orderly
    BY <1>1 DEF AddRead
  <2>2. value \in Request /\ value.pc = "create" /\ value.count = Cardinality(Stored)
    BY <1>i, StoredType, LessonSets DEF Request, Idle
  <2>3. req'[w] = value
    BY <1>t, <2>1 DEF Begin, TypeOK
  <2>4. Prepared(w)'
    BY <2>1, <2>2, <2>3, SameNumbers DEF Prepared, At
  <2> HIDE DEF value
  <2> QED
    BY <2>1, <2>2, <2>4, SameNumbers, QuietIsGapless, BeginStep
<1>2. ASSUME NEW w \in Workers, AddCreate(w) PROVE AloneInv' /\ OrderlyInv'
  <2>1. At(w, "create") /\ ~At(w, "idle") /\ orderly' = orderly
    BY <1>2 DEF AddCreate, At
  <2>2. orderly => Gapless /\ req[w].count = Cardinality(Stored)
    BY <2>1, OrderlySteady, OrderlyKnows DEF Prepared, At
  <2>3. CASE Set(w, Idle) /\ UNCHANGED number
    BY <1>d, <2>1, <2>2, <2>3, SameNumbers
  <2>4. CASE ~(Set(w, Idle) /\ UNCHANGED number)
    <3>1. PICK l \in Fresh : number' = [number EXCEPT ![l] = req[w].count + 1]
      BY <1>2, <2>4 DEF AddCreate
    <3>2. l \in Lessons \ Stored
      BY DEF Fresh
    <3>3. orderly => Gapless'
      BY <1>t, <2>2, <3>1, <3>2, AppendedGapless
    <3>4. Set(w, [Idle EXCEPT !.pc = "minutes"])
      BY <1>2, <2>4 DEF AddCreate
    <3> QED
      BY <1>m, <2>1, <3>3, <3>4
  <2> QED
    BY <2>3, <2>4
<1>3. ASSUME NEW w \in Workers, NEW l \in Lessons, UpdateRead(w, l) \/ DeleteRead(w, l)
      PROVE  AloneInv' /\ OrderlyInv'
  <2>1. PICK pc \in {"update", "delete"} :
           Begin(w, [Idle EXCEPT !.pc = pc, !.lesson = l])
    BY <1>3 DEF UpdateRead, DeleteRead
  <2>2. number' = number /\ orderly' = orderly
    BY <1>3 DEF UpdateRead, DeleteRead
  <2> DEFINE value == [Idle EXCEPT !.pc = pc, !.lesson = l]
  <2>3. value \in Request /\ value.pc = pc
    BY <1>i, StartOn DEF Idle
  <2>4. req'[w] = value
    BY <1>t, <2>1 DEF Begin, TypeOK
  <2>5. Prepared(w)'
    BY <2>3, <2>4 DEF Prepared, At
  <2> HIDE DEF value
  <2> QED
    BY <2>1, <2>2, <2>3, <2>5, SameNumbers, QuietIsGapless, BeginStep DEF value
<1>4. ASSUME NEW w \in Workers, UpdateWrite(w) PROVE AloneInv' /\ OrderlyInv'
  <2>1. At(w, "update") /\ ~At(w, "idle") /\ number' = number /\ orderly' = orderly
    BY <1>4 DEF UpdateWrite, At
  <2>2. orderly => Gapless'
    BY <2>1, OrderlySteady, SameNumbers DEF At
  <2>3. Set(w, Idle) \/ Set(w, [Idle EXCEPT !.pc = "minutes"])
    BY <1>4 DEF UpdateWrite
  <2> QED
    BY <1>d, <1>m, <2>1, <2>2, <2>3
<1>5. ASSUME NEW w \in Workers, DeleteRow(w) PROVE AloneInv' /\ OrderlyInv'
  <2>1. At(w, "delete") /\ ~At(w, "idle") /\ orderly' = orderly
    BY <1>5 DEF DeleteRow, At
  <2>2. orderly => Gapless /\ Positive
    BY <2>1, OrderlySteady DEF At
  <2>3. CASE Set(w, Idle) /\ UNCHANGED number
    BY <1>d, <2>1, <2>2, <2>3, SameNumbers
  <2>4. CASE ~(Set(w, Idle) /\ UNCHANGED number)
    <3>1. /\ number' = [number EXCEPT ![req[w].lesson] = 0]
          /\ Set(w, [req[w] EXCEPT !.pc = "collect"])
      BY <1>5, <2>4 DEF DeleteRow
    <3> DEFINE value == [req[w] EXCEPT !.pc = "collect"]
    <3>2. value \in Request
      BY MoveOn DEF OrderInv
    <3>3. value.pc = "collect"
      BY <1>t DEF TypeOK, Request
    <3>4. req'[w] = value
      BY <1>t, <3>1 DEF Set, TypeOK
    <3>5. Prepared(w)'
      BY <3>3, <3>4 DEF Prepared, At
    <3>6. orderly => Positive'
      BY <1>t, <2>2, <3>1 DEF Positive, Stored, TypeOK
    <3> HIDE DEF value
    <3> QED
      BY <2>1, <3>1, <3>2, <3>3, <3>5, <3>6, ContinueStep DEF value
  <2> QED
    BY <2>3, <2>4
<1>6. ASSUME NEW w \in Workers, Collect(w) PROVE AloneInv' /\ OrderlyInv'
  <2>1. At(w, "collect") /\ ~At(w, "idle") /\ number' = number /\ orderly' = orderly
    BY <1>6 DEF Collect, At
  <2>2. PICK o \in Orders : Set(w, [req[w] EXCEPT !.pc = "park", !.order = o])
    BY <1>6 DEF Collect
  <2> DEFINE value == [req[w] EXCEPT !.pc = "park", !.order = o]
  <2>3. value \in Request
    BY MoveOn, OrderOf DEF OrderInv
  <2>4. value.pc = "park" /\ value.order = o
    BY <1>t DEF TypeOK, Request
  <2>5. req'[w] = value
    BY <1>t, <2>2 DEF Set, TypeOK
  <2>6. Prepared(w)'
    BY <2>1, <2>4, <2>5, SameNumbers DEF Prepared, At
  <2>7. orderly => Positive'
    BY <2>1, SameNumbers DEF OrderInv, OrderlyInv, At
  <2> HIDE DEF value
  <2> QED
    BY <2>1, <2>2, <2>3, <2>4, <2>6, <2>7, ContinueStep DEF value
<1>7. ASSUME NEW w \in Workers, ReorderRead(w) PROVE AloneInv' /\ OrderlyInv'
  <2>1. PICK o \in Orders : Begin(w, [Idle EXCEPT !.pc = "park", !.order = o])
    BY <1>7 DEF ReorderRead
  <2>2. number' = number /\ orderly' = orderly
    BY <1>7 DEF ReorderRead
  <2> DEFINE value == [Idle EXCEPT !.pc = "park", !.order = o]
  <2>3. value \in Request /\ value.pc = "park" /\ value.order = o
    BY <1>i, OrderOf DEF Request, Idle
  <2>4. req'[w] = value
    BY <1>t, <2>1 DEF Begin, TypeOK
  <2>5. Prepared(w)'
    BY <2>2, <2>3, <2>4, SameNumbers DEF Prepared, At
  <2> HIDE DEF value
  <2> QED
    BY <2>1, <2>2, <2>3, <2>5, SameNumbers, QuietIsGapless, BeginStep DEF value
<1>8. ASSUME NEW w \in Workers, Park(w) PROVE AloneInv' /\ OrderlyInv'
  <2>1. At(w, "park") /\ ~At(w, "idle") /\ orderly' = orderly
    BY <1>8 DEF Park, At
  <2> DEFINE o == req[w].order
  <2>2. orderly => Fits(o, -1)
    BY <1>t, <2>1, OrderlyKnows, PositiveFits
    DEF OrderInv, OrderlyInv, Prepared, At
  <2>3. CASE Set(w, Idle) /\ UNCHANGED number /\ ~Fits(o, -1)
    BY <1>d, <2>1, <2>2, <2>3
  <2>4. CASE ~(Set(w, Idle) /\ UNCHANGED number /\ ~Fits(o, -1))
    <3>1. /\ number' = Renumbered(o, -1)
          /\ Set(w, [req[w] EXCEPT !.pc = "number"])
      BY <1>8, <2>4 DEF Park
    <3> DEFINE value == [req[w] EXCEPT !.pc = "number"]
    <3>2. value \in Request
      BY MoveOn DEF OrderInv
    <3>3. value.pc = "number" /\ value.order = o
      BY <1>t DEF TypeOK, Request
    <3>4. req'[w] = value
      BY <1>t, <3>1 DEF Set, TypeOK
    <3>5. ASSUME w \in alone PROVE Prepared(w)'
      <4>1. o \in Orders
        BY <2>1, <3>5, AloneKnows DEF Prepared, At
      <4>2. /\ \A i \in 1..Cardinality(Stored) : number'[o[i]] = (-1) * i
            /\ Stored' = Stored
        BY <1>t, <3>1, <4>1, RenumberedOrder
      <4>3. o \in Orders' /\ DOMAIN o = 1..Cardinality(Stored)
        BY <4>1, <4>2, OrderOf DEF Orders
      <4>4. \A i \in DOMAIN o : number'[o[i]] = -i
        <5>1. \A i \in 1..Cardinality(Stored) : (-1) * i = -i
          OBVIOUS
        <5> QED
          BY <4>2, <4>3, <5>1
      <4> QED
        BY <3>3, <3>4, <4>3, <4>4 DEF Prepared, At
    <3> HIDE DEF value
    <3> QED
      BY <2>1, <3>1, <3>2, <3>3, <3>5, ContinueStep DEF value
  <2> QED
    BY <1>8, <2>3, <2>4
<1>9. ASSUME NEW w \in Workers, Number(w) PROVE AloneInv' /\ OrderlyInv'
  <2>1. At(w, "number") /\ ~At(w, "idle") /\ orderly' = orderly
    BY <1>9 DEF Number, At
  <2> DEFINE o == req[w].order
  <2>2. orderly => o \in Orders /\ Fits(o, 1)
    BY <1>t, <2>1, OrderlyKnows, ParkedFits DEF Prepared, At
  <2>3. orderly => Gapless'
    <3> SUFFICES ASSUME orderly PROVE Gapless'
      OBVIOUS
    <3>1. number' = Renumbered(o, 1)
      BY <1>9, <2>2 DEF Number
    <3>2. /\ \A i \in 1..Cardinality(Stored) : number'[o[i]] = 1 * i
          /\ Stored' = Stored
      BY <1>t, <2>2, <3>1, RenumberedOrder
    <3>3. \A i \in 1..Cardinality(Stored) : 1 * i = i
      OBVIOUS
    <3> QED
      BY <2>2, <3>2, <3>3, NumberedRow
  <2>4. Set(w, Idle) \/ Set(w, [Idle EXCEPT !.pc = "minutes"])
    BY <1>9 DEF Number
  <2> QED
    BY <1>d, <1>m, <2>1, <2>3, <2>4
<1>10. ASSUME NEW w \in Workers, SumMinutes(w) PROVE AloneInv' /\ OrderlyInv'
  <2>1. /\ At(w, "minutes") /\ ~At(w, "idle") /\ UNCHANGED <<number, counted, orderly>>
    BY <1>10 DEF SumMinutes, At
  <2>2. orderly => Gapless'
    BY <2>1, OrderlySteady, SameNumbers DEF At
  <2>3. CASE Set(w, Idle)
    BY <1>d, <2>1, <2>2, <2>3
  <2>4. CASE Set(w, [req[w] EXCEPT !.pc = "duration", !.count = Minutes])
    <3> DEFINE value == [req[w] EXCEPT !.pc = "duration", !.count = Minutes]
    <3>1. value \in Request
      BY MoveOn, MinutesType DEF OrderInv
    <3>2. value.pc = "duration" /\ value.count = Minutes
      BY <1>t DEF TypeOK, Request
    <3>3. req'[w] = value
      BY <1>t, <2>4 DEF Set, TypeOK
    <3>4. Minutes' = Minutes
      BY <2>1, SameNumbers DEF Minutes
    <3>5. Prepared(w)'
      BY <3>2, <3>3, <3>4 DEF Prepared, At
    <3> HIDE DEF value
    <3> QED
      BY <2>1, <2>2, <2>4, <3>1, <3>2, <3>5, ContinueStep DEF value
  <2> QED
    BY <1>10, <2>3, <2>4 DEF SumMinutes
<1>11. ASSUME NEW w \in Workers, WriteDuration(w) PROVE AloneInv' /\ OrderlyInv'
  <2>1. /\ At(w, "duration") /\ ~At(w, "idle") /\ Set(w, Idle)
        /\ number' = number /\ orderly' = orderly
    BY <1>11 DEF WriteDuration, At
  <2>2. orderly => Gapless'
    BY <2>1, OrderlySteady, SameNumbers DEF At
  <2> QED
    BY <1>d, <2>1, <2>2
<1>12. ASSUME NEW w \in Workers, Crash(w) PROVE AloneInv' /\ OrderlyInv'
  BY <1>12, <1>d DEF Crash, At
<1>13. CASE UNCHANGED vars
  <2>1. number' = number /\ req' = req /\ counted' = counted
        /\ orderly' = orderly /\ alone' = alone
    BY <1>13 DEF vars
  <2>2. Minutes' = Minutes /\ Busy' = Busy
    BY <2>1, SameNumbers DEF Minutes, Busy
  <2>3. \A w \in Workers : Prepared(w) => Prepared(w)'
    BY <2>1, <2>2, SameNumbers DEF Prepared, At
  <2>4. AloneInv'
    BY <1>t, <2>1, <2>2, <2>3 DEF OrderInv, AloneInv, At, TypeOK
  <2>5. OrderlyInv'
    BY <2>1, <2>2, SameNumbers DEF OrderInv, OrderlyInv
  <2> QED
    BY <2>4, <2>5
<1> QED
  BY <1>1, <1>2, <1>3, <1>4, <1>5, <1>6, <1>7, <1>8, <1>9, <1>10, <1>11, <1>12, <1>13
  DEF Next

LEMMA InvHolds == Spec => []OrderInv
BY InvInit, InvStep, PTL DEF Spec

\* Between edits that do not overlap the lessons are numbered from one without
\* a gap (lms.service.ts:732, 904-912).
THEOREM NoGaps == Spec => []NumberedWithoutGaps
<1>1. OrderInv => NumberedWithoutGaps
  BY QuietIsGapless DEF NumberedWithoutGaps, Quiet
<1> QED
  BY <1>1, InvHolds, PTL

\* Edits that do not overlap never run into a number in use
\* (lms.service.ts:914-917).
THEOREM NothingInTheWay == Spec => []OrderlyParkingFits
<1>1. OrderInv => OrderlyParkingFits
  <2> SUFFICES ASSUME OrderInv, orderly, NEW w \in Workers
               PROVE  /\ At(w, "park") => Fits(req[w].order, -1)
                      /\ At(w, "number") => Fits(req[w].order, 1)
    BY DEF OrderlyParkingFits, ParkingFits
  <2>1. CASE At(w, "park")
    <3>1. req[w].order \in Orders
      BY <2>1, OrderlyKnows DEF Prepared, At
    <3>2. Positive
      BY <2>1 DEF OrderInv, OrderlyInv, At
    <3> QED
      BY <2>1, <3>1, <3>2, PositiveFits DEF OrderInv, TypeInv, At
  <2>2. CASE At(w, "number")
    BY <2>2, OrderlyKnows, ParkedFits DEF OrderInv, TypeInv, Prepared, At
  <2> QED
    BY <2>1, <2>2
<1> QED
  BY <1>1, InvHolds, PTL

\* A step of one request leaves the others where they are.
LEMMA OnlyItself ==
    ASSUME TypeOK, NEW v \in Workers, NEW w \in Workers, v # w, NEW value,
           Set(v, value) \/ Begin(v, value)
    PROVE  req'[w] = req[w]
BY DEF TypeOK, Set, Begin

\* With edits that wait for each other, none of them cut short, adding, updating or
\* deleting a lesson ends with the minutes of the published lessons, if there are any
\* (lms.service.ts:883).
THEOREM DurationKeepsStep == Spec => DurationInStep
<1>1. ASSUME OrderInv, [Next]_vars, NEW w \in alone,
             orderly, req[w].pc \in {"minutes", "duration"}, At(w, "idle")',
             Minutes' > 0
      PROVE  duration' = Minutes'
  <2>t. TypeOK /\ w \in Workers
    BY <1>1 DEF OrderInv, TypeInv, TypeOK
  <2>1. Prepared(w)
    BY <1>1, AloneKnows DEF At
  <2>2. ASSUME NEW v \in Workers, NEW value, v # w, Set(v, value) \/ Begin(v, value)
        PROVE  FALSE
    BY <1>1, <2>t, <2>2, OnlyItself DEF At
  <2>3. ASSUME NEW value, Begin(w, value) PROVE FALSE
    BY <1>1, <2>3 DEF Begin, At
  <2>4. ASSUME NEW v \in Workers,
               \/ AddRead(v) \/ AddCreate(v)
               \/ \E l \in Lessons : UpdateRead(v, l) \/ DeleteRead(v, l)
               \/ UpdateWrite(v) \/ DeleteRow(v) \/ Collect(v) \/ ReorderRead(v)
               \/ Park(v) \/ Number(v)
        PROVE  FALSE
    <3>1. CASE v # w
      BY <2>2, <2>4, <3>1
      DEF AddRead, AddCreate, UpdateRead, DeleteRead, UpdateWrite, DeleteRow,
          Collect, ReorderRead, Park, Number
    <3>2. CASE v = w
      BY <1>1, <2>3, <2>4, <3>2
      DEF AddRead, AddCreate, UpdateRead, DeleteRead, UpdateWrite, DeleteRow,
          Collect, ReorderRead, Park, Number, At
    <3> QED
      BY <3>1, <3>2
  <2>5. ASSUME NEW v \in Workers, SumMinutes(v) PROVE FALSE
    <3>1. v = w
      BY <2>2, <2>5 DEF SumMinutes
    <3>2. Minutes' = Minutes
      BY <2>5, SameNumbers DEF SumMinutes, Minutes
    <3>3. Minutes > 0
      BY <1>1, <3>2
    <3>5. CASE Set(w, [req[w] EXCEPT !.pc = "duration", !.count = Minutes])
      <4>1. [req[w] EXCEPT !.pc = "duration", !.count = Minutes].pc = "duration"
        BY <2>t DEF TypeOK, Request
      <4> QED
        BY <1>1, <2>t, <3>5, <4>1 DEF Set, At, TypeOK
    <3>6. \/ Set(w, [req[w] EXCEPT !.pc = "duration", !.count = Minutes])
          \/ Minutes = 0
      BY <2>5, <3>1 DEF SumMinutes
    <3> QED
      BY <3>3, <3>5, <3>6
  <2>6. ASSUME NEW v \in Workers, WriteDuration(v) PROVE duration' = Minutes'
    <3>1. v = w
      BY <2>2, <2>6 DEF WriteDuration
    <3>2. Minutes' = Minutes
      BY <2>6, SameNumbers DEF WriteDuration, Minutes
    <3> QED
      BY <2>1, <2>6, <3>1, <3>2 DEF WriteDuration, Prepared, At
  <2>7. ASSUME NEW v \in Workers, Crash(v) PROVE FALSE
    BY <1>1, <2>7 DEF Crash
  <2>8. CASE UNCHANGED vars
    BY <1>1, <2>8 DEF vars, At
  <2> QED
    BY <1>1, <2>4, <2>5, <2>6, <2>7, <2>8 DEF Next
<1>2. OrderInv /\ [Next]_vars =>
        [\A w \in alone :
            /\ orderly /\ req[w].pc \in {"minutes", "duration"} /\ At(w, "idle")'
            /\ Minutes' > 0
            => duration' = Minutes']_vars
  BY <1>1
<1> QED
  BY <1>2, InvHolds, PTL DEF Spec, DurationInStep

\* Whatever has gone before, a renumbering that has had the course to itself
\* and gets through leaves no gap (lms.service.ts:918-939).
THEOREM RenumberingHeals == Spec => RenumberingRepairs
<1>1. ASSUME OrderInv, [Next]_vars, NEW w \in alone, At(w, "number"),
             number' # number
      PROVE  Gapless'
  <2>t. TypeOK
    BY <1>1 DEF OrderInv, TypeInv
  <2>1. Busy = {w} /\ Prepared(w)
    BY <1>1, AloneKnows DEF At
  <2>2. \A v \in Workers : v # w => At(v, "idle")
    BY <2>1 DEF Busy, At
  <2>3. Number(w)
    BY <1>1, <2>2
    DEF Next, AddRead, AddCreate, UpdateRead, DeleteRead, UpdateWrite, DeleteRow,
        Collect, ReorderRead, Park, Number, SumMinutes, WriteDuration, Crash, At, vars
  <2> DEFINE o == req[w].order
  <2>4. o \in Orders
    BY <1>1, <2>1 DEF Prepared
  <2>5. number' = Renumbered(o, 1)
    BY <1>1, <2>3 DEF Number
  <2>6. /\ \A i \in 1..Cardinality(Stored) : number'[o[i]] = 1 * i
        /\ Stored' = Stored
    BY <2>t, <2>4, <2>5, RenumberedOrder
  <2>7. \A i \in 1..Cardinality(Stored) : 1 * i = i
    OBVIOUS
  <2> QED
    BY <2>4, <2>6, <2>7, NumberedRow
<1>2. OrderInv /\ [Next]_vars =>
        [\A w \in alone : At(w, "number") /\ number' # number => Gapless']_vars
  BY <1>1
<1> QED
  BY <1>2, InvHolds, PTL DEF Spec, RenumberingRepairs

-----------------------------------------------------------------------------
(* Orderly edits implement the list of LessonList.  Everything rests on    *)
(* one fact: a row of all lessons by ascending distance is the list, so    *)
(* that a step is understood by the row it leaves behind.                  *)

Ascending(o) == \A i, j \in DOMAIN o : i < j => Distance(o[i]) < Distance(o[j])

LEMMA Distances ==
    ASSUME TypeOK
    PROVE  /\ \A l \in Lessons : number[l] \in Int /\ Distance(l) \in Nat
           /\ Cardinality(Stored) \in Nat /\ Stored \subseteq Lessons
<1>1. \A l \in Lessons : number[l] \in Int
  BY LessonCount DEF TypeOK
<1>2. \A l \in Lessons : Distance(l) \in Nat
  BY <1>1 DEF Distance
<1> QED
  BY <1>1, <1>2, StoredType, LessonSets

\* In a row of all lessons by ascending distance, each stands at its place.
LEMMA PlaceInRow ==
    ASSUME TypeOK, NEW o \in Orders, Ascending(o), NEW i \in 1..Cardinality(Stored)
    PROVE  Place(o[i]) = i
<1> DEFINE T == {m \in Stored : Distance(m) <= Distance(o[i])}
           f == [j \in 1..i |-> o[j]]
<1>1. /\ o \in [1..Cardinality(Stored) -> Stored] /\ Cardinality(Stored) \in Nat
      /\ \A j, k \in 1..Cardinality(Stored) : o[j] = o[k] => j = k
      /\ \A l \in Stored : \E j \in 1..Cardinality(Stored) : o[j] = l
      /\ \A l \in Stored : Distance(l) \in Nat
  BY OrderOf, Distances
<1>2. \A j, k \in 1..Cardinality(Stored) : j < k => Distance(o[j]) < Distance(o[k])
  BY <1>1 DEF Ascending
<1>3. \A j \in 1..Cardinality(Stored) : j <= i <=> o[j] \in T
  BY <1>1, <1>2
<1> HIDE DEF T
<1>4. T \subseteq Stored
  BY DEF T
<1>5. f \in [1..i -> T] /\ \A j \in 1..i : f[j] = o[j]
  BY <1>1, <1>3
<1>6. \A l \in T : \E j \in 1..i : f[j] = l
  BY <1>1, <1>3, <1>4
<1>7. \A j, k \in 1..i : f[j] = f[k] => j = k
  BY <1>1
<1>8. f \in Bijection(1..i, T)
  BY <1>5, <1>6, <1>7 DEF Bijection, Injection, IsInjective, Surjection
<1>9. IsFiniteSet(1..i) /\ Cardinality(1..i) = i
  BY FS_Interval
<1>10. Cardinality(T) = i
  BY <1>8, <1>9, FS_Bijection DEF ExistsBijection
<1> QED
  BY <1>10 DEF Place, T

\* Such a row is the list.
LEMMA ListedRow ==
    ASSUME TypeOK, orderly, NEW o \in Orders, Ascending(o)
    PROVE  Listed = o
<1>1. /\ o \in [1..Cardinality(Stored) -> Stored]
      /\ \A l \in Stored : \E j \in 1..Cardinality(Stored) : o[j] = l
  BY OrderOf
<1>2. ASSUME NEW i \in 1..Cardinality(Stored)
      PROVE  (CHOOSE l \in Stored : Place(l) = i) = o[i]
  <2>1. o[i] \in Stored /\ Place(o[i]) = i
    BY <1>1, PlaceInRow
  <2>2. ASSUME NEW l \in Stored, Place(l) = i PROVE l = o[i]
    <3>1. PICK j \in 1..Cardinality(Stored) : o[j] = l
      BY <1>1
    <3> QED
      BY <2>2, <3>1, PlaceInRow
  <2> QED
    BY <2>1, <2>2
<1>3. o = [i \in 1..Cardinality(Stored) |-> o[i]]
  BY <1>1
<1> QED
  BY <1>2, <1>3 DEF Listed

\* A course without a gap has its row.
LEMMA GaplessRow ==
    ASSUME TypeOK, Gapless
    PROVE  \E o \in Orders : \A i \in 1..Cardinality(Stored) : number[o[i]] = i
<1> DEFINE N == Cardinality(Stored)
           o == [i \in 1..N |-> CHOOSE l \in Stored : number[l] = i]
           f == [l \in Stored |-> number[l]]
<1>1. N \in Nat /\ IsFiniteSet(Stored)
  BY StoredType, LessonSets
<1>2. f \in Surjection(Stored, 1..N)
  <2>1. \A l \in Stored : number[l] \in 1..N
    BY DEF Gapless
  <2>2. \A i \in 1..N : \E l \in Stored : number[l] = i
    BY DEF Gapless
  <2> QED
    BY <2>1, <2>2 DEF Surjection
<1>3. IsFiniteSet(1..N) /\ Cardinality(1..N) = N
  BY <1>1, FS_Interval
<1>4. f \in Injection(Stored, 1..N)
  BY <1>1, <1>2, <1>3, FS_Surjection
<1>5. \A l, m \in Stored : number[l] = number[m] => l = m
  BY <1>4 DEF Injection, IsInjective
<1>6. \A i \in 1..N : o[i] \in Stored /\ number[o[i]] = i
  BY DEF Gapless
<1>7. \A l \in Stored : number[l] \in 1..N
  BY DEF Gapless
<1>8. o \in [1..N -> Stored]
  BY <1>6
<1> HIDE DEF o, N
<1>9. \A i, j \in 1..N : o[i] = o[j] => i = j
  BY <1>6
<1>10. \A l \in Stored : \E i \in 1..N : o[i] = l
  BY <1>5, <1>6, <1>7
<1>11. o \in Orders
  BY <1>8, <1>9, <1>10
  DEF N, Orders, Bijection, Injection, IsInjective, Surjection
<1> QED
  BY <1>6, <1>11 DEF N


\* The numbers of the rows in order are ascending distances.
LEMMA CountedRow ==
    ASSUME TypeOK, NEW o \in Orders, NEW sign \in {-1, 1},
           \A i \in 1..Cardinality(Stored) : number[o[i]] = sign * i
    PROVE  Ascending(o)
<1>1. o \in [1..Cardinality(Stored) -> Stored]
  BY OrderOf
<1>2. \A i \in 1..Cardinality(Stored) : Distance(o[i]) = i
  BY <1>1, Distances DEF Distance
<1> QED
  BY <1>1, <1>2 DEF Ascending

\* What makes a list a row of a given number of lessons.
LEMMA MakesRow ==
    ASSUME NEW n \in Nat, NEW S, NEW o \in [1..n -> S], IsFiniteSet(S),
           \A i, j \in 1..n : o[i] = o[j] => i = j,
           \A l \in S : \E i \in 1..n : o[i] = l
    PROVE  Cardinality(S) = n /\ o \in Bijection(1..Cardinality(S), S)
<1>1. o \in Bijection(1..n, S)
  BY DEF Bijection, Injection, IsInjective, Surjection
<1>2. IsFiniteSet(1..n) /\ Cardinality(1..n) = n
  BY FS_Interval
<1>3. Cardinality(S) = n
  BY <1>1, <1>2, FS_Bijection DEF ExistsBijection
<1> QED
  BY <1>1, <1>3

\* A row of lessons is a sequence.
LEMMA RowIsSequence ==
    ASSUME NEW o \in Orders, TypeOK
    PROVE  /\ o \in Seq(Lessons) /\ Len(o) = Cardinality(Stored)
           /\ DOMAIN o = 1..Cardinality(Stored)
<1>1. o \in [1..Cardinality(Stored) -> Lessons] /\ Cardinality(Stored) \in Nat
  BY OrderOf, Distances
<1>2. o \in Seq(Lessons)
  BY <1>1, SeqDef
<1> QED
  BY <1>1, <1>2, LenProperties

\* A lesson with the next number goes to the end of the row.
LEMMA AppendedRow ==
    ASSUME TypeOK, TypeOK', Gapless, NEW o \in Orders, Ascending(o),
           NEW l \in Lessons \ Stored,
           number' = [number EXCEPT ![l] = Cardinality(Stored) + 1]
    PROVE  Append(o, l) \in Orders' /\ Ascending(Append(o, l))'
<1> DEFINE N == Cardinality(Stored)
           p == Append(o, l)
<1>1. /\ o \in [1..N -> Stored] /\ N \in Nat
      /\ \A i, j \in 1..N : o[i] = o[j] => i = j
      /\ \A m \in Stored : \E i \in 1..N : o[i] = m
      /\ o \in Seq(Lessons) /\ Len(o) = N
      /\ Stored \subseteq Lessons
  BY OrderOf, Distances, RowIsSequence
<1>2. /\ p \in Seq(Lessons) /\ Len(p) = N + 1
      /\ \A i \in 1..N : p[i] = o[i]
      /\ p[N + 1] = l
  BY <1>1, AppendProperties
<1>3. /\ number'[l] = N + 1
      /\ \A m \in Lessons : m # l => number'[m] = number[m]
  BY <1>1 DEF TypeOK
<1>4. Stored' = Stored \cup {l}
  <2>1. number'[l] # 0
    BY <1>1, <1>3
  <2> QED
    BY <1>3, <2>1 DEF Stored
<1> HIDE DEF N, p
<1>5. p \in [1..(N + 1) -> Stored']
  <2>1. p \in [1..(N + 1) -> Lessons]
    BY <1>2, LenProperties
  <2>2. \A i \in 1..(N + 1) : p[i] \in Stored'
    BY <1>1, <1>2, <1>4
  <2> QED
    BY <2>1, <2>2
<1>6. /\ \A i, j \in 1..(N + 1) : p[i] = p[j] => i = j
      /\ \A m \in Stored' : \E i \in 1..(N + 1) : p[i] = m
  <2>1. \A i \in 1..(N + 1) : i \in 1..N \/ i = N + 1
    BY <1>1
  <2>2. \A i \in 1..N : p[i] \in Stored /\ p[i] # l /\ i \in 1..(N + 1)
    BY <1>1, <1>2
  <2>3. N + 1 \in 1..(N + 1)
    BY <1>1
  <2> QED
    BY <1>1, <1>2, <1>4, <2>1, <2>2, <2>3
<1>7. IsFiniteSet(Stored')
  BY <1>1, <1>4, LessonSets
<1>8. p \in Orders'
  <2>1. N + 1 \in Nat
    BY <1>1
  <2> QED
    BY <1>5, <1>6, <1>7, <2>1, MakesRow DEF Orders
<1>9. Ascending(p)'
  <2>1. \A i \in 1..N : Distance(p[i])' = Distance(o[i]) /\ Distance(o[i]) \in Nat
    <3>1. \A i \in 1..N : p[i] \in Stored /\ p[i] # l /\ p[i] = o[i]
      BY <1>1, <1>2
    <3> QED
      BY <1>1, <1>3, <3>1, Distances DEF Distance
  <2>2. Distance(l)' = N + 1
    BY <1>1, <1>3 DEF Distance
  <2>3. \A i \in 1..N : Distance(o[i]) <= N
    <3>1. \A m \in Stored : number[m] \in 1..N
      BY DEF Gapless, N
    <3> QED
      BY <1>1, <3>1 DEF Distance
  <2>4. DOMAIN p = 1..(N + 1)
    BY <1>5
  <2>5. \A i, j \in 1..N : i < j => Distance(o[i]) < Distance(o[j])
    BY <1>1 DEF Ascending
  <2> SUFFICES ASSUME NEW i \in 1..(N + 1), NEW j \in 1..(N + 1), i < j
               PROVE  Distance(p[i])' < Distance(p[j])'
    BY <2>4 DEF Ascending
  <2>6. i \in 1..N
    BY <1>1
  <2>7. CASE j \in 1..N
    BY <2>1, <2>5, <2>6, <2>7
  <2>8. CASE j = N + 1
    <3>1. p[j] = l
      BY <1>2, <2>8
    <3>2. Distance(p[i])' <= N /\ Distance(p[i])' \in Nat
      BY <2>1, <2>3, <2>6
    <3> QED
      BY <1>1, <2>2, <3>1, <3>2
  <2> QED
    BY <1>1, <2>7, <2>8
<1> QED
  BY <1>8, <1>9 DEF p

\* A deleted lesson leaves the others in their order.
LEMMA RemovedRow ==
    ASSUME TypeOK, TypeOK', NEW o \in Orders, Ascending(o),
           NEW k \in 1..Cardinality(Stored), NEW p,
           p = SubSeq(o, 1, k - 1) \o SubSeq(o, k + 1, Len(o)),
           number' = [number EXCEPT ![o[k]] = 0]
    PROVE  p \in Orders' /\ Ascending(p)'
<1> DEFINE N == Cardinality(Stored)
           from(i) == IF i < k THEN i ELSE i + 1
<1>1. /\ o \in [1..N -> Stored] /\ N \in Nat /\ k \in 1..N
      /\ \A i, j \in 1..N : o[i] = o[j] => i = j
      /\ \A m \in Stored : \E i \in 1..N : o[i] = m
      /\ o \in Seq(Lessons) /\ Len(o) = N
      /\ Stored \subseteq Lessons
  BY OrderOf, Distances, RowIsSequence
<1>2. /\ number'[o[k]] = 0
      /\ \A m \in Lessons : m # o[k] => number'[m] = number[m]
  BY <1>1 DEF TypeOK
<1>3. Stored' = Stored \ {o[k]}
  BY <1>1, <1>2 DEF Stored
<1> HIDE DEF N
<1>4. /\ p \in Seq(Lessons) /\ Len(p) = N - 1
      /\ \A i \in 1..(N - 1) : p[i] = o[from(i)]
  <2> DEFINE a == SubSeq(o, 1, k - 1)
             b == SubSeq(o, k + 1, N)
  <2>0. \A i \in 1..N : o[i] \in Lessons
    BY <1>1
  <2>1. /\ a \in Seq(Lessons) /\ Len(a) = k - 1
        /\ \A i \in 1..(k - 1) : a[i] = o[i]
    <3>1. /\ 1 \in Int /\ k - 1 \in Int /\ \A i \in 1..(k - 1) : o[i] \in Lessons
          /\ (IF 1 <= k - 1 THEN k - 1 - 1 + 1 ELSE 0) = k - 1
          /\ k - 1 - 1 + 1 = k - 1
      BY <1>1, <2>0
    <3>2. /\ a \in Seq(Lessons)
          /\ Len(a) = (IF 1 <= k - 1 THEN k - 1 - 1 + 1 ELSE 0)
          /\ \A i \in 1..(k - 1 - 1 + 1) : a[i] = o[1 + i - 1]
      BY <3>1, SubSeqProperties
    <3>3. \A i \in 1..(k - 1) : 1 + i - 1 = i
      OBVIOUS
    <3> QED
      BY <3>1, <3>2, <3>3
  <2>2. /\ b \in Seq(Lessons) /\ Len(b) = N - k
        /\ \A i \in 1..(N - k) : b[i] = o[k + i]
    <3>1. /\ k + 1 \in Int /\ N \in Int /\ \A i \in (k + 1)..N : o[i] \in Lessons
          /\ (IF k + 1 <= N THEN N - (k + 1) + 1 ELSE 0) = N - k
          /\ N - (k + 1) + 1 = N - k
      BY <1>1, <2>0
    <3>2. /\ b \in Seq(Lessons)
          /\ Len(b) = (IF k + 1 <= N THEN N - (k + 1) + 1 ELSE 0)
          /\ \A i \in 1..(N - (k + 1) + 1) : b[i] = o[k + 1 + i - 1]
      BY <3>1, SubSeqProperties
    <3>3. \A i \in 1..(N - k) : k + 1 + i - 1 = k + i
      BY <1>1
    <3> QED
      BY <3>1, <3>2, <3>3
  <2> HIDE DEF a, b
  <2>3. /\ a \o b \in Seq(Lessons) /\ Len(a \o b) = Len(a) + Len(b)
        /\ \A i \in 1..(Len(a) + Len(b)) :
              (a \o b)[i] = IF i <= Len(a) THEN a[i] ELSE b[i - Len(a)]
    BY <2>1, <2>2, ConcatProperties
  <2>4. p = a \o b /\ Len(a) + Len(b) = N - 1
    BY <1>1, <2>1, <2>2 DEF a, b
  <2>5. ASSUME NEW i \in 1..(N - 1) PROVE p[i] = o[from(i)]
    <3>1. CASE i < k
      BY <1>1, <2>1, <2>3, <2>4, <3>1
    <3>2. CASE ~(i < k)
      <4>1. i - (k - 1) \in 1..(N - k) /\ k + (i - (k - 1)) = i + 1 /\ ~(i <= k - 1)
        BY <1>1, <3>2
      <4>2. p[i] = b[i - (k - 1)]
        BY <2>1, <2>3, <2>4, <4>1
      <4> QED
        BY <2>2, <3>2, <4>1, <4>2
    <3> QED
      BY <3>1, <3>2
  <2> QED
    BY <2>3, <2>4, <2>5
<1>5. /\ \A i \in 1..(N - 1) : from(i) \in 1..N /\ from(i) # k
      /\ \A i, j \in 1..(N - 1) : i < j <=> from(i) < from(j)
      /\ \A i \in 1..N : i # k => \E j \in 1..(N - 1) : from(j) = i
  <2>1. \A i \in 1..(N - 1) : from(i) \in 1..N /\ from(i) # k
    BY <1>1
  <2>2. \A i, j \in 1..(N - 1) : i < j <=> from(i) < from(j)
    BY <1>1
  <2>3. ASSUME NEW i \in 1..N, i # k PROVE \E j \in 1..(N - 1) : from(j) = i
    <3>1. CASE i < k
      <4>1. i \in 1..(N - 1) /\ from(i) = i
        BY <1>1, <3>1
      <4> QED
        BY <4>1
    <3>2. CASE i > k
      <4>1. i - 1 \in 1..(N - 1) /\ from(i - 1) = i
        BY <1>1, <3>2
      <4> QED
        BY <4>1
    <3> QED
      BY <1>1, <2>3, <3>1, <3>2
  <2> QED
    BY <2>1, <2>2, <2>3
<1> HIDE DEF from
<1>6. p \in [1..(N - 1) -> Stored'] /\ N - 1 \in Nat
  <2>1. N - 1 \in Nat
    BY <1>1
  <2>2. p \in [1..Len(p) -> Lessons]
    BY <1>4, LenProperties
  <2>3. ASSUME NEW i \in 1..(N - 1) PROVE p[i] \in Stored'
    <3>1. from(i) \in 1..N /\ from(i) # k
      BY <1>5
    <3>2. o[from(i)] \in Stored /\ o[from(i)] # o[k]
      BY <1>1, <3>1
    <3> QED
      BY <1>3, <1>4, <3>2
  <2>4. Len(p) = N - 1
    BY <1>4
  <2> QED
    BY <2>1, <2>2, <2>3, <2>4
<1>7. \A i, j \in 1..(N - 1) : p[i] = p[j] => i = j
  <2> SUFFICES ASSUME NEW i \in 1..(N - 1), NEW j \in 1..(N - 1), p[i] = p[j]
               PROVE  i = j
    OBVIOUS
  <2>0. from(i) \in 1..N /\ from(j) \in 1..N
    BY <1>5
  <2>1. from(i) = from(j)
    BY <1>1, <1>4, <2>0
  <2> QED
    BY <1>1, <1>5, <2>1
<1>8. ASSUME NEW m \in Stored' PROVE \E i \in 1..(N - 1) : p[i] = m
  <2>1. m \in Stored /\ m # o[k]
    BY <1>3
  <2>2. PICK i \in 1..N : o[i] = m
    BY <1>1, <2>1
  <2>3. PICK j \in 1..(N - 1) : from(j) = i
    BY <1>5, <2>1, <2>2
  <2> QED
    BY <1>4, <2>2, <2>3
<1>9. IsFiniteSet(Stored')
  BY <1>1, <1>3, LessonSets
<1>10. p \in Orders'
  BY <1>6, <1>7, <1>8, <1>9, MakesRow DEF Orders
<1>11. Ascending(p)'
  <2>1. ASSUME NEW i \in 1..(N - 1)
        PROVE  p[i] = o[from(i)] /\ number'[o[from(i)]] = number[o[from(i)]]
    <3>1. from(i) \in 1..N /\ from(i) # k
      BY <1>5
    <3>2. o[from(i)] \in Lessons /\ o[from(i)] # o[k]
      BY <1>1, <3>1
    <3> QED
      BY <1>2, <1>4, <3>2
  <2>2. \A i, j \in 1..N : i < j => Distance(o[i]) < Distance(o[j])
    BY <1>1 DEF Ascending
  <2>3. DOMAIN p = 1..(N - 1)
    BY <1>6
  <2> SUFFICES ASSUME NEW i \in 1..(N - 1), NEW j \in 1..(N - 1), i < j
               PROVE  Distance(p[i])' < Distance(p[j])'
    BY <2>3 DEF Ascending
  <2>4. PICK m, q : m = o[from(i)] /\ q = o[from(j)]
    OBVIOUS
  <2>5. Distance(m) < Distance(q)
    <3>1. from(i) \in 1..N /\ from(j) \in 1..N /\ from(i) < from(j)
      BY <1>5
    <3> QED
      BY <2>2, <2>4, <3>1
  <2>6. m = o[from(i)] /\ q = o[from(j)]
    BY <2>4
  <2>7. p[i] = m /\ number'[m] = number[m]
    BY <2>1, <2>6
  <2>8. p[j] = q /\ number'[q] = number[q]
    BY <2>1, <2>6
  <2> QED
    BY <2>5, <2>7, <2>8 DEF Distance
<1> QED
  BY <1>10, <1>11

\* A transaction that renumbers a row of all lessons makes it the list.
LEMMA RenumberedRow ==
    ASSUME TypeOK, TypeOK', NEW o \in Orders, NEW sign \in {-1, 1},
           number' = Renumbered(o, sign)
    PROVE  o \in Orders' /\ Ascending(o)'
<1>1. /\ \A i \in 1..Cardinality(Stored) : number'[o[i]] = sign * i
      /\ Stored' = Stored
  BY RenumberedOrder
<1>2. o \in [1..Cardinality(Stored) -> Stored] /\ Stored \subseteq Lessons
  BY OrderOf, Distances
<1>3. o \in Orders'
  BY <1>1 DEF Orders
<1>4. \A i \in 1..Cardinality(Stored) : Distance(o[i])' = i
  BY <1>1, <1>2 DEF Distance
<1>5. Ascending(o)'
  BY <1>2, <1>4 DEF Ascending
<1> QED
  BY <1>3, <1>5

-----------------------------------------------------------------------------
(* Edits that wait for each other keep the list: there is a row of the     *)
(* lessons by ascending distance, and the deletion under way renumbers     *)
(* them in that order.                                                     *)

RowInv(w) ==
    /\ At(w, "delete") \/ At(w, "collect") => req[w].lesson \in Lessons
    /\ At(w, "park") =>
          /\ req[w].lesson = NoLesson => req[w].order # << >>
          /\ req[w].lesson # NoLesson => Ascending(req[w].order)

ListInv ==
    orderly => /\ \E o \in Orders : Ascending(o)
               /\ \A w \in Workers : RowInv(w)

\* The order that the request at work, if it is a reorder, is to carry out.
Asked(q) == IF q.pc = "park" /\ q.lesson = NoLesson THEN q.order ELSE << >>

LEMMA NoOrderAsked ==
    ASSUME Busy = {}
    PROVE  Wanted = << >>
BY DEF Busy, Wanted, At

LEMMA ListInit == Init => ListInv /\ List!Init
<1> SUFFICES ASSUME Init PROVE ListInv /\ List!Init
  OBVIOUS
<1>1. TypeOK /\ Gapless
  BY TypeInit DEF TypeInv, Init, Gapless
<1>2. PICK o \in Orders : \A i \in 1..Cardinality(Stored) : number[o[i]] = 1 * i
  BY <1>1, GaplessRow
<1>3. Ascending(o)
  BY <1>1, <1>2, CountedRow
<1>4. \A w \in Workers : req[w].pc = "idle"
  BY DEF Init, Idle
<1>5. ListInv
  BY <1>3, <1>4 DEF ListInv, RowInv, At
<1>6. Wanted = << >>
  BY <1>4, NoOrderAsked DEF Busy
<1>7. CASE orderly
  <2>1. Listed = o
    BY <1>1, <1>3, <1>7, ListedRow
  <2>2. /\ o \in [1..Cardinality(Stored) -> Stored] /\ Stored \subseteq Lessons
        /\ \A i, j \in 1..Cardinality(Stored) : o[i] = o[j] => i = j
    BY <1>1, OrderOf, Distances
  <2> QED
    BY <1>6, <2>1, <2>2, <1>5 DEF List!Init, List!Members
<1>8. CASE ~orderly
  BY <1>5, <1>6, <1>8 DEF List!Init, List!Members, Listed
<1> QED
  BY <1>7, <1>8

\* The same, of any state, and so of the one a step leads to.
LEMMA ListedNext ==
    (\A o : TypeOK /\ orderly /\ o \in Orders /\ Ascending(o) => Listed = o)'
<1> DEFINE Rows == \A o : TypeOK /\ orderly /\ o \in Orders /\ Ascending(o) => Listed = o
<1>1. Rows
  BY ListedRow
<1> HIDE DEF Rows
<1>2. Rows'
  BY <1>1, PTL
<1> QED
  BY <1>2 DEF Rows

LEMMA SameRow ==
    ASSUME number' = number, NEW o \in Orders, Ascending(o)
    PROVE  o \in Orders' /\ Ascending(o)'
<1>1. Orders' = Orders
  BY SameNumbers
<1>2. \A l : Distance(l)' = Distance(l)
  BY DEF Distance
<1> QED
  BY <1>1, <1>2 DEF Ascending

\* A step of the only request at work.
LEMMA AtWork ==
    ASSUME TypeOK, orderly, orderly' = orderly, NEW w \in Workers, NEW value,
           Busy \subseteq {w}, req' = [req EXCEPT ![w] = value]
    PROVE  /\ Wanted = Asked(req[w]) /\ Wanted' = Asked(value)
           /\ req'[w] = value
           /\ \A v \in Workers : v # w => RowInv(v)'
<1>1. /\ \A v \in Workers : v # w => req[v].pc = "idle" /\ req'[v].pc = "idle"
      /\ req'[w] = value
  BY DEF Busy, TypeOK
<1>2. Wanted = Asked(req[w])
  <2> DEFINE asked == {v \in Workers : At(v, "park") /\ req[v].lesson = NoLesson}
  <2>1. CASE req[w].pc = "park" /\ req[w].lesson = NoLesson
    <3>1. asked = {w}
      BY <1>1, <2>1 DEF At
    <3>2. (CHOOSE v \in asked : TRUE) = w
      BY <3>1
    <3> HIDE DEF asked
    <3> QED
      BY <2>1, <3>1, <3>2 DEF Wanted, Asked, asked
  <2>2. CASE ~(req[w].pc = "park" /\ req[w].lesson = NoLesson)
    <3>1. asked = {}
      BY <1>1, <2>2 DEF At
    <3> QED
      BY <2>2, <3>1 DEF Wanted, Asked
  <2> QED
    BY <2>1, <2>2
<1>3. Wanted' = Asked(value)
  <2> DEFINE asked == {v \in Workers : req'[v].pc = "park" /\ req'[v].lesson = NoLesson}
  <2>0. Wanted' = IF asked # {} THEN req'[CHOOSE v \in asked : TRUE].order ELSE << >>
    BY DEF Wanted, At
  <2>1. CASE value.pc = "park" /\ value.lesson = NoLesson
    <3>1. asked = {w}
      BY <1>1, <2>1
    <3>2. (CHOOSE v \in asked : TRUE) = w
      BY <3>1
    <3> HIDE DEF asked
    <3> QED
      BY <1>1, <2>0, <2>1, <3>1, <3>2 DEF Asked
  <2>2. CASE ~(value.pc = "park" /\ value.lesson = NoLesson)
    <3>1. asked = {}
      BY <1>1, <2>2
    <3> QED
      BY <2>0, <2>2, <3>1 DEF Asked
  <2> QED
    BY <2>1, <2>2
<1>4. \A v \in Workers : v # w => RowInv(v)'
  BY <1>1 DEF RowInv, At
<1> QED
  BY <1>1, <1>2, <1>3, <1>4

\* A step that leaves the numbers and asks for no order is none of the list's.
LEMMA Unlisted ==
    ASSUME TypeOK, TypeOK', ListInv, orderly, NEW w \in Workers, NEW value,
           Busy \subseteq {w}, req' = [req EXCEPT ![w] = value],
           orderly' = orderly, number' = number,
           Asked(req[w]) = Asked(value), RowInv(w)'
    PROVE  ListInv' /\ UNCHANGED <<Listed, Wanted>>
<1>1. Wanted' = Wanted /\ \A v \in Workers : v # w => RowInv(v)'
  BY AtWork
<1>2. PICK o \in Orders : Ascending(o)
  BY DEF ListInv
<1>3. o \in Orders' /\ Ascending(o)'
  BY <1>2, SameRow
<1>4. Listed = o /\ Listed' = o
  BY <1>2, <1>3, ListedRow, ListedNext
<1> QED
  BY <1>1, <1>3, <1>4 DEF ListInv

\* An order that stands in the table after a step is the list after it.
LEMMA Relisted ==
    ASSUME TypeOK', orderly', NEW o, o \in Orders', Ascending(o)',
           \A v \in Workers : RowInv(v)'
    PROVE  ListInv' /\ Listed' = o
<1>1. Listed' = o
  BY ListedNext
<1> QED
  BY <1>1 DEF ListInv

\* Every step of orderly edits is one of the list, or none; in a behaviour that
\* is not orderly the list stays empty.
LEMMA ListStep ==
    OrderInv /\ ListInv /\ [Next]_vars => ListInv' /\ [List!Next]_<<Listed, Wanted>>
<1> SUFFICES ASSUME OrderInv, ListInv, [Next]_vars
             PROVE  ListInv' /\ [List!Next]_<<Listed, Wanted>>
  OBVIOUS
<1>t. TypeOK /\ TypeOK' /\ TypeInv
  BY TypeStep DEF OrderInv, TypeInv
<1>i. Idle \in Request /\ Idle.pc = "idle" /\ Idle.lesson = NoLesson /\ Idle.order = << >>
  BY IdleType DEF Idle
<1>o. orderly' = orderly
  BY DEF Next, AddRead, AddCreate, UpdateRead, DeleteRead, UpdateWrite, DeleteRow,
         Collect, ReorderRead, Park, Number, SumMinutes, WriteDuration, Crash, vars
<1>n. CASE ~orderly
  BY <1>o, <1>n DEF ListInv, Listed, Wanted
<1>y. CASE orderly
  <2> USE <1>y
  <2>o. PICK o \in Orders : Ascending(o)
    BY DEF ListInv
  <2>l. /\ Listed = o
        /\ o \in Seq(Lessons) /\ Len(o) = Cardinality(Stored)
        /\ DOMAIN o = 1..Cardinality(Stored)
        /\ List!Members(o) = Stored
    <3>1. o \in [1..Cardinality(Stored) -> Stored]
          /\ \A l \in Stored : \E i \in 1..Cardinality(Stored) : o[i] = l
      BY OrderOf
    <3>2. List!Members(o) = Stored
      BY <3>1 DEF List!Members
    <3> QED
      BY <1>t, <2>o, <3>2, ListedRow, RowIsSequence
  <2> DEFINE Fine == ListInv' /\ [List!Next]_<<Listed, Wanted>>
  \* A request that begins with anything but a reorder.
  <2>b. ASSUME NEW w \in Workers, NEW value, Begin(w, value), number' = number,
               value.pc # "park",
               value.pc \in {"delete", "collect"} => value.lesson \in Lessons
        PROVE  Fine
    <3>1. Busy = {} /\ req' = [req EXCEPT ![w] = value] /\ At(w, "idle")
      BY <2>b, BeginsAlone DEF Begin
    <3>2. Asked(req[w]) = Asked(value) /\ req'[w] = value
      BY <1>t, <2>b, <3>1 DEF Asked, At, TypeOK
    <3>3. RowInv(w)'
      BY <2>b, <3>2 DEF RowInv, At
    <3> QED
      BY <1>o, <1>t, <2>b, <3>1, <3>2, <3>3, Unlisted
  \* A request that goes on without touching the numbers.
  <2>s. ASSUME NEW w \in Workers, NEW value, ~At(w, "idle"), Set(w, value),
               number' = number, ~At(w, "park"), value.pc # "park",
               value.pc \in {"delete", "collect"} => value.lesson \in Lessons
        PROVE  Fine
    <3>1. Busy = {w} /\ req' = [req EXCEPT ![w] = value]
      BY <2>s, OrderlyKnows DEF Set
    <3>2. Asked(req[w]) = Asked(value) /\ req'[w] = value
      BY <1>t, <2>s, <3>1 DEF Asked, At, TypeOK
    <3>3. RowInv(w)'
      BY <2>s, <3>2 DEF RowInv, At
    <3> QED
      BY <1>o, <1>t, <2>s, <3>1, <3>2, <3>3, Unlisted
  <2>1. ASSUME NEW w \in Workers, AddRead(w) PROVE Fine
    <3> DEFINE value == [Idle EXCEPT !.pc = "create", !.count = Cardinality(Stored)]
    <3>1. Begin(w, value) /\ number' = number
      BY <2>1 DEF AddRead
    <3>2. value.pc = "create"
      BY DEF Idle
    <3> HIDE DEF value
    <3> QED
      BY <2>b, <3>1, <3>2
  <2>2. ASSUME NEW w \in Workers, AddCreate(w) PROVE Fine
    <3>1. At(w, "create") /\ ~At(w, "idle")
      BY <2>2 DEF AddCreate, At
    <3>2. CASE Set(w, Idle) /\ UNCHANGED number
      BY <1>i, <2>s, <3>1, <3>2 DEF At
    <3>3. CASE ~(Set(w, Idle) /\ UNCHANGED number)
      <4> DEFINE value == [Idle EXCEPT !.pc = "minutes"]
      <4>1. Gapless /\ req[w].count = Cardinality(Stored) /\ Busy = {w}
        BY <3>1, OrderlySteady, OrderlyKnows DEF Prepared, At
      <4>2. PICK l \in Fresh : number' = [number EXCEPT ![l] = req[w].count + 1]
        BY <2>2, <3>3 DEF AddCreate
      <4>3. l \in Lessons \ Stored
        BY DEF Fresh
      <4>4. Append(o, l) \in Orders' /\ Ascending(Append(o, l))'
        BY <1>t, <2>o, <4>1, <4>2, <4>3, AppendedRow
      <4>5. Set(w, value)
        BY <2>2, <3>3 DEF AddCreate
      <4>6. value.pc = "minutes"
        BY DEF Idle
      <4> HIDE DEF value
      <4>7. /\ req' = [req EXCEPT ![w] = value]
            /\ Asked(req[w]) = << >> /\ Asked(value) = << >>
        BY <3>1, <4>5, <4>6 DEF Set, Asked, At
      <4>8. /\ Wanted = << >> /\ Wanted' = << >> /\ req'[w] = value
            /\ \A v \in Workers : v # w => RowInv(v)'
        BY <1>o, <1>t, <4>1, <4>7, AtWork
      <4>9. RowInv(w)'
        BY <4>6, <4>8 DEF RowInv, At
      <4>10. ListInv' /\ Listed' = Append(o, l)
        BY <1>o, <1>t, <4>4, <4>8, <4>9, Relisted
      <4>11. List!Add(l)
        BY <2>l, <4>3, <4>8, <4>10 DEF List!Add
      <4> QED
        BY <4>3, <4>10, <4>11 DEF List!Next
    <3> QED
      BY <3>2, <3>3
  <2>3. ASSUME NEW w \in Workers, NEW l \in Lessons, UpdateRead(w, l) \/ DeleteRead(w, l)
        PROVE  Fine
    <3>1. PICK pc \in {"update", "delete"} :
             Begin(w, [Idle EXCEPT !.pc = pc, !.lesson = l])
      BY <2>3 DEF UpdateRead, DeleteRead
    <3> DEFINE value == [Idle EXCEPT !.pc = pc, !.lesson = l]
    <3>2. number' = number /\ value.pc = pc /\ value.lesson = l
      BY <2>3 DEF UpdateRead, DeleteRead, Idle
    <3> HIDE DEF value
    <3> QED
      BY <2>b, <3>1, <3>2 DEF value
  <2>4. ASSUME NEW w \in Workers, UpdateWrite(w) PROVE Fine
    <3>1. At(w, "update") /\ ~At(w, "idle") /\ ~At(w, "park") /\ number' = number
      BY <2>4 DEF UpdateWrite, At
    <3>2. CASE Set(w, Idle)
      BY <1>i, <2>s, <3>1, <3>2
    <3>3. CASE Set(w, [Idle EXCEPT !.pc = "minutes"])
      <4>1. [Idle EXCEPT !.pc = "minutes"].pc = "minutes"
        BY DEF Idle
      <4> QED
        BY <2>s, <3>1, <3>3, <4>1
    <3> QED
      BY <2>4, <3>2, <3>3 DEF UpdateWrite
  <2>5. ASSUME NEW w \in Workers, DeleteRow(w) PROVE Fine
    <3>1. At(w, "delete") /\ ~At(w, "idle") /\ ~At(w, "park")
      BY <2>5 DEF DeleteRow, At
    <3>2. CASE Set(w, Idle) /\ UNCHANGED number
      BY <1>i, <2>s, <3>1, <3>2
    <3>3. CASE ~(Set(w, Idle) /\ UNCHANGED number)
      <4> DEFINE value == [req[w] EXCEPT !.pc = "collect"]
                 l == req[w].lesson
      <4>1. /\ l \in Stored /\ number' = [number EXCEPT ![l] = 0] /\ Set(w, value)
        BY <2>5, <3>3 DEF DeleteRow
      <4>2. value.pc = "collect" /\ value.lesson = l
        BY <1>t DEF TypeOK, Request
      <4>3. PICK k \in 1..Cardinality(Stored) : o[k] = l
        BY <2>l, <4>1 DEF List!Members
      <4>4. PICK p : p = SubSeq(o, 1, k - 1) \o SubSeq(o, k + 1, Len(o))
        OBVIOUS
      <4>5. p \in Orders' /\ Ascending(p)'
        BY <1>t, <2>o, <4>1, <4>3, <4>4, RemovedRow
      <4>6. Busy = {w} /\ req' = [req EXCEPT ![w] = value]
        BY <3>1, <4>1, OrderlyKnows DEF Set
      <4> HIDE DEF value
      <4>7. Asked(req[w]) = << >> /\ Asked(value) = << >>
        BY <3>1, <4>2 DEF Asked, At
      <4>8. /\ Wanted = << >> /\ Wanted' = << >> /\ req'[w] = value
            /\ \A v \in Workers : v # w => RowInv(v)'
        BY <1>o, <1>t, <4>6, <4>7, AtWork
      <4>9. l \in Lessons
        BY <4>1, StoredType
      <4>10. RowInv(w)'
        BY <4>2, <4>8, <4>9 DEF RowInv, At
      <4>11. ListInv' /\ Listed' = p
        BY <1>o, <1>t, <4>5, <4>8, <4>10, Relisted
      <4>12. List!Delete(l)
        BY <2>l, <4>1, <4>3, <4>4, <4>8, <4>11 DEF List!Delete
      <4> QED
        BY <4>9, <4>11, <4>12 DEF List!Next
    <3> QED
      BY <3>2, <3>3
  <2>6. ASSUME NEW w \in Workers, Collect(w) PROVE Fine
    <3>1. At(w, "collect") /\ ~At(w, "idle") /\ number' = number
      BY <2>6 DEF Collect, At
    <3>2. PICK p \in Orders :
             /\ \A i, j \in DOMAIN p : i < j => number[p[i]] < number[p[j]]
             /\ Set(w, [req[w] EXCEPT !.pc = "park", !.order = p])
      BY <2>6 DEF Collect
    <3> DEFINE value == [req[w] EXCEPT !.pc = "park", !.order = p]
    <3>3. value.pc = "park" /\ value.order = p /\ value.lesson = req[w].lesson
      BY <1>t DEF TypeOK, Request
    <3>4. Busy = {w} /\ req' = [req EXCEPT ![w] = value] /\ req'[w] = value
      BY <1>t, <3>1, <3>2, OrderlyKnows DEF Set, TypeOK
    <3> HIDE DEF value
    <3>5. req[w].lesson # NoLesson
      BY <3>1, OrderAssumption DEF ListInv, RowInv
    <3>6. Ascending(p)
      <4>1. Positive
        BY <3>1 DEF OrderInv, OrderlyInv, At
      <4>2. \A i \in DOMAIN p : p[i] \in Stored
        BY OrderOf
      <4>3. \A l \in Stored : Distance(l) = number[l]
        BY <1>t, <4>1, Distances DEF Positive, Distance
      <4> QED
        BY <3>2, <4>2, <4>3 DEF Ascending
    <3>7. Ascending(p)'
      BY <3>1, <3>6, SameRow
    <3>8. RowInv(w)'
      BY <3>3, <3>4, <3>5, <3>7 DEF RowInv, At
    <3>9. Asked(req[w]) = Asked(value)
      BY <3>1, <3>3, <3>5 DEF Asked, At
    <3> QED
      BY <1>o, <1>t, <3>1, <3>4, <3>8, <3>9, Unlisted
  <2>7. ASSUME NEW w \in Workers, ReorderRead(w) PROVE Fine
    <3>1. PICK p \in Orders \ {<< >>} : Begin(w, [Idle EXCEPT !.pc = "park", !.order = p])
      BY <2>7 DEF ReorderRead
    <3> DEFINE value == [Idle EXCEPT !.pc = "park", !.order = p]
    <3>2. number' = number /\ value.pc = "park" /\ value.order = p /\ value.lesson = NoLesson
      BY <2>7 DEF ReorderRead, Idle
    <3>3. Busy = {} /\ req' = [req EXCEPT ![w] = value] /\ At(w, "idle")
      BY <3>1, BeginsAlone DEF Begin
    <3> HIDE DEF value
    <3>4. Asked(req[w]) = << >> /\ Asked(value) = p
      BY <3>2, <3>3 DEF Asked, At
    <3>5. /\ Wanted = << >> /\ Wanted' = p /\ req'[w] = value
          /\ \A v \in Workers : v # w => RowInv(v)'
      BY <1>o, <1>t, <3>3, <3>4, AtWork
    <3>6. RowInv(w)'
      BY <3>1, <3>2, <3>5 DEF RowInv, At
    <3>7. o \in Orders' /\ Ascending(o)'
      BY <2>o, <3>2, SameRow
    <3>8. ListInv' /\ Listed' = o
      BY <1>o, <1>t, <3>5, <3>6, <3>7, Relisted
    <3>9. List!Members(p) = Stored /\ Len(p) = Cardinality(Stored)
      <4>1. p \in [1..Cardinality(Stored) -> Stored]
            /\ \A l \in Stored : \E i \in 1..Cardinality(Stored) : p[i] = l
        BY OrderOf
      <4> QED
        BY <1>t, <4>1, RowIsSequence DEF List!Members
    <3>10. List!Ask
      BY <2>l, <3>5, <3>8, <3>9 DEF List!Ask
    <3> QED
      BY <3>8, <3>10 DEF List!Next
  <2>8. ASSUME NEW w \in Workers, Park(w) PROVE Fine
    <3> DEFINE value == [req[w] EXCEPT !.pc = "number"]
               p == req[w].order
    <3>1. At(w, "park") /\ ~At(w, "idle")
      BY <2>8 DEF Park, At
    <3>2. Busy = {w} /\ p \in Orders /\ Positive
      BY <3>1, OrderlyKnows DEF OrderInv, OrderlyInv, Prepared, At
    <3>3. number' = Renumbered(p, -1) /\ Set(w, value)
      BY <1>t, <2>8, <3>2, PositiveFits DEF Park
    <3>4. value.pc = "number" /\ value.lesson = req[w].lesson
      BY <1>t DEF TypeOK, Request
    <3>5. req' = [req EXCEPT ![w] = value]
      BY <3>3 DEF Set
    <3>6. PICK q \in Orders : q = p
      BY <3>2
    <3> HIDE DEF value
    <3>7. q \in Orders' /\ Ascending(q)'
      BY <1>t, <3>3, <3>6, RenumberedRow
    <3>8. Asked(value) = << >>
      BY <3>4 DEF Asked
    <3>9. /\ Wanted = Asked(req[w]) /\ Wanted' = << >> /\ req'[w] = value
          /\ \A v \in Workers : v # w => RowInv(v)'
      BY <1>o, <1>t, <3>2, <3>5, <3>8, AtWork
    <3>10. RowInv(w)'
      BY <3>4, <3>9 DEF RowInv, At
    <3>11. ListInv' /\ Listed' = q
      BY <1>o, <1>t, <3>7, <3>9, <3>10, Relisted
    <3>12. CASE req[w].lesson = NoLesson
      <4>1. Wanted = q /\ q # << >>
        BY <3>1, <3>6, <3>9, <3>12 DEF Asked, ListInv, RowInv, At
      <4>2. List!Reorder
        BY <3>9, <3>11, <4>1 DEF List!Reorder
      <4> QED
        BY <3>11, <4>2 DEF List!Next
    <3>13. CASE req[w].lesson # NoLesson
      <4>1. Wanted = << >> /\ Ascending(q)
        BY <3>1, <3>6, <3>9, <3>13 DEF Asked, ListInv, RowInv
      <4>2. Listed = q
        BY <1>t, <4>1, ListedRow
      <4> QED
        BY <3>9, <3>11, <4>1, <4>2
    <3> QED
      BY <3>12, <3>13
  <2>9. ASSUME NEW w \in Workers, Number(w) PROVE Fine
    <3> DEFINE p == req[w].order
    <3>1. At(w, "number") /\ ~At(w, "idle")
      BY <2>9 DEF Number, At
    <3>2. Busy = {w} /\ p \in Orders /\ \A i \in DOMAIN p : number[p[i]] = -i
      BY <3>1, OrderlyKnows DEF Prepared
    <3>3. number' = Renumbered(p, 1)
      BY <1>t, <2>9, <3>2, ParkedFits DEF Number
    <3>4. PICK value \in {Idle, [Idle EXCEPT !.pc = "minutes"]} : Set(w, value)
      BY <2>9 DEF Number
    <3>5. value.pc \in {"idle", "minutes"}
      BY <3>4 DEF Idle
    <3>6. PICK q \in Orders : q = p
      BY <3>2
    <3>7. q \in Orders' /\ Ascending(q)'
      BY <1>t, <3>3, <3>6, RenumberedRow
    <3>8. /\ req' = [req EXCEPT ![w] = value]
          /\ Asked(req[w]) = << >> /\ Asked(value) = << >>
      BY <3>1, <3>4, <3>5 DEF Set, Asked, At
    <3>9. /\ Wanted = << >> /\ Wanted' = << >> /\ req'[w] = value
          /\ \A v \in Workers : v # w => RowInv(v)'
      BY <1>o, <1>t, <3>2, <3>8, AtWork
    <3>10. RowInv(w)'
      BY <3>5, <3>9 DEF RowInv, At
    <3>11. ListInv' /\ Listed' = q
      BY <1>o, <1>t, <3>7, <3>9, <3>10, Relisted
    <3>12. Ascending(q)
      <4>1. q \in [1..Cardinality(Stored) -> Stored]
        BY OrderOf
      <4>2. \A i \in 1..Cardinality(Stored) : number[q[i]] = (-1) * i
        <5>1. \A i \in 1..Cardinality(Stored) : (-1) * i = -i
          OBVIOUS
        <5>2. \A i \in 1..Cardinality(Stored) : number[q[i]] = -i
          BY <3>2, <3>6, <4>1
        <5> QED
          BY <5>1, <5>2
      <4> QED
        BY <1>t, <4>2, CountedRow
    <3>13. Listed = q
      BY <1>t, <3>12, ListedRow
    <3> QED
      BY <3>9, <3>11, <3>13
  <2>10. ASSUME NEW w \in Workers, SumMinutes(w) PROVE Fine
    <3>1. At(w, "minutes") /\ ~At(w, "idle") /\ ~At(w, "park") /\ number' = number
      BY <2>10 DEF SumMinutes, At
    <3>2. CASE Set(w, Idle)
      BY <1>i, <2>s, <3>1, <3>2
    <3>3. CASE Set(w, [req[w] EXCEPT !.pc = "duration", !.count = Minutes])
      <4>1. [req[w] EXCEPT !.pc = "duration", !.count = Minutes].pc = "duration"
        BY <1>t DEF TypeOK, Request
      <4> QED
        BY <2>s, <3>1, <3>3, <4>1
    <3> QED
      BY <2>10, <3>2, <3>3 DEF SumMinutes
  <2>11. ASSUME NEW w \in Workers, WriteDuration(w) PROVE Fine
    <3>1. At(w, "duration") /\ ~At(w, "idle") /\ ~At(w, "park") /\ number' = number
          /\ Set(w, Idle)
      BY <2>11 DEF WriteDuration, At
    <3> QED
      BY <1>i, <2>s, <3>1
  <2>12. ASSUME NEW w \in Workers, Crash(w) PROVE Fine
    BY <2>12 DEF Crash
  <2>13. CASE UNCHANGED vars
    <3>1. number' = number /\ req' = req
      BY <2>13 DEF vars
    <3>2. o \in Orders' /\ Ascending(o)'
      BY <2>o, <3>1, SameRow
    <3>3. Listed' = o
      BY <1>o, <1>t, <3>2, ListedNext
    <3>4. Wanted' = Wanted
      BY <1>o, <3>1 DEF Wanted, At
    <3>5. \A w \in Workers : RowInv(w)'
      BY <2>13, <3>1 DEF vars, ListInv, RowInv, At, Ascending, Distance
    <3> QED
      BY <1>o, <2>l, <3>2, <3>3, <3>4, <3>5 DEF ListInv
  <2> QED
    BY <2>1, <2>2, <2>3, <2>4, <2>5, <2>6, <2>7, <2>8, <2>9, <2>10, <2>11, <2>12, <2>13
    DEF Next
<1> QED
  BY <1>n, <1>y

\* Edits that wait for each other keep a list of lessons: adding appends,
\* deleting takes one lesson out, a reorder puts the order asked for in place in
\* one step, and the renumbering behind them never shows
\* (lms.service.ts:722-736, 788-814, 904-939).
THEOREM KeepsTheList == Spec => ImplementsList
<1>1. Spec => [](OrderInv /\ ListInv)
  BY InvInit, InvStep, ListInit, ListStep, PTL DEF Spec
<1> QED
  BY <1>1, ListInit, ListStep, PTL DEF Spec, ImplementsList, List!Spec

=============================================================================
