--------------------------- MODULE Hierarchy_proofs ---------------------------
(***************************************************************************)
(* For any number of units, institutions, levels and requests, whatever    *)
(* fields updates write: who hangs one level below its parent, and why no  *)
(* unit is its own ancestor while levels are not edited.                   *)
(***************************************************************************)
EXTENDS Hierarchy, FiniteSetTheorems, TLAPS

-----------------------------------------------------------------------------
(* Type correctness.  A creation must carry every field it will write, and  *)
(* an update be about a unit.                                               *)

Full == [level: Levels, parent: UnitOrNone, institution: Institutions]

WellFormed ==
    \A w \in Workers : /\ At(w, "create") => req[w].dto \in Full
                       /\ At(w, "validate") => req[w].target \in Units
                       /\ At(w, "update") => req[w].target \in Units

TypeInv == TypeOK /\ WellFormed

\* What a request may become without breaking TypeInv.
Good(v) == /\ v \in Request
           /\ v.pc = "create" => v.dto \in Full
           /\ v.pc \in {"validate", "update"} => v.target \in Units

LEMMA SetInv ==
    ASSUME TypeInv, NEW w \in Workers, NEW v, Good(v), Set(w, v)
    PROVE  req' \in [Workers -> Request] /\ WellFormed'
<1>1. req' \in [Workers -> Request]
  BY DEF TypeInv, TypeOK, Good, Set
<1>2. ASSUME NEW x \in Workers
      PROVE  /\ req'[x].pc = "create" => req'[x].dto \in Full
             /\ req'[x].pc = "validate" => req'[x].target \in Units
             /\ req'[x].pc = "update" => req'[x].target \in Units
  <2>1. CASE x = w
    BY <2>1 DEF TypeInv, TypeOK, Good, Set
  <2>2. CASE x # w
    BY <2>2 DEF TypeInv, TypeOK, WellFormed, At, Set
  <2> QED
    BY <2>1, <2>2
<1> QED
  BY <1>1, <1>2 DEF WellFormed, At

LEMMA UnusedType == Unused \in Row
BY HierarchyAssumption DEF Unused, Row, Levels, UnitOrNone

LEMMA NothingType == Nothing \in Fields
BY DEF Nothing, Fields

LEMMA IdleGood == Good(Idle) /\ Idle.pc = "idle"
<1>1. Idle \in Request
  BY UnusedType, NothingType DEF Idle, Request, UnitOrNone
<1> QED
  BY <1>1 DEF Good, Idle

LEMMA FullIsFields == Full \subseteq Fields
BY DEF Full, Fields

LEMMA WrittenType ==
    ASSUME NEW q, q.dto \in Fields, unit[q.target] \in Row
    PROVE  /\ Written(q) \in Row
           /\ Written(q).stored = unit[q.target].stored
           /\ Written(q).level = Given(q.dto.level, unit[q.target].level)
           /\ Written(q).parent = Given(q.dto.parent, unit[q.target].parent)
           /\ Written(q).institution = Given(q.dto.institution, unit[q.target].institution)
<1> DEFINE old == unit[q.target]
           l == Given(q.dto.level, old.level)
           p == Given(q.dto.parent, old.parent)
           i == Given(q.dto.institution, old.institution)
<1>1. /\ l \in Levels /\ p \in UnitOrNone /\ i \in Institutions \cup {Absent}
      /\ old \in Row
  BY DEF Given, Fields, Row
<1>2. Written(q) = [old EXCEPT !.level = l, !.parent = p, !.institution = i]
  BY DEF Written
<1> HIDE DEF old, l, p, i
<1>3. /\ Written(q) \in Row /\ Written(q).stored = old.stored /\ Written(q).level = l
      /\ Written(q).parent = p /\ Written(q).institution = i
  BY <1>1, <1>2 DEF Row
<1> QED
  BY <1>3 DEF old, l, p, i

LEMMA TypeStep == TypeInv /\ [Next]_vars => TypeInv'
<1> SUFFICES ASSUME TypeInv, [Next]_vars PROVE TypeInv'
  OBVIOUS
<1>1. ASSUME NEW w \in Workers, CreateCheck(w) PROVE TypeInv'
  <2> DEFINE d(l, p, i) == [level |-> l, parent |-> p, institution |-> i]
  <2>1. PICK i \in Institutions, p \in UnitOrNone, l \in Levels :
          Set(w, [Idle EXCEPT !.pc = "create", !.dto = d(l, p, i)])
    BY <1>1 DEF CreateCheck
  <2>2. d(l, p, i) \in Full
    BY DEF Full
  <2> HIDE DEF d
  <2>3. Good([Idle EXCEPT !.pc = "create", !.dto = d(l, p, i)])
    BY <2>2, IdleGood, FullIsFields DEF Good, Request
  <2> QED
    BY <1>1, <2>1, <2>3, SetInv DEF CreateCheck, TypeInv, TypeOK, history
<1>2. ASSUME NEW w \in Workers, CreateWrite(w) PROVE TypeInv'
  <2> DEFINE d == req[w].dto
             r == [stored |-> TRUE, level |-> d.level, parent |-> d.parent,
                   institution |-> d.institution]
  <2>1. d \in Full
    BY <1>2 DEF CreateWrite, TypeInv, WellFormed
  <2>2. r \in Row
    BY <2>1 DEF Full, Row
  <2>3. PICK u \in Units \ Stored :
            unit' = [unit EXCEPT ![u] = r] /\ displaced' \in {displaced, displaced \cup {u}}
    BY <1>2 DEF CreateWrite
  <2> HIDE DEF r
  <2>4. /\ unit' \in [Units -> Row]
        /\ misled' \subseteq Workers /\ displaced' \subseteq Units /\ releveled' \subseteq Units
    BY <1>2, <2>2, <2>3 DEF CreateWrite, TypeInv, TypeOK
  <2> QED
    BY <1>2, <2>4, IdleGood, SetInv DEF CreateWrite, TypeInv, TypeOK
<1>3. ASSUME NEW w \in Workers, NEW u \in Units, UpdateRead(w, u) PROVE TypeInv'
  <2> DEFINE v == [Idle EXCEPT !.pc = "validate", !.target = u, !.was = unit[u]]
  <2>1. unit[u] \in Row
    BY DEF TypeInv, TypeOK
  <2>2. v.pc = "validate" /\ v.target = u /\ v \in Request
    BY <2>1, IdleGood DEF Good, Request, UnitOrNone
  <2>3. Good(v) /\ Set(w, v)
    BY <1>3, <2>2 DEF Good, UpdateRead
  <2> HIDE DEF v
  <2> QED
    BY <1>3, <2>3, SetInv DEF UpdateRead, TypeInv, TypeOK, history
<1>4. ASSUME NEW w \in Workers, UpdateValidate(w) PROVE TypeInv'
  <2> DEFINE v(d) == [req[w] EXCEPT !.pc = "update", !.dto = d]
  <2>1. (\E d \in Bodies : Set(w, v(d))) \/ Set(w, Idle)
    BY <1>4 DEF UpdateValidate
  <2>2. req[w] \in Request /\ req[w].target \in Units /\ Bodies \subseteq Fields
    BY <1>4 DEF UpdateValidate, TypeInv, TypeOK, WellFormed, Bodies
  <2>3. \A d \in Bodies : Good(v(d))
    BY <2>2 DEF Good, Request
  <2>4. misled' \subseteq Workers /\ UNCHANGED <<unit, displaced, releveled>>
    BY <1>4 DEF UpdateValidate, TypeInv, TypeOK
  <2> HIDE DEF v
  <2> QED
    BY <2>1, <2>3, <2>4, IdleGood, SetInv DEF TypeInv, TypeOK
<1>5. ASSUME NEW w \in Workers, UpdateWrite(w) PROVE TypeInv'
  <2> DEFINE t == req[w].target
             r == Written(req[w])
  <2>1. t \in Units /\ req[w].dto \in Fields /\ unit[t] \in Row
    BY <1>5 DEF UpdateWrite, TypeInv, TypeOK, WellFormed, Request
  <2>2. r \in Row
    BY <2>1, WrittenType
  <2>3. unit' = [unit EXCEPT ![t] = r] /\ Set(w, Idle)
    BY <1>5 DEF UpdateWrite
  <2> HIDE DEF r
  <2>4. unit' \in [Units -> Row]
    BY <2>1, <2>2, <2>3 DEF TypeInv, TypeOK
  <2>5. misled' \subseteq Workers /\ displaced' \subseteq Units /\ releveled' \subseteq Units
    BY <1>5, <2>1 DEF UpdateWrite, Readers, Reliers, Below, Stored, TypeInv, TypeOK
  <2> QED
    BY <2>3, <2>4, <2>5, IdleGood, SetInv DEF TypeInv, TypeOK
<1>6. ASSUME NEW w \in Workers, NEW u \in Units, PathRead(w, u) PROVE TypeInv'
  <2>1. unit[u].parent \in UnitOrNone
    BY DEF TypeInv, TypeOK, Row
  <2>2. Good([Idle EXCEPT !.pc = "path", !.target = unit[u].parent])
    BY <2>1, IdleGood DEF Good, Request
  <2> QED
    BY <1>6, <2>2, SetInv DEF PathRead, TypeInv, TypeOK, history
<1>7. ASSUME NEW w \in Workers, PathStep(w) PROVE TypeInv'
  <2> DEFINE u == req[w].target
             v == [req[w] EXCEPT !.target = unit[u].parent]
  <2>1. CASE u = NoUnit
    BY <1>7, <2>1, IdleGood, SetInv DEF PathStep, TypeInv, TypeOK, history
  <2>2. CASE u # NoUnit
    <3>1. req[w] \in Request /\ u \in Units /\ unit[u].parent \in UnitOrNone
      BY <2>2 DEF TypeInv, TypeOK, Request, UnitOrNone, Row
    <3>2. req[w].pc = "path"
      BY <1>7 DEF PathStep, At
    <3>3. Good(v)
      BY <3>1, <3>2 DEF Good, Request
    <3>4. Set(w, v)
      BY <1>7, <2>2 DEF PathStep
    <3> HIDE DEF v
    <3> QED
      BY <1>7, <3>3, <3>4, SetInv DEF PathStep, TypeInv, TypeOK, history
  <2> QED
    BY <2>1, <2>2
<1>8. CASE UNCHANGED vars
  BY <1>8 DEF vars, history, TypeInv, TypeOK, WellFormed, At
<1> QED
  BY <1>1, <1>2, <1>3, <1>4, <1>5, <1>6, <1>7, <1>8 DEF Next

LEMMA TypeInit == Init => TypeInv
<1> SUFFICES ASSUME Init PROVE TypeInv
  OBVIOUS
<1>1. TypeOK
  BY UnusedType, IdleGood DEF Init, TypeOK, Good
<1>2. WellFormed
  BY IdleGood DEF Init, WellFormed, At
<1> QED
  BY <1>1, <1>2 DEF TypeInv

\* The columns of ArchivalUnit keep their ranges, whatever fields updates carry.
THEOREM TypeCorrect == Spec => []TypeOK
<1>1. TypeInv => TypeOK
  BY DEF TypeInv
<1> QED
  BY <1>1, TypeInit, TypeStep, PTL DEF Spec

-----------------------------------------------------------------------------
(* One step above.  A request writes a place it checked earlier, on what it *)
(* read earlier still: that is as good as a check of the place that is      *)
(* written while nobody overtakes the request.                              *)

\* What a request that was not overtaken knows.
Checked(q) ==
    /\ q.pc = "create" => MayHang(q.dto.institution, q.dto.parent, q.dto.level)
    /\ q.pc \in {"validate", "update"} => q.was = unit[q.target]
    /\ q.pc = "update" =>
          /\ MayHang(Given(q.dto.institution, q.was.institution), ParentToCheck(q),
                     Given(q.dto.level, q.was.level))
          /\ ParentToCheck(q) # q.target

Targets == \A w \in Workers : req[w].pc \in {"validate", "update"} => req[w].target \in Stored

HangInv ==
    /\ OneStepAbove
    /\ Targets
    /\ \A w \in Workers : w \notin misled => Checked(req[w])

\* The same once the units have changed.
MayHangNext(i, p, l) ==
    IF p = NoUnit THEN l = 0
    ELSE p \in Stored' /\ l = unit'[p].level + 1 /\ i = unit'[p].institution

CheckedNext(q) ==
    /\ q.pc = "create" => MayHangNext(q.dto.institution, q.dto.parent, q.dto.level)
    /\ q.pc \in {"validate", "update"} => q.was = unit'[q.target]
    /\ q.pc = "update" =>
          /\ MayHangNext(Given(q.dto.institution, q.was.institution), ParentToCheck(q),
                         Given(q.dto.level, q.was.level))
          /\ ParentToCheck(q) # q.target

\* p is still there, at its level and in its institution.
Kept(p) ==
    p \in Stored' /\ unit'[p].level = unit[p].level /\ unit'[p].institution = unit[p].institution

LEMMA MayHangStays ==
    ASSUME NEW i, NEW p, NEW l, MayHang(i, p, l), p \in Stored => Kept(p)
    PROVE  MayHangNext(i, p, l)
BY DEF MayHang, MayHangNext, Kept

\* What is known lasts while neither the unit nor the parent it was checked against changes.
LEMMA CheckedStays ==
    ASSUME NEW q, Checked(q),
           Under(q) \in Stored => Kept(Under(q)),
           q.pc \in {"validate", "update"} => unit'[q.target] = unit[q.target]
    PROVE  CheckedNext(q)
<1>1. q.pc = "create" => MayHangNext(q.dto.institution, q.dto.parent, q.dto.level)
  BY MayHangStays DEF Checked, Under
<1>2. q.pc \in {"validate", "update"} => q.was = unit'[q.target]
  BY DEF Checked
<1>3. ASSUME q.pc = "update"
      PROVE  /\ MayHangNext(Given(q.dto.institution, q.was.institution), ParentToCheck(q),
                            Given(q.dto.level, q.was.level))
             /\ ParentToCheck(q) # q.target
  <2>1. Under(q) = ParentToCheck(q)
    BY <1>3 DEF Under
  <2> QED
    BY <1>3, <2>1, MayHangStays DEF Checked
<1> QED
  BY <1>1, <1>2, <1>3 DEF CheckedNext

LEMMA QuietKept == ASSUME UNCHANGED unit PROVE \A p \in Stored : Kept(p)
BY DEF Kept, Stored

\* Requests after one of them has become v.
LEMMA SetChecked ==
    ASSUME TypeInv, Targets, Stored \subseteq Stored', NEW w \in Workers, NEW v, Set(w, v),
           v.pc \in {"validate", "update"} => v.target \in Stored',
           w \notin misled' => CheckedNext(v),
           \A x \in Workers : x # w /\ x \notin misled' => CheckedNext(req[x])
    PROVE  Targets' /\ (\A x \in Workers : x \notin misled => Checked(req[x]))'
<1>1. req'[w] = v /\ \A x \in Workers : x # w => req'[x] = req[x]
  BY DEF Set, TypeInv, TypeOK
<1>2. Targets'
  BY <1>1 DEF Targets
<1>3. ASSUME NEW x \in Workers, x \notin misled' PROVE CheckedNext(req'[x])
  BY <1>1, <1>3
<1>4. ASSUME NEW x \in Workers, CheckedNext(req'[x]) PROVE Checked(req[x])'
  BY <1>4 DEF CheckedNext, Checked, MayHangNext, MayHang, ParentToCheck, Given
<1> QED
  BY <1>2, <1>3, <1>4

\* A step that leaves the units alone.
LEMMA QuietHang ==
    ASSUME TypeInv, HangInv, UNCHANGED <<unit, displaced>>, NEW w \in Workers, NEW v, Set(w, v),
           misled' \in {misled, misled \ {w}},
           v.pc \in {"validate", "update"} => v.target \in Stored,
           w \notin misled' => CheckedNext(v)
    PROVE  HangInv'
<1>1. \A p \in Stored : Kept(p)
  BY QuietKept
<1>2. ASSUME NEW x \in Workers, x # w, x \notin misled' PROVE CheckedNext(req[x])
  <2>1. Checked(req[x])
    BY <1>2 DEF HangInv
  <2> QED
    BY <1>1, <2>1, CheckedStays
<1>3. Stored' = Stored
  BY DEF Stored
<1>4. Targets' /\ (\A x \in Workers : x \notin misled => Checked(req[x]))'
  BY <1>2, <1>3, SetChecked DEF HangInv
<1>5. OneStepAbove'
  BY <1>3 DEF HangInv, OneStepAbove, MayHang
<1> QED
  BY <1>4, <1>5 DEF HangInv

LEMMA IdleChecked == CheckedNext(Idle) /\ Idle.pc = "idle"
BY IdleGood DEF CheckedNext

LEMMA CreateCheckHang ==
    ASSUME TypeInv, HangInv, NEW w \in Workers, CreateCheck(w)
    PROVE  HangInv'
<1> DEFINE d(l, p, i) == [level |-> l, parent |-> p, institution |-> i]
           v(l, p, i) == [Idle EXCEPT !.pc = "create", !.dto = d(l, p, i)]
<1>1. PICK i \in Institutions, p \in UnitOrNone, l \in Levels :
          ValidParent(i, p, l, NoUnit) /\ Set(w, v(l, p, i))
  BY DEF CreateCheck
<1>2. /\ v(l, p, i).pc = "create" /\ v(l, p, i).dto.institution = i
      /\ v(l, p, i).dto.parent = p /\ v(l, p, i).dto.level = l
  BY DEF Idle
<1>3. MayHang(i, p, l)
  BY <1>1 DEF ValidParent, MayHang
<1>4. UNCHANGED <<unit, displaced, misled>>
  BY DEF CreateCheck, history
<1>5. MayHangNext(i, p, l)
  BY <1>3, <1>4, MayHangStays, QuietKept
<1>6. CheckedNext(v(l, p, i))
  BY <1>2, <1>5 DEF CheckedNext
<1> HIDE DEF v
<1> QED
  BY <1>1, <1>2, <1>4, <1>6, QuietHang

LEMMA CreateWriteHang ==
    ASSUME TypeInv, HangInv, NEW w \in Workers, CreateWrite(w)
    PROVE  HangInv'
<1> DEFINE d == req[w].dto
           r == [stored |-> TRUE, level |-> d.level, parent |-> d.parent,
                 institution |-> d.institution]
<1>1. PICK u \in Units \ Stored :
          /\ unit' = [unit EXCEPT ![u] = r]
          /\ displaced' = IF w \in misled THEN displaced \cup {u} ELSE displaced
  BY DEF CreateWrite
<1>2. misled' = misled \ {w} /\ Set(w, Idle) /\ req[w].pc = "create"
  BY DEF CreateWrite, At
<1>3. /\ Stored' = Stored \cup {u} /\ unit'[u] = r
      /\ \A x \in Units : x # u => unit'[x] = unit[x]
  BY <1>1 DEF Stored, TypeInv, TypeOK
<1>4. \A x \in Stored : Kept(x)
  BY <1>3 DEF Kept, Stored
<1>5. ASSUME NEW x \in Stored' \ displaced'
      PROVE  MayHangNext(unit'[x].institution, unit'[x].parent, unit'[x].level)
  <2>1. CASE x = u
    <3>1. w \notin misled
      BY <1>1, <1>5, <2>1
    <3>2. MayHang(d.institution, d.parent, d.level)
      BY <1>2, <3>1 DEF HangInv, Checked
    <3>3. MayHangNext(d.institution, d.parent, d.level)
      BY <1>4, <3>2, MayHangStays
    <3> QED
      BY <1>3, <2>1, <3>3
  <2>2. CASE x # u
    <3>1. x \in Stored \ displaced /\ unit'[x] = unit[x]
      BY <1>1, <1>3, <1>5, <2>2 DEF Stored
    <3>2. MayHang(unit[x].institution, unit[x].parent, unit[x].level)
      BY <3>1 DEF HangInv, OneStepAbove
    <3> QED
      BY <1>4, <3>1, <3>2, MayHangStays
  <2> QED
    BY <2>1, <2>2
<1>6. OneStepAbove'
  BY <1>5 DEF OneStepAbove, MayHang, MayHangNext
<1>7. ASSUME NEW x \in Workers, x # w, x \notin misled' PROVE CheckedNext(req[x])
  <2>1. Checked(req[x]) /\ (req[x].pc \in {"validate", "update"} => req[x].target \in Stored)
    BY <1>2, <1>7 DEF HangInv, Targets
  <2>2. req[x].pc \in {"validate", "update"} => unit'[req[x].target] = unit[req[x].target]
    BY <1>3, <2>1 DEF Stored
  <2> QED
    BY <1>4, <2>1, <2>2, CheckedStays
<1>8. Targets' /\ (\A x \in Workers : x \notin misled => Checked(req[x]))'
  BY <1>2, <1>3, <1>7, IdleChecked, SetChecked DEF HangInv
<1> QED
  BY <1>6, <1>8 DEF HangInv

LEMMA UpdateReadHang ==
    ASSUME TypeInv, HangInv, NEW w \in Workers, NEW u \in Units, UpdateRead(w, u)
    PROVE  HangInv'
<1> DEFINE v == [Idle EXCEPT !.pc = "validate", !.target = u, !.was = unit[u]]
<1>1. v.pc = "validate" /\ v.target = u /\ v.was = unit[u]
  BY DEF Idle
<1>2. Set(w, v) /\ u \in Stored /\ UNCHANGED <<unit, displaced, misled>>
  BY DEF UpdateRead, history
<1> HIDE DEF v
<1>3. CheckedNext(v)
  BY <1>1, <1>2 DEF CheckedNext
<1> QED
  BY <1>1, <1>2, <1>3, QuietHang

LEMMA UpdateValidateHang ==
    ASSUME TypeInv, HangInv, NEW w \in Workers, UpdateValidate(w)
    PROVE  HangInv'
<1> DEFINE q(d) == [req[w] EXCEPT !.pc = "update", !.dto = d]
<1>1. \/ \E d \in Bodies : Valid(q(d)) /\ Set(w, q(d)) /\ UNCHANGED misled
      \/ Set(w, Idle) /\ misled' = misled \ {w}
  BY DEF UpdateValidate
<1>2. UNCHANGED <<unit, displaced>> /\ req[w].pc = "validate" /\ req[w] \in Request
  BY DEF UpdateValidate, At, TypeInv, TypeOK
<1>3. CASE Set(w, Idle) /\ misled' = misled \ {w}
  BY <1>2, <1>3, IdleChecked, QuietHang
<1>4. ASSUME NEW d \in Bodies, Valid(q(d)), Set(w, q(d)), UNCHANGED misled
      PROVE  HangInv'
  <2>1. q(d).pc = "update" /\ q(d).target = req[w].target /\ q(d).was = req[w].was /\ q(d).dto = d
    BY <1>2 DEF Request
  <2>2. req[w].target \in Stored
    BY <1>2 DEF HangInv, Targets
  <2> HIDE DEF q
  <2>3. ASSUME w \notin misled PROVE CheckedNext(q(d))
    <3>1. q(d).was = unit'[q(d).target]
      BY <1>2, <2>1, <2>3 DEF HangInv, Checked
    <3>2. /\ MayHang(Given(q(d).dto.institution, q(d).was.institution), ParentToCheck(q(d)),
                     Given(q(d).dto.level, q(d).was.level))
          /\ ParentToCheck(q(d)) # NoUnit => ParentToCheck(q(d)) # q(d).target
      BY <1>4 DEF Valid, ValidParent, MayHang
    <3>3. ParentToCheck(q(d)) # q(d).target
      BY <2>1, <2>2, <3>2, HierarchyAssumption DEF Stored
    <3>4. MayHangNext(Given(q(d).dto.institution, q(d).was.institution), ParentToCheck(q(d)),
                      Given(q(d).dto.level, q(d).was.level))
      BY <1>2, <3>2, MayHangStays, QuietKept
    <3> QED
      BY <2>1, <3>1, <3>3, <3>4 DEF CheckedNext
  <2> QED
    BY <1>2, <1>4, <2>1, <2>2, <2>3, QuietHang
<1> QED
  BY <1>1, <1>3, <1>4

\* Whoever is overtaken is misled, what hangs below is displaced where it was changed, and
\* the unit itself hangs where its update has checked that it may.
LEMMA UpdateWriteHang ==
    ASSUME TypeInv, HangInv, NEW w \in Workers, UpdateWrite(w)
    PROVE  HangInv'
<1> DEFINE q == req[w]
           t == q.target
           r == Written(q)
           same == r.level = unit[t].level /\ r.institution = unit[t].institution
           loose == displaced \cup (IF same THEN {} ELSE Below(t))
<1>1. /\ q.pc = "update" /\ Set(w, Idle) /\ unit' = [unit EXCEPT ![t] = r]
      /\ misled' = (misled \cup Readers(t) \cup (IF same THEN {} ELSE Reliers(t))) \ {w}
      /\ displaced' = IF w \in misled \/ Detaches(q) THEN loose \cup {t} ELSE loose \ {t}
  BY DEF UpdateWrite, At
<1>2. t \in Stored /\ t \in Units /\ q.dto \in Fields /\ unit[t] \in Row
  BY <1>1 DEF HangInv, Targets, Stored, TypeInv, TypeOK, Request
<1>3. /\ r.stored = unit[t].stored /\ r.level = Given(q.dto.level, unit[t].level)
      /\ r.parent = Given(q.dto.parent, unit[t].parent)
      /\ r.institution = Given(q.dto.institution, unit[t].institution)
  BY <1>2, WrittenType
<1>4. unit'[t] = r /\ \A x \in Units : x # t => unit'[x] = unit[x]
  BY <1>1, <1>2 DEF TypeInv, TypeOK
<1> HIDE DEF r
<1>5. Stored' = Stored
  BY <1>3, <1>4 DEF Stored
<1>6. \A x \in Stored : x # t \/ same => Kept(x)
  BY <1>4, <1>5 DEF Kept, Stored
<1>7. ASSUME NEW x \in Workers, x # w, x \notin misled' PROVE CheckedNext(req[x])
  <2>1. /\ Checked(req[x]) /\ (req[x].pc \in {"validate", "update"} => req[x].target \in Stored)
        /\ x \notin Readers(t) /\ (~same => x \notin Reliers(t))
    BY <1>1, <1>7 DEF HangInv, Targets
  <2>2. req[x].pc \in {"validate", "update"} => unit'[req[x].target] = unit[req[x].target]
    BY <1>4, <2>1 DEF Readers, Stored
  <2>3. Under(req[x]) \in Stored => Kept(Under(req[x]))
    BY <1>6, <2>1 DEF Reliers
  <2> QED
    BY <2>1, <2>2, <2>3, CheckedStays
<1>8. ASSUME NEW x \in Stored' \ displaced'
      PROVE  MayHangNext(unit'[x].institution, unit'[x].parent, unit'[x].level)
  <2>1. CASE x = t
    <3>1. w \notin misled /\ ~Detaches(q)
      BY <1>1, <1>8, <2>1
    <3>2. /\ q.was = unit[t] /\ ParentToCheck(q) # t
          /\ MayHang(Given(q.dto.institution, q.was.institution), ParentToCheck(q),
                     Given(q.dto.level, q.was.level))
      BY <1>1, <3>1 DEF HangInv, Checked
    <3>3. r.parent = ParentToCheck(q)
      BY <1>3, <3>1, <3>2, HierarchyAssumption DEF Detaches, ParentToCheck, Given
    <3>4. MayHang(r.institution, r.parent, r.level)
      BY <1>3, <3>2, <3>3
    <3>5. MayHangNext(r.institution, r.parent, r.level)
      BY <1>6, <3>2, <3>3, <3>4, MayHangStays
    <3> QED
      BY <1>4, <2>1, <3>5
  <2>2. CASE x # t
    <3>1. /\ x \in Stored \ displaced /\ unit'[x] = unit[x]
          /\ same \/ unit[x].parent # t
      BY <1>1, <1>4, <1>5, <1>8, <2>2 DEF Stored, Below
    <3>2. MayHang(unit[x].institution, unit[x].parent, unit[x].level)
      BY <3>1 DEF HangInv, OneStepAbove
    <3> QED
      BY <1>6, <3>1, <3>2, MayHangStays
  <2> QED
    BY <2>1, <2>2
<1>9. OneStepAbove'
  BY <1>8 DEF OneStepAbove, MayHang, MayHangNext
<1>10. Targets' /\ (\A x \in Workers : x \notin misled => Checked(req[x]))'
  BY <1>1, <1>5, <1>7, IdleChecked, SetChecked DEF HangInv
<1> QED
  BY <1>9, <1>10 DEF HangInv

\* A walk goes on or is over.
LEMMA WalkSets ==
    ASSUME TypeInv, NEW w \in Workers, PathStep(w) \/ \E u \in Units : PathRead(w, u)
    PROVE  \E v : Set(w, v) /\ v.pc \in {"path", "idle"}
<1>1. CASE PathStep(w)
  <2>1. req[w].pc = "path" /\ req[w] \in Request
    BY <1>1 DEF PathStep, At, TypeInv, TypeOK
  <2>2. [req[w] EXCEPT !.target = unit[req[w].target].parent].pc = "path"
    BY <2>1 DEF Request
  <2> QED
    BY <1>1, <2>2, IdleChecked DEF PathStep
<1>2. ASSUME NEW u \in Units, PathRead(w, u)
      PROVE  \E v : Set(w, v) /\ v.pc \in {"path", "idle"}
  <2>1. [Idle EXCEPT !.pc = "path", !.target = unit[u].parent].pc = "path"
    BY DEF Idle
  <2> QED
    BY <1>2, <2>1 DEF PathRead
<1> QED
  BY <1>1, <1>2

\* A walk relies on nothing.
LEMMA PathHang ==
    ASSUME TypeInv, HangInv, NEW w \in Workers,
           PathStep(w) \/ \E u \in Units : PathRead(w, u)
    PROVE  HangInv'
<1>1. UNCHANGED <<unit, displaced, misled>>
  BY DEF PathStep, PathRead, history
<1>2. PICK v : Set(w, v) /\ v.pc \in {"path", "idle"}
  BY WalkSets
<1>3. CheckedNext(v)
  BY <1>2 DEF CheckedNext
<1> QED
  BY <1>1, <1>2, <1>3, QuietHang

LEMMA HangStep == TypeInv /\ HangInv /\ [Next]_vars => HangInv'
<1> SUFFICES ASSUME TypeInv, HangInv, [Next]_vars PROVE HangInv'
  OBVIOUS
<1>1. CASE UNCHANGED vars
  BY <1>1 DEF vars, history, HangInv, OneStepAbove, Targets, MayHang, Checked, Stored,
              ParentToCheck, Given
<1> QED
  BY <1>1, CreateCheckHang, CreateWriteHang, UpdateReadHang, UpdateValidateHang, UpdateWriteHang,
     PathHang DEF Next

LEMMA HangInit == Init => HangInv
<1> SUFFICES ASSUME Init PROVE HangInv
  OBVIOUS
<1>1. Stored = {}
  BY DEF Init, Stored, Unused
<1>2. \A w \in Workers : req[w] = Idle
  BY DEF Init
<1> QED
  BY <1>1, <1>2, IdleGood DEF HangInv, OneStepAbove, Targets, Checked

\* Whatever updates write and however requests overlap: a unit hangs one step below a unit
\* of its institution, but where its last update gave its parent as null or was overtaken,
\* and where its parent has been given another level or institution since.
THEOREM StepAbove == Spec => []OneStepAbove
<1>1. TypeInv /\ HangInv /\ [Next]_vars => (TypeInv /\ HangInv)'
  BY TypeStep, HangStep
<1>2. HangInv => OneStepAbove
  BY DEF HangInv
<1> QED
  BY <1>1, <1>2, TypeInit, HangInit, PTL DEF Spec
-----------------------------------------------------------------------------
(* No circle.  Overtaken or not, a unit whose level no update has changed   *)
(* hangs one level below its parent, unless the level of that was changed:  *)
(* of what a request has read, the levels of such units still hold.         *)

\* Level l hangs one level below p.
OneBelow(p, l) ==
    p # NoUnit => p \in Stored /\ (p \notin releveled => l = unit[p].level + 1)

LevelKnown(q) ==
    /\ q.pc = "create" => OneBelow(q.dto.parent, q.dto.level)
    /\ q.pc \in {"validate", "update"} =>
          /\ q.target \in Stored
          /\ q.target \notin releveled => q.was.level = unit[q.target].level
    /\ q.pc = "update" /\ q.dto.parent \in Units =>
          OneBelow(q.dto.parent, Given(q.dto.level, q.was.level))

LevelInv ==
    /\ \A u \in Stored \ releveled : OneBelow(unit[u].parent, unit[u].level)
    /\ \A u \in Stored : unit[u].parent \in Stored \cup {NoUnit}
    /\ \A w \in Workers : LevelKnown(req[w])

\* The same after a step.
OneBelowNext(p, l) ==
    p # NoUnit => p \in Stored' /\ (p \notin releveled' => l = unit'[p].level + 1)

LevelKnownNext(q) ==
    /\ q.pc = "create" => OneBelowNext(q.dto.parent, q.dto.level)
    /\ q.pc \in {"validate", "update"} =>
          /\ q.target \in Stored'
          /\ q.target \notin releveled' => q.was.level = unit'[q.target].level
    /\ q.pc = "update" /\ q.dto.parent \in Units =>
          OneBelowNext(q.dto.parent, Given(q.dto.level, q.was.level))

\* Units stay, and whose level changes is known.
LevelsKept ==
    /\ Stored \subseteq Stored' /\ releveled \subseteq releveled'
    /\ \A p \in Stored : p \notin releveled' => unit'[p].level = unit[p].level

LEMMA OneBelowStays ==
    ASSUME LevelsKept, NEW p, NEW l, OneBelow(p, l)
    PROVE  OneBelowNext(p, l)
BY DEF LevelsKept, OneBelow, OneBelowNext

LEMMA LevelKnownStays ==
    ASSUME LevelsKept, NEW q, LevelKnown(q)
    PROVE  LevelKnownNext(q)
<1>1. q.pc = "create" => OneBelowNext(q.dto.parent, q.dto.level)
  BY OneBelowStays DEF LevelKnown
<1>2. q.pc \in {"validate", "update"} =>
         /\ q.target \in Stored'
         /\ q.target \notin releveled' => q.was.level = unit'[q.target].level
  BY DEF LevelKnown, LevelsKept
<1>3. q.pc = "update" /\ q.dto.parent \in Units =>
         OneBelowNext(q.dto.parent, Given(q.dto.level, q.was.level))
  BY OneBelowStays DEF LevelKnown
<1> QED
  BY <1>1, <1>2, <1>3 DEF LevelKnownNext

\* Requests after one of them has become v.
LEMMA SetLevels ==
    ASSUME TypeInv, LevelInv, LevelsKept, NEW w \in Workers, NEW v, Set(w, v), LevelKnownNext(v)
    PROVE  (\A x \in Workers : LevelKnown(req[x]))'
<1>1. req'[w] = v /\ \A x \in Workers : x # w => req'[x] = req[x]
  BY DEF Set, TypeInv, TypeOK
<1>2. ASSUME NEW x \in Workers PROVE LevelKnownNext(req'[x])
  <2>1. LevelKnown(req[x])
    BY DEF LevelInv
  <2> QED
    BY <1>1, <2>1, LevelKnownStays
<1>3. ASSUME NEW x \in Workers, LevelKnownNext(req'[x]) PROVE LevelKnown(req[x])'
  BY <1>3 DEF LevelKnownNext, LevelKnown, OneBelowNext, OneBelow, Given
<1> QED
  BY <1>2, <1>3

\* A step that leaves the units alone.
LEMMA QuietLevels ==
    ASSUME TypeInv, LevelInv, UNCHANGED <<unit, releveled>>, NEW w \in Workers, NEW v, Set(w, v),
           LevelKnownNext(v)
    PROVE  LevelInv'
<1>1. LevelsKept /\ Stored' = Stored
  BY DEF LevelsKept, Stored
<1>2. (\A x \in Workers : LevelKnown(req[x]))'
  BY <1>1, SetLevels
<1> QED
  BY <1>1, <1>2 DEF LevelInv, OneBelow

LEMMA IdleKnown == LevelKnownNext(Idle)
BY IdleGood DEF LevelKnownNext

LEMMA CreateCheckLevels ==
    ASSUME TypeInv, LevelInv, NEW w \in Workers, CreateCheck(w)
    PROVE  LevelInv'
<1> DEFINE d(l, p, i) == [level |-> l, parent |-> p, institution |-> i]
           v(l, p, i) == [Idle EXCEPT !.pc = "create", !.dto = d(l, p, i)]
<1>1. PICK i \in Institutions, p \in UnitOrNone, l \in Levels :
          ValidParent(i, p, l, NoUnit) /\ Set(w, v(l, p, i))
  BY DEF CreateCheck
<1>2. /\ v(l, p, i).pc = "create" /\ v(l, p, i).dto.parent = p /\ v(l, p, i).dto.level = l
  BY DEF Idle
<1>3. UNCHANGED <<unit, releveled>> /\ Stored' = Stored
  BY DEF CreateCheck, history, Stored
<1>4. OneBelowNext(p, l)
  BY <1>1, <1>3 DEF ValidParent, OneBelowNext
<1>5. LevelKnownNext(v(l, p, i))
  BY <1>2, <1>4 DEF LevelKnownNext
<1> HIDE DEF v
<1> QED
  BY <1>1, <1>3, <1>5, QuietLevels

LEMMA CreateWriteLevels ==
    ASSUME TypeInv, LevelInv, NEW w \in Workers, CreateWrite(w)
    PROVE  LevelInv'
<1> DEFINE d == req[w].dto
           r == [stored |-> TRUE, level |-> d.level, parent |-> d.parent,
                 institution |-> d.institution]
<1>1. PICK u \in Units \ Stored : unit' = [unit EXCEPT ![u] = r]
  BY DEF CreateWrite
<1>2. UNCHANGED releveled /\ Set(w, Idle) /\ req[w].pc = "create"
  BY DEF CreateWrite, At
<1>3. /\ Stored' = Stored \cup {u} /\ unit'[u] = r
      /\ \A x \in Units : x # u => unit'[x] = unit[x]
  BY <1>1 DEF Stored, TypeInv, TypeOK
<1>4. LevelsKept
  BY <1>2, <1>3 DEF LevelsKept, Stored
<1>5. OneBelow(d.parent, d.level)
  BY <1>2 DEF LevelInv, LevelKnown
<1>6. ASSUME NEW x \in Stored'
      PROVE  /\ x \notin releveled' => OneBelowNext(unit'[x].parent, unit'[x].level)
             /\ unit'[x].parent \in Stored' \cup {NoUnit}
  <2>1. CASE x = u
    <3>1. OneBelowNext(d.parent, d.level)
      BY <1>4, <1>5, OneBelowStays
    <3> QED
      BY <1>3, <2>1, <3>1 DEF OneBelowNext
  <2>2. CASE x # u
    <3>1. x \in Stored /\ unit'[x] = unit[x]
      BY <1>3, <2>2 DEF Stored
    <3>2. /\ x \notin releveled' => OneBelow(unit[x].parent, unit[x].level)
          /\ unit[x].parent \in Stored \cup {NoUnit}
      BY <1>2, <3>1 DEF LevelInv
    <3> QED
      BY <1>3, <1>4, <3>1, <3>2, OneBelowStays
  <2> QED
    BY <2>1, <2>2
<1>7. (\A x \in Workers : LevelKnown(req[x]))'
  BY <1>2, <1>4, IdleKnown, SetLevels
<1> QED
  BY <1>6, <1>7 DEF LevelInv, OneBelow, OneBelowNext

LEMMA UpdateReadLevels ==
    ASSUME TypeInv, LevelInv, NEW w \in Workers, NEW u \in Units, UpdateRead(w, u)
    PROVE  LevelInv'
<1> DEFINE v == [Idle EXCEPT !.pc = "validate", !.target = u, !.was = unit[u]]
<1>1. v.pc = "validate" /\ v.target = u /\ v.was = unit[u]
  BY DEF Idle
<1>2. Set(w, v) /\ u \in Stored /\ UNCHANGED <<unit, releveled>>
  BY DEF UpdateRead, history
<1> HIDE DEF v
<1>3. LevelKnownNext(v)
  BY <1>1, <1>2 DEF LevelKnownNext, Stored
<1> QED
  BY <1>1, <1>2, <1>3, QuietLevels

LEMMA UpdateValidateLevels ==
    ASSUME TypeInv, LevelInv, NEW w \in Workers, UpdateValidate(w)
    PROVE  LevelInv'
<1> DEFINE q(d) == [req[w] EXCEPT !.pc = "update", !.dto = d]
<1>1. (\E d \in Bodies : Valid(q(d)) /\ Set(w, q(d))) \/ Set(w, Idle)
  BY DEF UpdateValidate
<1>2. /\ UNCHANGED <<unit, releveled>> /\ Stored' = Stored
      /\ req[w].pc = "validate" /\ req[w] \in Request
  BY DEF UpdateValidate, At, TypeInv, TypeOK, Stored
<1>3. CASE Set(w, Idle)
  BY <1>2, <1>3, IdleKnown, QuietLevels
<1>4. ASSUME NEW d \in Bodies, Valid(q(d)), Set(w, q(d))
      PROVE  LevelInv'
  <2>1. q(d).pc = "update" /\ q(d).target = req[w].target /\ q(d).was = req[w].was /\ q(d).dto = d
    BY <1>2 DEF Request
  <2>2. LevelKnown(req[w])
    BY DEF LevelInv
  <2> HIDE DEF q
  <2>3. ASSUME d.parent \in Units
        PROVE  OneBelowNext(d.parent, Given(d.level, q(d).was.level))
    <3>1. ParentToCheck(q(d)) = d.parent
      BY <2>1, <2>3, HierarchyAssumption DEF ParentToCheck
    <3> QED
      BY <1>2, <1>4, <2>1, <3>1 DEF Valid, ValidParent, OneBelowNext
  <2>4. LevelKnownNext(q(d))
    BY <1>2, <2>1, <2>2, <2>3 DEF LevelKnown, LevelKnownNext
  <2> QED
    BY <1>2, <1>4, <2>4, QuietLevels
<1> QED
  BY <1>1, <1>3, <1>4

\* A unit that keeps its level is moved below one that keeps its own.
LEMMA UpdateWriteLevels ==
    ASSUME TypeInv, LevelInv, NEW w \in Workers, UpdateWrite(w)
    PROVE  LevelInv'
<1> DEFINE q == req[w]
           t == q.target
           r == Written(q)
<1>1. /\ q.pc = "update" /\ Set(w, Idle) /\ unit' = [unit EXCEPT ![t] = r]
      /\ releveled' = IF r.level = unit[t].level THEN releveled ELSE releveled \cup {t}
  BY DEF UpdateWrite, At
<1>2. /\ LevelKnown(q) /\ t \in Stored /\ t \in Units /\ q.dto \in Fields /\ unit[t] \in Row
  BY <1>1 DEF LevelInv, LevelKnown, Stored, TypeInv, TypeOK, Request
<1>3. /\ r.stored = unit[t].stored /\ r.level = Given(q.dto.level, unit[t].level)
      /\ r.parent = Given(q.dto.parent, unit[t].parent)
  BY <1>2, WrittenType
<1>4. unit'[t] = r /\ \A x \in Units : x # t => unit'[x] = unit[x]
  BY <1>1, <1>2 DEF TypeInv, TypeOK
<1> HIDE DEF r
<1>5. Stored' = Stored
  BY <1>3, <1>4 DEF Stored
<1>6. LevelsKept
  BY <1>1, <1>4, <1>5 DEF LevelsKept, Stored
<1>7. ASSUME NEW x \in Stored'
      PROVE  /\ x \notin releveled' => OneBelowNext(unit'[x].parent, unit'[x].level)
             /\ unit'[x].parent \in Stored' \cup {NoUnit}
  <2>1. CASE x = t /\ q.dto.parent \in Units
    <3>1. r.parent = q.dto.parent /\ q.dto.parent # NoUnit
      BY <1>3, <2>1, HierarchyAssumption DEF Given
    <3>2. OneBelow(r.parent, Given(q.dto.level, q.was.level))
      BY <1>1, <1>2, <2>1, <3>1 DEF LevelKnown
    <3>3. ASSUME t \notin releveled'
          PROVE  r.level = Given(q.dto.level, q.was.level)
      <4>1. r.level = unit[t].level /\ q.was.level = unit[t].level
        BY <1>1, <1>2, <3>3 DEF LevelKnown
      <4> QED
        BY <1>3, <4>1 DEF Given
    <3>4. OneBelowNext(r.parent, Given(q.dto.level, q.was.level))
      BY <1>6, <3>2, OneBelowStays
    <3> QED
      BY <1>4, <2>1, <3>1, <3>3, <3>4 DEF OneBelowNext
  <2>2. CASE x = t /\ q.dto.parent \notin Units
    <3>1. r.parent \in {unit[t].parent, NoUnit}
      BY <1>2, <1>3, <2>2 DEF Fields, UnitOrNone, Given
    <3>2. /\ unit[t].parent \in Stored \cup {NoUnit}
          /\ t \notin releveled => OneBelow(unit[t].parent, unit[t].level)
      BY <1>2 DEF LevelInv
    <3>3. t \notin releveled' => OneBelowNext(unit[t].parent, r.level)
      BY <1>1, <1>6, <3>2, OneBelowStays
    <3> QED
      BY <1>4, <1>5, <2>2, <3>1, <3>2, <3>3 DEF OneBelowNext
  <2>3. CASE x # t
    <3>1. x \in Stored /\ unit'[x] = unit[x]
      BY <1>4, <1>5, <2>3 DEF Stored
    <3>2. /\ x \notin releveled' => OneBelow(unit[x].parent, unit[x].level)
          /\ unit[x].parent \in Stored \cup {NoUnit}
      BY <1>6, <3>1 DEF LevelInv, LevelsKept
    <3> QED
      BY <1>5, <1>6, <3>1, <3>2, OneBelowStays
  <2> QED
    BY <2>1, <2>2, <2>3
<1>8. (\A x \in Workers : LevelKnown(req[x]))'
  BY <1>1, <1>6, IdleKnown, SetLevels
<1> QED
  BY <1>7, <1>8 DEF LevelInv, OneBelow, OneBelowNext

LEMMA PathLevels ==
    ASSUME TypeInv, LevelInv, NEW w \in Workers,
           PathStep(w) \/ \E u \in Units : PathRead(w, u)
    PROVE  LevelInv'
<1>1. UNCHANGED <<unit, releveled>>
  BY DEF PathStep, PathRead, history
<1>2. PICK v : Set(w, v) /\ v.pc \in {"path", "idle"}
  BY WalkSets
<1>3. LevelKnownNext(v)
  BY <1>2 DEF LevelKnownNext
<1> QED
  BY <1>1, <1>2, <1>3, QuietLevels

LEMMA LevelStep == TypeInv /\ LevelInv /\ [Next]_vars => LevelInv'
<1> SUFFICES ASSUME TypeInv, LevelInv, [Next]_vars PROVE LevelInv'
  OBVIOUS
<1>1. CASE UNCHANGED vars
  BY <1>1 DEF vars, history, LevelInv, OneBelow, LevelKnown, Stored, Given
<1> QED
  BY <1>1, CreateCheckLevels, CreateWriteLevels, UpdateReadLevels, UpdateValidateLevels,
     UpdateWriteLevels, PathLevels DEF Next

LEMMA LevelInit == Init => LevelInv
<1> SUFFICES ASSUME Init PROVE LevelInv
  OBVIOUS
<1>1. Stored = {}
  BY DEF Init, Stored, Unused
<1>2. \A w \in Workers : req[w] = Idle
  BY DEF Init
<1> QED
  BY <1>1, <1>2, IdleGood DEF LevelInv, LevelKnown

\* Levels run out: along a cycle they would fall for ever.  The levels at or below
\* one of the cycle would all have a predecessor among them, and yet miss none.
LEMMA LevelsEnd == TypeOK /\ LevelInv => NoCycle
<1> SUFFICES ASSUME TypeOK, LevelInv,
                    NEW S \in (SUBSET (Stored \ releveled)) \ {{}},
                    \A u \in S : unit[u].parent \in S
             PROVE  FALSE
  BY DEF NoCycle
<1> DEFINE U == {n \in Levels : \E u \in S : unit[u].level <= n}
           last == Depth - 1
           before == [n \in U |-> n - 1]
<1>1. \A u \in S : /\ u \in Units /\ unit[u].level \in Levels
                   /\ unit[u].parent \in S /\ unit[u].level = unit[unit[u].parent].level + 1
  BY HierarchyAssumption DEF TypeOK, Row, Stored, LevelInv, OneBelow
<1>2. last \in U
  <2>1. PICK u \in S : TRUE
    OBVIOUS
  <2>2. unit[u].level \in Levels
    BY <1>1
  <2> QED
    BY <2>2, HierarchyAssumption DEF Levels
<1>3. ASSUME NEW n \in U PROVE n - 1 \in U \ {last}
  <2>1. PICK u \in S : unit[u].level <= n
    OBVIOUS
  <2>2. unit[unit[u].parent].level \in Levels /\ unit[unit[u].parent].level <= n - 1
    BY <1>1, <1>3, <2>1 DEF Levels
  <2> QED
    BY <1>1, <1>3, <2>2, HierarchyAssumption DEF Levels
<1>4. IsFiniteSet(U)
  <2>1. IsFiniteSet(Levels)
    BY FS_Interval, HierarchyAssumption DEF Levels
  <2>2. U \in SUBSET Levels
    OBVIOUS
  <2> QED
    BY <2>1, <2>2, FS_Subset
<1>5. IsFiniteSet(U \ {last}) /\ Cardinality(U \ {last}) < Cardinality(U)
  <2> HIDE DEF U, last
  <2>1. Cardinality(U) \in Nat
    BY <1>4, FS_CardinalityType
  <2>2. /\ IsFiniteSet(U \ {last})
        /\ Cardinality(U \ {last}) = IF last \in U THEN Cardinality(U) - 1 ELSE Cardinality(U)
    BY <1>4, FS_RemoveElement
  <2> QED
    BY <1>2, <2>1, <2>2
<1>6. before \in [U -> U \ {last}]
  BY <1>3
<1>7. \E m, n \in U : m # n /\ before[m] = before[n]
  <2> HIDE DEF U, before
  <2> QED
    BY <1>4, <1>5, <1>6, FS_PigeonHole
<1> QED
  BY <1>7, HierarchyAssumption DEF Levels

\* However requests overlap and whatever else updates write, units do not become their own
\* ancestors unless the level of one in the circle was edited.
THEOREM NeverCyclic == Spec => []NoCycle
<1>1. TypeInv /\ LevelInv /\ [Next]_vars => (TypeInv /\ LevelInv)'
  BY TypeStep, LevelStep
<1>2. TypeInv /\ LevelInv => NoCycle
  BY LevelsEnd DEF TypeInv
<1> QED
  BY <1>1, <1>2, TypeInit, LevelInit, PTL DEF Spec

=============================================================================
