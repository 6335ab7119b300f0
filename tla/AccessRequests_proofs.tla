------------------------ MODULE AccessRequests_proofs ------------------------
(***************************************************************************)
(* For every number of users, roles and requests.  Requests that overlap   *)
(* and crash overturn a decision only if they had read the request before  *)
(* it, and its requester hears of the decision in force.  Requests that    *)
(* wait for each other leave one active request for access, one decision   *)
(* that was announced as it was made, no role that survives its            *)
(* revocation, and a policy with the level of the record.                  *)
(***************************************************************************)
EXTENDS AccessRequests, FiniteSetTheorems, TLAPS

-----------------------------------------------------------------------------
(* Types *)

LEMMA IdleType == Idle \in Request
BY DEF Idle, Request, Decisions, Levels

\* A request that moves on keeps what it was given.
LEMMA MovesOn ==
    ASSUME NEW q \in Request, NEW p \in {"ask", "decide", "tell", "policy"}
    PROVE  LET v == [q EXCEPT !.pc = p] IN
           /\ v \in Request /\ v.pc = p
           /\ v.actor = q.actor /\ v.level = q.level /\ v.wanted = q.wanted
           /\ v.ask = q.ask /\ v.decision = q.decision
<1> DEFINE v == [q EXCEPT !.pc = p]
<1>1. /\ v.pc = p
      /\ v.actor = q.actor /\ v.level = q.level /\ v.wanted = q.wanted
      /\ v.ask = q.ask /\ v.decision = q.decision
  BY DEF Request
<1>2. p \in {"idle", "assignFind", "assign", "revoke", "askFind", "ask",
             "check", "decide", "tell", "level", "policy"}
  OBVIOUS
<1>3. v \in Request
  BY <1>2 DEF Request
<1> QED
  BY <1>1, <1>3

LEMMA MovesToAssign ==
    ASSUME NEW q \in Request, NEW a \in Assignments \cup {NoAssignment}
    PROVE  LET v == [q EXCEPT !.pc = "assign", !.assignment = a] IN
           v \in Request /\ v.pc = "assign" /\ v.assignment = a /\ v.role = q.role
<1> DEFINE v == [q EXCEPT !.pc = "assign", !.assignment = a]
<1>1. v.pc = "assign" /\ v.assignment = a /\ v.role = q.role
  BY DEF Request
<1>2. v \in Request
  BY DEF Request
<1> QED
  BY <1>1, <1>2

LEMMA IdleFields == Idle.pc = "idle"
BY DEF Idle

LEMMA TypeInit == Init => TypeOK
<1> SUFFICES ASSUME Init PROVE TypeOK
  OBVIOUS
<1>1. Admin \in Role /\ Admin \in Role \cup {NoRole}
  BY AccessAssumption DEF Admin, Role, GlobalRoles
<1>2. assignment \in [Assignments -> Assignment]
  BY <1>1 DEF Init, Assignment
<1>3. ask \in [Asks -> AccessRequest]
  BY DEF Init, AccessRequest
<1>4. told \in [Asks -> SUBSET Decisions]
  BY DEF Init
<1>5. req \in [Workers -> Request]
  BY IdleType DEF Init
<1> QED
  BY <1>2, <1>3, <1>4, <1>5 DEF Init, TypeOK

\* A request that moves on leaves the others where they are.
LEMMA RequestStep ==
    ASSUME TypeOK, NEW w \in Workers, NEW value \in Request, Set(w, value)
    PROVE  /\ req' \in [Workers -> Request]
           /\ req'[w] = value
           /\ \A v \in Workers : v # w => req'[v] = req[v]
BY DEF TypeOK, Set

LEMMA TypeStep == TypeOK /\ [Next]_vars => TypeOK'
<1> SUFFICES ASSUME TypeOK, [Next]_vars PROVE TypeOK'
  OBVIOUS
<1> USE DEF TypeOK
<1>b. ASSUME NEW w \in Workers, NEW value \in Request, Begin(w, value),
             UNCHANGED <<assignment, ask, told, silenced, level, policy, now, orderly>>
      PROVE  TypeOK'
  <2>1. req' \in [Workers -> Request]
    BY <1>b, RequestStep DEF Begin
  <2> QED
    BY <1>b, <2>1 DEF Begin
<1>1. ASSUME NEW w \in Workers, NEW u \in Users, NEW role \in Offers, AssignRead(w, u, role)
      PROVE  TypeOK'
  <2>1. role \in Role \cup {NoRole}
    BY AccessAssumption
  <2>2. PICK active \in BOOLEAN :
          Begin(w, [Idle EXCEPT !.pc = "assignFind", !.role = role, !.active = active])
    BY <1>1 DEF AssignRead
  <2>3. [Idle EXCEPT !.pc = "assignFind", !.role = role, !.active = active] \in Request
    BY <2>1, IdleType DEF Idle, Request
  <2> QED
    BY <1>1, <1>b, <2>2, <2>3 DEF AssignRead
<1>2. ASSUME NEW w \in Workers, NEW u \in Users, NEW a \in Assignments, RevokeRead(w, u, a)
      PROVE  TypeOK'
  <2>1. [Idle EXCEPT !.pc = "revoke", !.assignment = a] \in Request
    BY IdleType DEF Idle, Request
  <2> QED
    BY <1>2, <1>b, <2>1 DEF RevokeRead
<1>3. ASSUME NEW w \in Workers, NEW u \in Users, AskRead(w, u)
      PROVE  TypeOK'
  <2>1. [Idle EXCEPT !.pc = "askFind", !.actor = u] \in Request
    BY IdleType DEF Idle, Request
  <2> QED
    BY <1>3, <1>b, <2>1 DEF AskRead
<1>4. ASSUME NEW w \in Workers, NEW u \in Users, NEW r \in Asks, DecideRead(w, u, r)
      PROVE  TypeOK'
  <2>1. PICK d \in Decisions :
          Begin(w, [Idle EXCEPT !.pc = "check", !.actor = u, !.ask = r,
                                !.decision = d, !.level = level])
    BY <1>4 DEF DecideRead
  <2>2. [Idle EXCEPT !.pc = "check", !.actor = u, !.ask = r,
                     !.decision = d, !.level = level] \in Request
    BY IdleType DEF Idle, Request
  <2> QED
    BY <1>4, <1>b, <2>1, <2>2 DEF DecideRead
<1>5. ASSUME NEW w \in Workers, NEW u \in Users, NEW l \in Levels, LevelRead(w, u, l)
      PROVE  TypeOK'
  <2>1. [Idle EXCEPT !.pc = "level", !.level = level, !.wanted = l] \in Request
    BY IdleType DEF Idle, Request
  <2> QED
    BY <1>5, <1>b, <2>1 DEF LevelRead
<1>6. ASSUME NEW w \in Workers, AssignFind(w) PROVE TypeOK'
  <2>1. PICK a \in Assignments \cup {NoAssignment} :
          Set(w, [req[w] EXCEPT !.pc = "assign", !.assignment = a])
    BY <1>6 DEF AssignFind, RowsOf
  <2>2. [req[w] EXCEPT !.pc = "assign", !.assignment = a] \in Request
    BY MovesToAssign
  <2> QED
    BY <1>6, <2>1, <2>2, RequestStep DEF AssignFind
<1>7. ASSUME NEW w \in Workers, AssignWrite(w) PROVE TypeOK'
  <2>1. req' \in [Workers -> Request]
    BY <1>7, IdleType, RequestStep DEF AssignWrite
  <2>2. req[w].role \in Role \cup {NoRole} /\ req[w].active \in BOOLEAN
    BY DEF Request
  <2>3. assignment' \in [Assignments -> Assignment]
    BY <1>7, <2>2 DEF AssignWrite, Assignment
  <2> QED
    BY <1>7, <2>1, <2>3 DEF AssignWrite
<1>8. ASSUME NEW w \in Workers, RevokeWrite(w) PROVE TypeOK'
  <2>1. req' \in [Workers -> Request]
    BY <1>8, IdleType, RequestStep DEF RevokeWrite
  <2>2. assignment' \in [Assignments -> Assignment]
    BY <1>8 DEF RevokeWrite, Assignment
  <2> QED
    BY <1>8, <2>1, <2>2 DEF RevokeWrite
<1>9. ASSUME NEW w \in Workers, AskFind(w) PROVE TypeOK'
  <2>1. [req[w] EXCEPT !.pc = "ask"] \in Request
    BY DEF Request
  <2> QED
    BY <1>9, <2>1, IdleType, RequestStep DEF AskFind
<1>10. ASSUME NEW w \in Workers, AskCreate(w) PROVE TypeOK'
  <2>1. req' \in [Workers -> Request]
    BY <1>10, IdleType, RequestStep DEF AskCreate
  <2>2. req[w].actor \in Users \cup {NoUser}
    BY DEF Request
  <2>3. ask' \in [Asks -> AccessRequest]
    BY <1>10, <2>2 DEF AskCreate, AccessRequest
  <2> QED
    BY <1>10, <2>1, <2>3 DEF AskCreate
<1>11. ASSUME NEW w \in Workers, DecideCheck(w) PROVE TypeOK'
  <2>1. [req[w] EXCEPT !.pc = "decide"] \in Request
    BY DEF Request
  <2> QED
    BY <1>11, <2>1, IdleType, RequestStep DEF DecideCheck
<1>12. ASSUME NEW w \in Workers, DecideWrite(w) PROVE TypeOK'
  <2>1. [req[w] EXCEPT !.pc = "tell"] \in Request /\ req[w].decision \in Decisions
    BY DEF Request
  <2>2. Expiry(req[w].decision) \in Nat
    BY AccessAssumption DEF Expiry
  <2>3. ask' \in [Asks -> AccessRequest]
    BY <1>12, <2>1, <2>2 DEF DecideWrite, AccessRequest
  <2> QED
    BY <1>12, <2>1, <2>3, RequestStep DEF DecideWrite
<1>13. ASSUME NEW w \in Workers, Tell(w) PROVE TypeOK'
  <2>1. req' \in [Workers -> Request]
    BY <1>13, IdleType, RequestStep DEF Tell
  <2>2. req[w].decision \in Decisions
    BY DEF Request
  <2>3. told' \in [Asks -> SUBSET Decisions]
    BY <1>13, <2>2 DEF Tell
  <2> QED
    BY <1>13, <2>1, <2>3 DEF Tell
<1>14. ASSUME NEW w \in Workers, LevelWrite(w) PROVE TypeOK'
  <2>1. [req[w] EXCEPT !.pc = "policy"] \in Request /\ req[w].wanted \in Levels
    BY DEF Request
  <2> QED
    BY <1>14, <2>1, IdleType, RequestStep DEF LevelWrite
<1>15. ASSUME NEW w \in Workers, PolicyWrite(w) PROVE TypeOK'
  <2>1. req[w].wanted \in Levels
    BY DEF Request
  <2> QED
    BY <1>15, <2>1, IdleType, RequestStep DEF PolicyWrite
<1>16. ASSUME NEW w \in Workers, Crash(w) PROVE TypeOK'
  <2>1. req' \in [Workers -> Request]
    BY <1>16, IdleType, RequestStep DEF Crash
  <2>2. req[w].ask \in Asks \cup {NoAsk}
    BY DEF Request
  <2> QED
    BY <1>16, <2>1, <2>2 DEF Crash
<1>17. CASE Tick
  BY <1>17 DEF Tick
<1>18. CASE UNCHANGED vars
  BY <1>18 DEF vars
<1> QED
  BY <1>1, <1>2, <1>3, <1>4, <1>5, <1>6, <1>7, <1>8, <1>9, <1>10, <1>11, <1>12,
     <1>13, <1>14, <1>15, <1>16, <1>17, <1>18 DEF Next, Arrive, Serve

\* Rows and requests keep their ranges, whatever overlaps and crashes.
THEOREM TypeCorrect == Spec => []TypeOK
<1>1. Init => TypeOK
  BY TypeInit
<1>2. TypeOK /\ [Next]_vars => TypeOK'
  BY TypeStep
<1> QED
  BY <1>1, <1>2, PTL DEF Spec

-----------------------------------------------------------------------------
(* Requests that do not overlap *)

\* What the reads of a request have found, and is still so.
Prepared(w) ==
    LET q == req[w] IN
    /\ At(w, "assign") /\ q.assignment = NoAssignment => RowsOf(q.role) = {}
    /\ At(w, "revoke") =>
          q.assignment \in Assignments /\ assignment[q.assignment].to # NoRole
    /\ At(w, "ask") => ~Duplicate(q.actor)
    /\ q.pc \in {"check", "decide"} =>
          q.ask \in Asks /\ ask[q.ask].status = "pending" /\ q.level = level
    /\ At(w, "decide") => MayDecide(q.actor, level)
    /\ At(w, "tell") => q.ask \in Asks /\ ask[q.ask].status = q.decision
    /\ At(w, "level") => q.level = level
    /\ At(w, "policy") => q.wanted = level

OneByOne == \A v, w \in Workers : ~At(v, "idle") /\ ~At(w, "idle") => v = w

OneRow ==
    \A a, b \in Assignments :
        assignment[a].to = assignment[b].to /\ assignment[a].to # NoRole => a = b

Active(r) ==
    \/ ask[r].status = "pending"
    \/ ask[r].status = "approved" /\ ask[r].expires > now

OneActive ==
    \A r, s \in Asks : Active(r) /\ Active(s) /\ ask[r].by = ask[s].by => r = s

Announced ==
    \A r \in Asks :
        \/ told[r] = {ask[r].status} \cap Decisions
        \/ told[r] = {} /\ \E w \in Workers : At(w, "tell") /\ req[w].ask = r

PolicyFollows == policy = level \/ \E w \in Workers : At(w, "policy")

TablesOK == OneRow /\ OneActive /\ Announced /\ PolicyFollows

OrderlyInv ==
    orderly => OneByOne /\ (\A w \in Workers : Prepared(w)) /\ TablesOK

Inv == TypeOK /\ OrderlyInv

LEMMA InvInit == Init => Inv
<1> SUFFICES ASSUME Init PROVE Inv
  OBVIOUS
<1>1. TypeOK
  BY TypeInit
<1>2. OneByOne /\ \A w \in Workers : Prepared(w)
  BY DEF Init, OneByOne, Prepared, At, Idle
<1>3. OneRow
  BY DEF Init, OneRow
<1>4. OneActive /\ Announced /\ PolicyFollows
  BY DEF Init, OneActive, Active, Announced, PolicyFollows, Decisions
<1> QED
  BY <1>1, <1>2, <1>3, <1>4 DEF Inv, OrderlyInv, TablesOK

\* A step of one request leaves nothing to show for the others.
LEMMA OthersIdle ==
    ASSUME TypeOK, NEW w \in Workers,
           \A v \in Workers : v # w => At(v, "idle"),
           NEW value \in Request, Set(w, value), Prepared(w)'
    PROVE  OneByOne' /\ \A v \in Workers : Prepared(v)'
<1>1. \A v \in Workers : v # w => At(v, "idle")'
  BY RequestStep DEF At
<1>2. OneByOne'
  BY <1>1 DEF OneByOne
<1>3. ASSUME NEW v \in Workers PROVE Prepared(v)'
  <2>1. CASE v = w
    BY <2>1
  <2>2. CASE v # w
    BY <1>1, <2>2 DEF Prepared, At
  <2> QED
    BY <2>1, <2>2
<1> QED
  BY <1>2, <1>3

\* Nobody is in progress when an orderly request comes in.
LEMMA OnlyBegun ==
    ASSUME TypeOK, orderly, NEW w \in Workers, NEW value \in Request, Begin(w, value)
    PROVE  \A v \in Workers : At(v, "idle")
<1>1. Busy \in SUBSET Workers
  BY DEF Busy
<1>2. IsFiniteSet(Busy) /\ Cardinality(Busy) \in Nat
  BY <1>1, FS_Subset, FS_CardinalityType, AccessAssumption
<1>3. Cardinality(Busy) < 1
  BY DEF Begin, Room
<1>4. Cardinality(Busy) = 0
  BY <1>2, <1>3
<1>5. Busy = {}
  BY <1>2, <1>4, FS_EmptySet
<1> QED
  BY <1>5 DEF Busy, At

\* Nobody else is in progress when a request makes its next call.
LEMMA OnlyServed ==
    ASSUME Inv, orderly, NEW w \in Workers, ~At(w, "idle")
    PROVE  /\ \A v \in Workers : v # w => At(v, "idle")
           /\ Prepared(w) /\ TablesOK
BY DEF Inv, OrderlyInv, OneByOne

\* The tables are as they were, and no announcement or policy was in hand.
LEMMA SameTables ==
    ASSUME TablesOK, UNCHANGED <<assignment, ask, told, level, policy, now>>,
           \A v \in Workers : ~At(v, "tell") /\ ~At(v, "policy")
    PROVE  TablesOK'
<1>1. OneRow' /\ OneActive'
  BY DEF TablesOK, OneRow, OneActive, Active
<1>2. Announced'
  BY DEF TablesOK, Announced
<1>3. PolicyFollows'
  BY DEF TablesOK, PolicyFollows
<1> QED
  BY <1>1, <1>2, <1>3 DEF TablesOK

LEMMA InvStep == Inv /\ [Next]_vars => Inv'
<1> SUFFICES ASSUME Inv, [Next]_vars PROVE OrderlyInv'
  BY TypeStep DEF Inv
<1> SUFFICES ASSUME orderly'
             PROVE  OneByOne' /\ (\A w \in Workers : Prepared(w))' /\ TablesOK'
  BY DEF OrderlyInv
<1>t. TypeOK /\ TypeOK'
  BY TypeStep DEF Inv
<1>o. orderly
  <2>1. ASSUME NEW w \in Workers, NEW u \in Users, Arrive(w, u) PROVE orderly
    BY <2>1 DEF Arrive, AssignRead, RevokeRead, AskRead, DecideRead, LevelRead
  <2>2. ASSUME NEW w \in Workers, Serve(w) PROVE orderly
    BY <2>2 DEF Serve, AssignFind, AssignWrite, RevokeWrite, AskFind, AskCreate, DecideCheck,
                DecideWrite, Tell, LevelWrite, PolicyWrite
  <2>3. ASSUME NEW w \in Workers, Crash(w) PROVE orderly
    BY <2>3 DEF Crash
  <2>4. CASE Tick
    BY <2>4 DEF Tick
  <2>5. CASE UNCHANGED vars
    BY <2>5 DEF vars
  <2> QED
    BY <2>1, <2>2, <2>3, <2>4, <2>5 DEF Next
<1>i. TablesOK
  BY <1>o DEF Inv, OrderlyInv
<1> DEFINE Goal == OneByOne' /\ (\A w \in Workers : Prepared(w))' /\ TablesOK'
\* A request that comes in.
<1>b. ASSUME NEW w \in Workers, NEW value \in Request, Begin(w, value),
             UNCHANGED <<assignment, ask, told, level, policy, now, orderly>>,
             value.pc \in {"assignFind", "askFind"} \/ Prepared(w)'
      PROVE  Goal
  <2>1. \A v \in Workers : At(v, "idle")
    BY <1>b, <1>t, <1>o, OnlyBegun
  <2>2. Set(w, value)
    BY <1>b DEF Begin
  <2>3. Prepared(w)'
    BY <1>b, <1>t, <2>2, RequestStep DEF Prepared, At
  <2>4. OneByOne' /\ \A v \in Workers : Prepared(v)'
    BY <1>t, <2>1, <2>2, <2>3, OthersIdle
  <2>5. \A v \in Workers : ~At(v, "tell") /\ ~At(v, "policy")
    BY <2>1 DEF At
  <2>6. TablesOK'
    BY <1>b, <1>i, <2>5, SameTables
  <2> QED
    BY <2>4, <2>6
\* A request that goes on.
<1>s. ASSUME NEW w \in Workers, ~At(w, "idle"), NEW value \in Request, Set(w, value),
             Prepared(w)', TablesOK'
      PROVE  Goal
  BY <1>s, <1>t, <1>o, OnlyServed, OthersIdle
<1> HIDE DEF Goal
<1>1. ASSUME NEW w \in Workers, NEW u \in Users, NEW role \in Offers, AssignRead(w, u, role)
      PROVE  Goal
  <2>1. role \in Role \cup {NoRole}
    BY AccessAssumption
  <2>2. PICK active \in BOOLEAN :
          Begin(w, [Idle EXCEPT !.pc = "assignFind", !.role = role, !.active = active])
    BY <1>1 DEF AssignRead
  <2> DEFINE value == [Idle EXCEPT !.pc = "assignFind", !.role = role, !.active = active]
  <2>3. value \in Request /\ value.pc = "assignFind"
    BY <2>1, IdleType DEF Idle, Request
  <2> HIDE DEF value
  <2> QED
    BY <1>1, <1>b, <2>2, <2>3 DEF AssignRead, value
<1>2. ASSUME NEW w \in Workers, NEW u \in Users, NEW a \in Assignments, RevokeRead(w, u, a)
      PROVE  Goal
  <2> DEFINE value == [Idle EXCEPT !.pc = "revoke", !.assignment = a]
  <2>1. value \in Request /\ value.pc = "revoke" /\ value.assignment = a
    BY IdleType DEF Idle, Request
  <2>2. Begin(w, value)
    BY <1>2 DEF RevokeRead
  <2> HIDE DEF value
  <2>3. req'[w] = value
    BY <1>t, <2>1, <2>2, RequestStep DEF Begin
  <2>4. Prepared(w)'
    BY <1>2, <2>1, <2>3 DEF RevokeRead, Prepared, At
  <2> QED
    BY <1>2, <1>b, <2>1, <2>2, <2>4 DEF RevokeRead
<1>3. ASSUME NEW w \in Workers, NEW u \in Users, AskRead(w, u)
      PROVE  Goal
  <2> DEFINE value == [Idle EXCEPT !.pc = "askFind", !.actor = u]
  <2>1. value \in Request /\ value.pc = "askFind"
    BY IdleType DEF Idle, Request
  <2>2. Begin(w, value)
    BY <1>3 DEF AskRead
  <2> HIDE DEF value
  <2> QED
    BY <1>3, <1>b, <2>1, <2>2 DEF AskRead
<1>4. ASSUME NEW w \in Workers, NEW u \in Users, NEW r \in Asks, DecideRead(w, u, r)
      PROVE  Goal
  <2>1. PICK d \in Decisions :
          Begin(w, [Idle EXCEPT !.pc = "check", !.actor = u, !.ask = r,
                                !.decision = d, !.level = level])
    BY <1>4 DEF DecideRead
  <2> DEFINE value == [Idle EXCEPT !.pc = "check", !.actor = u, !.ask = r,
                                   !.decision = d, !.level = level]
  <2>2. value \in Request /\ value.pc = "check" /\ value.ask = r /\ value.level = level
    BY <1>t, IdleType DEF Idle, Request, TypeOK
  <2>3. Begin(w, value)
    BY <2>1
  <2> HIDE DEF value
  <2>4. req'[w] = value
    BY <1>t, <2>2, <2>3, RequestStep DEF Begin
  <2>5. Prepared(w)'
    BY <1>4, <2>2, <2>4 DEF DecideRead, Prepared, At
  <2> QED
    BY <1>4, <1>b, <2>2, <2>3, <2>5 DEF DecideRead
<1>5. ASSUME NEW w \in Workers, NEW u \in Users, NEW l \in Levels, LevelRead(w, u, l)
      PROVE  Goal
  <2> DEFINE value == [Idle EXCEPT !.pc = "level", !.level = level, !.wanted = l]
  <2>1. value \in Request /\ value.pc = "level" /\ value.level = level
    BY <1>t, IdleType DEF Idle, Request, TypeOK
  <2>2. Begin(w, value)
    BY <1>5 DEF LevelRead
  <2> HIDE DEF value
  <2>3. req'[w] = value
    BY <1>t, <2>1, <2>2, RequestStep DEF Begin
  <2>4. Prepared(w)'
    BY <1>5, <2>1, <2>3 DEF LevelRead, Prepared, At
  <2> QED
    BY <1>5, <1>b, <2>1, <2>2, <2>4 DEF LevelRead
<1>q. \A w \in Workers : req[w] \in Request
  BY <1>t DEF TypeOK
\* The call a request makes next, while the others are idle.
<1>c. ASSUME NEW w \in Workers, ~At(w, "idle")
      PROVE  /\ \A v \in Workers : v # w => At(v, "idle")
             /\ Prepared(w)
             /\ ~At(w, "tell") => \A v \in Workers : ~At(v, "tell")
             /\ ~At(w, "policy") => \A v \in Workers : ~At(v, "policy")
  BY <1>c, <1>o, OnlyServed DEF At
<1>6. ASSUME NEW w \in Workers, AssignFind(w) PROVE Goal
  <2>1. PICK a \in Assignments \cup {NoAssignment} :
          /\ Set(w, [req[w] EXCEPT !.pc = "assign", !.assignment = a])
          /\ a = NoAssignment => RowsOf(req[w].role) = {}
    BY <1>6, AccessAssumption DEF AssignFind, RowsOf
  <2> DEFINE value == [req[w] EXCEPT !.pc = "assign", !.assignment = a]
  <2>2. /\ value \in Request /\ value.pc = "assign"
        /\ value.assignment = a /\ value.role = req[w].role
    BY <1>q, MovesToAssign
  <2>3. Set(w, value)
    BY <2>1
  <2> HIDE DEF value
  <2>4. req'[w] = value
    BY <1>t, <2>2, <2>3, RequestStep
  <2>5. Prepared(w)'
    BY <1>6, <2>1, <2>2, <2>4 DEF AssignFind, Prepared, At, RowsOf
  <2>6. TablesOK'
    BY <1>6, <1>c, <1>i, SameTables DEF AssignFind, At
  <2> QED
    BY <1>6, <1>s, <2>2, <2>3, <2>5, <2>6 DEF AssignFind, At
<1>7. ASSUME NEW w \in Workers, AssignWrite(w) PROVE Goal
  <2>1. Prepared(w)'
    BY <1>7, <1>t, IdleType, RequestStep DEF AssignWrite, Prepared, At, Idle
  <2>2. req[w].assignment = NoAssignment => RowsOf(req[w].role) = {}
    BY <1>7, <1>c DEF AssignWrite, Prepared, At
  <2>3. OneRow'
    <3>1. CASE req[w].assignment # NoAssignment
      BY <1>7, <1>t, <1>i, <3>1 DEF AssignWrite, OneRow, TablesOK, TypeOK, Assignment
    <3>2. CASE req[w].assignment = NoAssignment
      <4>1. PICK a \in Assignments :
              assignment' = [assignment EXCEPT ![a] = [to |-> req[w].role,
                                                       active |-> req[w].active]]
        BY <1>7, <2>2, <3>2 DEF AssignWrite, RowsOf
      <4>2. \A b \in Assignments : assignment[b].to # req[w].role
        BY <2>2, <3>2 DEF RowsOf
      <4> QED
        BY <1>t, <1>i, <4>1, <4>2 DEF OneRow, TablesOK, TypeOK
    <3> QED
      BY <3>1, <3>2
  <2>4. OneActive'
    BY <1>7, <1>i DEF AssignWrite, TablesOK, OneActive, Active
  <2>5. Announced' /\ PolicyFollows'
    BY <1>7, <1>c, <1>i DEF AssignWrite, TablesOK, Announced, PolicyFollows, At
  <2> QED
    BY <1>7, <1>s, <2>1, <2>3, <2>4, <2>5, IdleType DEF AssignWrite, At, TablesOK
<1>8. ASSUME NEW w \in Workers, RevokeWrite(w) PROVE Goal
  <2>1. Prepared(w)'
    BY <1>8, <1>t, IdleType, RequestStep DEF RevokeWrite, Prepared, At, Idle
  <2>2. OneRow'
    BY <1>8, <1>t, <1>i DEF RevokeWrite, OneRow, TablesOK, TypeOK, Assignment
  <2>3. OneActive'
    BY <1>8, <1>i DEF RevokeWrite, TablesOK, OneActive, Active
  <2>4. Announced' /\ PolicyFollows'
    BY <1>8, <1>c, <1>i DEF RevokeWrite, TablesOK, Announced, PolicyFollows, At
  <2> QED
    BY <1>8, <1>s, <2>1, <2>2, <2>3, <2>4, IdleType DEF RevokeWrite, At, TablesOK
<1>9. ASSUME NEW w \in Workers, AskFind(w) PROVE Goal
  <2> DEFINE value == IF Duplicate(req[w].actor) THEN Idle ELSE [req[w] EXCEPT !.pc = "ask"]
  <2>1. /\ value \in Request /\ value.pc \in {"idle", "ask"}
        /\ value.pc = "ask" => value.actor = req[w].actor /\ ~Duplicate(req[w].actor)
    <3>1. CASE Duplicate(req[w].actor)
      BY <3>1, IdleType, IdleFields
    <3>2. CASE ~Duplicate(req[w].actor)
      BY <1>q, <3>2, MovesOn
    <3> QED
      BY <3>1, <3>2
  <2>2. Set(w, value)
    BY <1>9 DEF AskFind
  <2> HIDE DEF value
  <2>3. req'[w] = value
    BY <1>t, <2>1, <2>2, RequestStep
  <2>4. Prepared(w)'
    BY <1>9, <2>1, <2>3 DEF AskFind, Prepared, At, Duplicate
  <2>5. TablesOK'
    BY <1>9, <1>c, <1>i, SameTables DEF AskFind, At
  <2> QED
    BY <1>9, <1>s, <2>1, <2>2, <2>4, <2>5 DEF AskFind, At
<1>10. ASSUME NEW w \in Workers, AskCreate(w) PROVE Goal
  <2>1. Prepared(w)'
    BY <1>10, <1>t, IdleType, RequestStep DEF AskCreate, Prepared, At, Idle
  <2>2. ~Duplicate(req[w].actor)
    BY <1>10, <1>c DEF AskCreate, Prepared, At
  <2>3. PICK r \in Asks :
          /\ ask[r].status = "none"
          /\ ask' = [ask EXCEPT ![r] = [status |-> "pending", by |-> req[w].actor,
                                        expires |-> 0]]
    BY <1>10 DEF AskCreate
  <2>4. \A s \in Asks : s # r => ask'[s] = ask[s]
    BY <1>t, <2>3 DEF TypeOK
  <2>5. ask'[r].by = req[w].actor /\ ask'[r].status = "pending"
    BY <1>t, <2>3 DEF TypeOK
  <2>6. UNCHANGED <<assignment, told, level, policy, now>>
    BY <1>10 DEF AskCreate
  <2>7. OneActive'
    <3>1. \A s \in Asks : s # r => (Active(s)' <=> Active(s))
      BY <2>4, <2>6 DEF Active
    <3>2. \A s \in Asks : Active(s) => ask[s].by # req[w].actor
      BY <2>2 DEF Duplicate, Active
    <3> QED
      BY <1>i, <2>4, <2>5, <3>1, <3>2 DEF OneActive, TablesOK
  <2>8. Announced'
    BY <1>10, <1>c, <1>i, <2>3, <2>4, <2>5, <2>6
    DEF AskCreate, Announced, TablesOK, Decisions, At
  <2>9. OneRow' /\ PolicyFollows'
    BY <1>10, <1>c, <1>i, <2>6 DEF AskCreate, OneRow, PolicyFollows, TablesOK, At
  <2> QED
    BY <1>10, <1>s, <2>1, <2>7, <2>8, <2>9, IdleType DEF AskCreate, At, TablesOK
<1>11. ASSUME NEW w \in Workers, DecideCheck(w) PROVE Goal
  <2> DEFINE value == IF MayDecide(req[w].actor, req[w].level)
                      THEN [req[w] EXCEPT !.pc = "decide"] ELSE Idle
  <2>1. /\ value \in Request /\ value.pc \in {"idle", "decide"}
        /\ value.pc = "decide" =>
              /\ value.actor = req[w].actor /\ value.level = req[w].level
              /\ value.ask = req[w].ask /\ MayDecide(req[w].actor, req[w].level)
    <3>1. CASE MayDecide(req[w].actor, req[w].level)
      BY <1>q, <3>1, MovesOn
    <3>2. CASE ~MayDecide(req[w].actor, req[w].level)
      BY <3>2, IdleType, IdleFields
    <3> QED
      BY <3>1, <3>2
  <2>2. Set(w, value)
    BY <1>11 DEF DecideCheck
  <2> HIDE DEF value
  <2>3. req'[w] = value
    BY <1>t, <2>1, <2>2, RequestStep
  <2>4. /\ req[w].ask \in Asks /\ ask[req[w].ask].status = "pending"
        /\ req[w].level = level
    BY <1>11, <1>c DEF DecideCheck, Prepared, At
  <2>5. Held' = Held /\ level' = level
    BY <1>11 DEF DecideCheck, Held
  <2>6. At(w, "decide")' => MayDecide(req[w].actor, level)'
    BY <1>11, <2>1, <2>3, <2>4, <2>5
    DEF At, DecideCheck, MayDecide, CanReview, CanAdministerSovereign, HasRole
  <2>7. Prepared(w)'
    BY <1>11, <2>1, <2>3, <2>4, <2>5, <2>6 DEF DecideCheck, Prepared, At
  <2>8. TablesOK'
    BY <1>11, <1>c, <1>i, SameTables DEF DecideCheck, At
  <2> QED
    BY <1>11, <1>s, <2>1, <2>2, <2>7, <2>8 DEF DecideCheck, At
<1>12. ASSUME NEW w \in Workers, DecideWrite(w) PROVE Goal
  <2> DEFINE q == req[w]
             value == [q EXCEPT !.pc = "tell"]
  <2>1. /\ value \in Request /\ value.pc = "tell"
        /\ value.ask = q.ask /\ value.decision = q.decision
    BY <1>q, MovesOn
  <2>2. Set(w, value)
    BY <1>12 DEF DecideWrite
  <2>3. q.decision \in Decisions
    BY <1>t DEF TypeOK, Request
  <2>4. q.ask \in Asks /\ ask[q.ask].status = "pending"
    BY <1>12, <1>c DEF DecideWrite, Prepared, At
  <2> HIDE DEF value
  <2>5. req'[w] = value
    BY <1>t, <2>1, <2>2, RequestStep
  <2>6. /\ ask'[q.ask].status = q.decision /\ ask'[q.ask].by = ask[q.ask].by
        /\ \A s \in Asks : s # q.ask => ask'[s] = ask[s]
    BY <1>12, <1>t, <2>4 DEF DecideWrite, TypeOK, AccessRequest
  <2>7. UNCHANGED <<assignment, told, level, policy, now>>
    BY <1>12 DEF DecideWrite
  <2>8. Prepared(w)'
    BY <2>1, <2>4, <2>5, <2>6 DEF Prepared, At
  <2>9. OneActive'
    <3>1. \A s \in Asks : Active(s)' => Active(s)
      BY <2>4, <2>6, <2>7 DEF Active
    <3>2. \A s \in Asks : ask'[s].by = ask[s].by
      BY <2>6
    <3> QED
      BY <1>i, <3>1, <3>2 DEF OneActive, TablesOK
  <2>10. Announced'
    <3>1. \A v \in Workers : ~At(v, "tell")
      BY <1>12, <1>c DEF DecideWrite, At
    <3>2. told[q.ask] = {}
      BY <1>i, <2>4, <3>1 DEF Announced, TablesOK, Decisions
    <3>3. At(w, "tell")' /\ req'[w].ask = q.ask
      BY <2>1, <2>5 DEF At
    <3> QED
      BY <1>i, <2>6, <2>7, <3>1, <3>2, <3>3 DEF Announced, TablesOK
  <2>11. OneRow' /\ PolicyFollows'
    BY <1>12, <1>c, <1>i, <2>7 DEF DecideWrite, OneRow, PolicyFollows, TablesOK, At
  <2> QED
    BY <1>12, <1>s, <2>1, <2>2, <2>8, <2>9, <2>10, <2>11 DEF DecideWrite, At, TablesOK
<1>13. ASSUME NEW w \in Workers, Tell(w) PROVE Goal
  <2> DEFINE q == req[w]
  <2>1. Prepared(w)'
    BY <1>13, <1>t, IdleType, RequestStep DEF Tell, Prepared, At, Idle
  <2>2. /\ q.ask \in Asks /\ ask[q.ask].status = q.decision
        /\ q.decision \in Decisions
    BY <1>13, <1>c, <1>t DEF Tell, Prepared, At, TypeOK, Request
  <2>3. UNCHANGED <<assignment, ask, level, policy, now>>
    BY <1>13 DEF Tell
  <2>4. /\ told'[q.ask] = told[q.ask] \cup {q.decision}
        /\ \A s \in Asks : s # q.ask => told'[s] = told[s]
    BY <1>13, <1>t, <2>2 DEF Tell, TypeOK
  <2>5. Announced'
    <3>1. told[q.ask] \subseteq {q.decision}
      BY <1>i, <2>2 DEF Announced, TablesOK
    <3>2. told'[q.ask] = {ask'[q.ask].status} \cap Decisions
      BY <2>2, <2>3, <2>4, <3>1
    <3>3. \A s \in Asks : s # q.ask => told[s] = {ask[s].status} \cap Decisions
      BY <1>13, <1>c, <1>i DEF Tell, Announced, TablesOK, At
    <3> QED
      BY <2>3, <2>4, <3>2, <3>3 DEF Announced
  <2>6. OneActive' /\ OneRow'
    BY <1>i, <2>3 DEF OneActive, Active, OneRow, TablesOK
  <2>7. PolicyFollows'
    BY <1>13, <1>c, <1>i, <2>3 DEF Tell, PolicyFollows, TablesOK, At
  <2> QED
    BY <1>13, <1>s, <2>1, <2>5, <2>6, <2>7, IdleType DEF Tell, At, TablesOK
<1>14. ASSUME NEW w \in Workers, LevelWrite(w) PROVE Goal
  <2> DEFINE q == req[w]
             value == IF q.wanted # q.level THEN [q EXCEPT !.pc = "policy"] ELSE Idle
  <2>1. /\ value \in Request /\ value.pc \in {"idle", "policy"}
        /\ value.pc = "policy" => value.wanted = q.wanted
        /\ q.wanted # q.level => value.pc = "policy"
    <3>1. CASE q.wanted # q.level
      BY <1>q, <3>1, MovesOn
    <3>2. CASE q.wanted = q.level
      BY <3>2, IdleType, IdleFields
    <3> QED
      BY <3>1, <3>2
  <2>2. Set(w, value)
    BY <1>14 DEF LevelWrite
  <2> HIDE DEF value
  <2>3. req'[w] = value
    BY <1>t, <2>1, <2>2, RequestStep
  <2>4. Prepared(w)'
    BY <1>14, <2>1, <2>3 DEF LevelWrite, Prepared, At
  <2>5. policy = level
    BY <1>14, <1>c, <1>i DEF LevelWrite, PolicyFollows, TablesOK, At
  <2>6. PolicyFollows'
    <3>1. CASE q.wanted = q.level
      BY <1>14, <1>c, <2>5, <3>1 DEF LevelWrite, PolicyFollows, Prepared, At
    <3>2. CASE q.wanted # q.level
      BY <2>1, <2>3, <3>2 DEF PolicyFollows, At
    <3> QED
      BY <3>1, <3>2
  <2>7. OneActive' /\ OneRow' /\ Announced'
    BY <1>14, <1>c, <1>i DEF LevelWrite, OneActive, Active, OneRow, Announced, TablesOK, At
  <2> QED
    BY <1>14, <1>s, <2>1, <2>2, <2>4, <2>6, <2>7 DEF LevelWrite, At, TablesOK
<1>15. ASSUME NEW w \in Workers, PolicyWrite(w) PROVE Goal
  <2>1. Prepared(w)'
    BY <1>15, <1>t, IdleType, RequestStep DEF PolicyWrite, Prepared, At, Idle
  <2>2. PolicyFollows'
    BY <1>15, <1>c DEF PolicyWrite, PolicyFollows, Prepared, At
  <2>3. OneActive' /\ OneRow' /\ Announced'
    BY <1>15, <1>c, <1>i DEF PolicyWrite, OneActive, Active, OneRow, Announced, TablesOK, At
  <2> QED
    BY <1>15, <1>s, <2>1, <2>2, <2>3, IdleType DEF PolicyWrite, At, TablesOK
<1>16. ASSUME NEW w \in Workers, Crash(w) PROVE Goal
  BY <1>16, <1>o DEF Crash
<1>17. CASE Tick
  <2>1. /\ now \in Nat /\ now' = now + 1
        /\ UNCHANGED <<assignment, ask, told, level, policy, req>>
    BY <1>17, <1>t DEF Tick, TypeOK
  <2>2. \A r \in Asks : ask[r].expires \in Nat
    BY <1>t DEF TypeOK, AccessRequest
  <2>3. OneByOne' /\ OneRow' /\ Announced' /\ PolicyFollows'
    BY <1>i, <1>o, <2>1
    DEF Inv, OrderlyInv, OneByOne, OneRow, Announced, PolicyFollows, TablesOK, At
  <2>4. OneActive'
    <3>1. \A r \in Asks : Active(r)' => Active(r)
      BY <2>1, <2>2 DEF Active
    <3> QED
      BY <1>i, <2>1, <3>1 DEF OneActive, TablesOK
  <2>5. ASSUME NEW w \in Workers PROVE Prepared(w)'
    <3>1. Prepared(w)
      BY <1>o DEF Inv, OrderlyInv
    <3>2. ~Duplicate(req[w].actor) => ~Duplicate(req[w].actor)'
      BY <2>1, <2>2 DEF Duplicate
    <3>3. Held' = Held
      BY <2>1 DEF Held
    <3>4. MayDecide(req[w].actor, level) => MayDecide(req[w].actor, level)'
      BY <2>1, <3>3 DEF MayDecide, CanReview, CanAdministerSovereign, HasRole
    <3> QED
      BY <2>1, <3>1, <3>2, <3>4 DEF Prepared, At, RowsOf
  <2> QED
    BY <2>3, <2>4, <2>5 DEF Goal, TablesOK
<1>18. CASE UNCHANGED vars
  <2>1. Held' = Held
    BY <1>18 DEF vars, Held
  <2>2. ASSUME NEW w \in Workers PROVE Prepared(w)'
    <3>1. Prepared(w)
      BY <1>o DEF Inv, OrderlyInv
    <3> QED
      BY <1>18, <2>1, <3>1
      DEF vars, Prepared, At, RowsOf, Duplicate, MayDecide, CanReview,
          CanAdministerSovereign, HasRole
  <2>3. OneByOne' /\ TablesOK'
    BY <1>18, <1>i, <1>o
    DEF vars, Inv, OrderlyInv, OneByOne, OneRow, OneActive, Active, Announced,
        PolicyFollows, TablesOK, At
  <2> QED
    BY <2>2, <2>3 DEF Goal
<1> QED
  <2>1. ASSUME NEW w \in Workers, NEW u \in Users, Arrive(w, u) PROVE Goal
    BY <2>1, <1>1, <1>2, <1>3, <1>4, <1>5 DEF Arrive
  <2>2. ASSUME NEW w \in Workers, Serve(w) PROVE Goal
    BY <2>2, <1>6, <1>7, <1>8, <1>9, <1>10, <1>11, <1>12, <1>13, <1>14, <1>15 DEF Serve
  <2> QED
    BY <2>1, <2>2, <1>16, <1>17, <1>18 DEF Next, Goal

LEMMA InvHolds == Spec => []Inv
<1>1. Init => Inv
  BY InvInit
<1>2. Inv /\ [Next]_vars => Inv'
  BY InvStep
<1> QED
  BY <1>1, <1>2, PTL DEF Spec

-----------------------------------------------------------------------------
(* Theorems *)

\* Requests that do not overlap leave a user one request that is pending or
\* still grants something (governance.service.ts:119-126).
THEOREM NoDuplicates == Spec => []OneActiveRequest
<1>1. Inv => OneActiveRequest
  BY DEF Inv, OrderlyInv, TablesOK, OneActive, Active, OneActiveRequest
<1> QED
  BY <1>1, InvHolds, PTL

\* While requests wait for each other and none dies, the requester has been told
\* what was decided, and nothing else, whenever none is in progress
\* (governance.service.ts:198).
THEOREM ToldTheTruth == Spec => []ToldAsDecided
<1>1. Inv => ToldAsDecided
  BY DEF Inv, OrderlyInv, TablesOK, Announced, ToldAsDecided, Quiet, Busy, At
<1> QED
  BY <1>1, InvHolds, PTL

\* While requests wait for each other and none dies, the policy has the level of
\* the record whenever none is in progress (archives.service.ts:274-280).
THEOREM PolicyKept == Spec => []PolicyAgrees
<1>1. Inv => PolicyAgrees
  BY DEF Inv, OrderlyInv, TablesOK, PolicyFollows, PolicyAgrees, Quiet, Busy, At
<1> QED
  BY <1>1, InvHolds, PTL

\* The three together, each for requests that wait for each other.
THEOREM TablesInAgreement == Spec => []TablesAgree
<1> QED  BY NoDuplicates, ToldTheTruth, PolicyKept, PTL DEF TablesAgree

\* Whoever changes the status of a decided request had read it as pending, and
\* nobody reads it as pending any more, however requests overlap and crash
\* (governance.service.ts:180).
THEOREM NoDecisionOverturned == Spec => DecisionStands
<1>1. TypeOK /\ [Next]_vars =>
        [\A r \in Asks : ask[r].status \in Decisions =>
            Open(r)' \subseteq Open(r) /\ (ask'[r] # ask[r] => Open(r)' # Open(r))]_vars
  <2> SUFFICES ASSUME TypeOK, Next, NEW r \in Asks, ask[r].status \in Decisions
               PROVE  Open(r)' \subseteq Open(r) /\ (ask'[r] # ask[r] => Open(r)' # Open(r))
    OBVIOUS
  <2>s. ASSUME NEW w \in Workers, NEW value \in Request, Set(w, value),
               value.pc \in {"check", "decide"} => w \in Open(value.ask)
        PROVE  Open(r)' \subseteq Open(r)
    BY <2>s, RequestStep DEF Open
  <2>1. ASSUME NEW w \in Workers, NEW u \in Users, Arrive(w, u)
        PROVE  Open(r)' \subseteq Open(r) /\ ask' = ask
    <3>1. CASE \E s \in Asks : DecideRead(w, u, s)
      <4>1. PICK s \in Asks, d \in Decisions :
              /\ ask[s].status = "pending"
              /\ Set(w, [Idle EXCEPT !.pc = "check", !.actor = u, !.ask = s,
                                     !.decision = d, !.level = level])
        BY <3>1 DEF DecideRead, Begin
      <4> DEFINE value == [Idle EXCEPT !.pc = "check", !.actor = u, !.ask = s,
                                       !.decision = d, !.level = level]
      <4>2. value \in Request /\ value.ask = s
        BY IdleType DEF TypeOK, Idle, Request
      <4>3. s # r
        BY <4>1 DEF Decisions
      <4> HIDE DEF value
      <4>4. req'[w].ask = s /\ \A v \in Workers : v # w => req'[v] = req[v]
        BY <4>1, <4>2, RequestStep DEF value
      <4> QED
        BY <3>1, <4>3, <4>4 DEF Open, DecideRead
    <3>2. CASE ~\E s \in Asks : DecideRead(w, u, s)
      <4>1. PICK value : /\ Begin(w, value) /\ ask' = ask
                         /\ value.pc \in {"assignFind", "revoke", "askFind", "level"}
        <5>1. CASE \E role \in Offers : AssignRead(w, u, role)
          <6>1. PICK role \in Offers, active \in BOOLEAN :
                  Begin(w, [Idle EXCEPT !.pc = "assignFind", !.role = role, !.active = active])
            BY <5>1 DEF AssignRead
          <6>2. [Idle EXCEPT !.pc = "assignFind", !.role = role,
                             !.active = active].pc = "assignFind"
            BY DEF Idle
          <6>3. ask' = ask
            BY <5>1 DEF AssignRead
          <6> QED
            BY <6>1, <6>2, <6>3
        <5>2. CASE \E a \in Assignments : RevokeRead(w, u, a)
          <6>1. PICK a \in Assignments :
                  Begin(w, [Idle EXCEPT !.pc = "revoke", !.assignment = a])
            BY <5>2 DEF RevokeRead
          <6>2. [Idle EXCEPT !.pc = "revoke", !.assignment = a].pc = "revoke"
            BY DEF Idle
          <6>3. ask' = ask
            BY <5>2 DEF RevokeRead
          <6> QED
            BY <6>1, <6>2, <6>3
        <5>3. CASE AskRead(w, u)
          <6>1. Begin(w, [Idle EXCEPT !.pc = "askFind", !.actor = u])
            BY <5>3 DEF AskRead
          <6>2. [Idle EXCEPT !.pc = "askFind", !.actor = u].pc = "askFind"
            BY DEF Idle
          <6>3. ask' = ask
            BY <5>3 DEF AskRead
          <6> QED
            BY <6>1, <6>2, <6>3
        <5>4. CASE \E l \in Levels : LevelRead(w, u, l)
          <6>1. PICK l \in Levels :
                  Begin(w, [Idle EXCEPT !.pc = "level", !.level = level, !.wanted = l])
            BY <5>4 DEF LevelRead
          <6>2. [Idle EXCEPT !.pc = "level", !.level = level, !.wanted = l].pc = "level"
            BY DEF Idle
          <6>3. ask' = ask
            BY <5>4 DEF LevelRead
          <6> QED
            BY <6>1, <6>2, <6>3
        <5> QED
          BY <2>1, <3>2, <5>1, <5>2, <5>3, <5>4 DEF Arrive
      <4>2. req'[w] = value /\ \A v \in Workers : v # w => req'[v] = req[v]
        BY <4>1 DEF TypeOK, Begin, Set
      <4> QED
        BY <4>1, <4>2 DEF Open
    <3> QED
      BY <3>1, <3>2
  <2>2. ASSUME NEW w \in Workers, DecideCheck(w)
        PROVE  Open(r)' \subseteq Open(r) /\ ask' = ask
    <3>1. PICK value \in {Idle, [req[w] EXCEPT !.pc = "decide"]} : Set(w, value)
      BY <2>2 DEF DecideCheck
    <3>2. /\ [req[w] EXCEPT !.pc = "decide"] \in Request
          /\ [req[w] EXCEPT !.pc = "decide"].ask = req[w].ask
      BY MovesOn DEF TypeOK
    <3>3. value \in Request /\ (value.pc = "idle" \/ value.ask = req[w].ask)
      BY <3>1, <3>2, IdleType, IdleFields
    <3>4. value.pc \in {"check", "decide"} => w \in Open(value.ask)
      BY <2>2, <3>3 DEF DecideCheck, At, Open
    <3> QED
      BY <2>2, <2>s, <3>1, <3>3, <3>4 DEF DecideCheck
  <2>3. ASSUME NEW w \in Workers, DecideWrite(w)
        PROVE  Open(r)' \subseteq Open(r) /\ (ask'[r] # ask[r] => Open(r)' # Open(r))
    <3>1. /\ [req[w] EXCEPT !.pc = "tell"] \in Request
          /\ [req[w] EXCEPT !.pc = "tell"].pc = "tell"
      BY MovesOn DEF TypeOK
    <3>2. Set(w, [req[w] EXCEPT !.pc = "tell"]) /\ At(w, "decide")
      BY <2>3 DEF DecideWrite
    <3>3. Open(r)' \subseteq Open(r)
      BY <2>s, <3>1, <3>2
    <3>4. req'[w].pc = "tell"
      BY <3>1, <3>2, RequestStep
    <3>5. w \notin Open(r)'
      BY <3>4 DEF Open
    <3>6. ask'[r] # ask[r] => r = req[w].ask
      BY <2>3 DEF DecideWrite, TypeOK
    <3>7. r = req[w].ask => w \in Open(r)
      BY <3>2 DEF Open, At
    <3> QED
      BY <3>3, <3>5, <3>6, <3>7
  <2>4. ASSUME NEW w \in Workers, Serve(w) \/ Crash(w), ~DecideCheck(w), ~DecideWrite(w)
        PROVE  Open(r)' \subseteq Open(r) /\ ask'[r] = ask[r]
    <3>1. PICK value : Set(w, value) /\ value.pc \in {"idle", "assign", "ask", "policy"}
      <4>1. \A p \in {"ask", "policy"} : [req[w] EXCEPT !.pc = p].pc = p
        BY MovesOn DEF TypeOK
      <4>2. CASE AssignFind(w)
        <5>1. PICK a : Set(w, [req[w] EXCEPT !.pc = "assign", !.assignment = a])
          BY <4>2 DEF AssignFind
        <5>2. [req[w] EXCEPT !.pc = "assign", !.assignment = a].pc = "assign"
          BY DEF TypeOK, Request
        <5> QED
          BY <5>1, <5>2
      <4>3. CASE AskFind(w) \/ LevelWrite(w)
        BY <4>1, <4>3, IdleFields DEF AskFind, LevelWrite
      <4>4. CASE Set(w, Idle)
        BY <4>4, IdleFields
      <4> QED
        BY <2>4, <4>2, <4>3, <4>4
        DEF Serve, Crash, AssignWrite, RevokeWrite, AskCreate, Tell, PolicyWrite
    <3>2. req'[w] = value /\ \A v \in Workers : v # w => req'[v] = req[v]
      BY <3>1 DEF TypeOK, Set
    <3>3. ask'[r] = ask[r]
      BY <2>4 DEF Serve, Crash, AssignFind, AssignWrite, RevokeWrite, AskFind, AskCreate,
                  Tell, LevelWrite, PolicyWrite, TypeOK, Decisions
    <3> QED
      BY <3>1, <3>2, <3>3 DEF Open
  <2>5. CASE Tick
    BY <2>5 DEF Tick, Open
  <2> QED
    BY <2>1, <2>2, <2>3, <2>4, <2>5 DEF Next, Serve
<1> QED
  BY <1>1, TypeCorrect, PTL DEF Spec, DecisionStands

\* The requester is told of the decision in force, however many there were and
\* however they overlapped, unless the process died before it said so
\* (governance.service.ts:188-207).
THEOREM OutcomeAnnounced == Spec => []OutcomeTold
<1> DEFINE Telling(w, r) ==
             At(w, "tell") /\ req[w].ask = r /\ req[w].decision = ask[r].status
           Known(r) == \/ ask[r].status \in told[r] \/ r \in silenced
                       \/ \E w \in Workers : Telling(w, r)
<1>1. Init => OutcomeTold
  BY DEF Init, OutcomeTold, Decisions
<1>2. TypeOK /\ OutcomeTold /\ [Next]_vars => OutcomeTold'
  <2> SUFFICES ASSUME TypeOK, OutcomeTold, [Next]_vars, NEW r \in Asks,
                      ask'[r].status \in Decisions
               PROVE  Known(r)'
    BY DEF OutcomeTold
  <2>k. ask[r].status \in Decisions => Known(r)
    BY DEF OutcomeTold
  <2> HIDE DEF Known
\* Those who are about to announce stay so while another request makes a step.
  <2>o. ASSUME NEW w \in Workers, ~At(w, "tell"), NEW value, Set(w, value),
               UNCHANGED <<told, silenced>>, ask'[r].status = ask[r].status
        PROVE  Known(r)'
    <3>1. \A v \in Workers : At(v, "tell") => req'[v] = req[v]
      BY <2>o DEF TypeOK, Set, At
    <3> QED
      BY <2>k, <2>o, <3>1 DEF Known, At
  <2>1. ASSUME NEW w \in Workers, NEW u \in Users, Arrive(w, u) PROVE Known(r)'
    <3>1. PICK value : Begin(w, value)
      BY <2>1 DEF Arrive, AssignRead, RevokeRead, AskRead, DecideRead, LevelRead
    <3>2. UNCHANGED <<ask, told, silenced>>
      BY <2>1 DEF Arrive, AssignRead, RevokeRead, AskRead, DecideRead, LevelRead
    <3> QED
      BY <2>o, <3>1, <3>2 DEF Begin, At
  <2>2. ASSUME NEW w \in Workers, DecideWrite(w) PROVE Known(r)'
    <3>1. /\ [req[w] EXCEPT !.pc = "tell"] \in Request
          /\ [req[w] EXCEPT !.pc = "tell"].pc = "tell"
          /\ [req[w] EXCEPT !.pc = "tell"].ask = req[w].ask
          /\ [req[w] EXCEPT !.pc = "tell"].decision = req[w].decision
      BY MovesOn DEF TypeOK
    <3>2. Set(w, [req[w] EXCEPT !.pc = "tell"]) /\ At(w, "decide")
      BY <2>2 DEF DecideWrite
    <3>3. /\ req'[w].pc = "tell" /\ req'[w].ask = req[w].ask
          /\ req'[w].decision = req[w].decision
          /\ \A v \in Workers : v # w => req'[v] = req[v]
      BY <3>1, <3>2, RequestStep
    <3>4. CASE r = req[w].ask
      <4>1. ask'[r].status = req[w].decision
        BY <2>2, <3>4 DEF DecideWrite, TypeOK, AccessRequest
      <4> QED
        BY <3>3, <3>4, <4>1 DEF Known, At
    <3>5. CASE r # req[w].ask
      <4>1. ask'[r] = ask[r] /\ told' = told /\ (r \in silenced => r \in silenced')
        BY <2>2, <3>5 DEF DecideWrite, TypeOK
      <4>2. \A v \in Workers : At(v, "tell") => req'[v] = req[v]
        BY <3>2, <3>3 DEF At
      <4> QED
        BY <2>k, <4>1, <4>2 DEF Known, At
    <3> QED
      BY <3>4, <3>5
  <2>3. ASSUME NEW w \in Workers, Tell(w) PROVE Known(r)'
    <3>1. /\ ask' = ask /\ silenced' = silenced
          /\ told[r] \subseteq told'[r]
          /\ req[w].ask = r => req[w].decision \in told'[r]
      BY <2>3 DEF Tell, TypeOK
    <3>2. \A v \in Workers : v # w => req'[v] = req[v]
      BY <2>3 DEF Tell, Set, TypeOK
    <3> QED
      BY <2>k, <3>1, <3>2 DEF Known, At
  <2>4. ASSUME NEW w \in Workers, Crash(w) PROVE Known(r)'
    <3>1. UNCHANGED <<ask, told>> /\ silenced \subseteq silenced'
      BY <2>4 DEF Crash
    <3>2. At(w, "tell") /\ req[w].ask = r => r \in silenced'
      BY <2>4 DEF Crash
    <3>3. \A v \in Workers : v # w => req'[v] = req[v]
      BY <2>4 DEF Crash, Set, TypeOK
    <3> QED
      BY <2>k, <3>1, <3>2, <3>3 DEF Known, At
  <2>5. ASSUME NEW w \in Workers, Serve(w), ~DecideWrite(w), ~Tell(w) PROVE Known(r)'
    <3>1. PICK value : Set(w, value)
      BY <2>5 DEF Serve, AssignFind, AssignWrite, RevokeWrite, AskFind, AskCreate,
                  DecideCheck, LevelWrite, PolicyWrite
    <3>2. ~At(w, "tell") /\ UNCHANGED <<told, silenced>>
      BY <2>5 DEF Serve, At, AssignFind, AssignWrite, RevokeWrite, AskFind, AskCreate,
                  DecideCheck, LevelWrite, PolicyWrite
    <3>3. ask'[r].status = ask[r].status
      <4>1. CASE AskCreate(w)
        BY <4>1 DEF AskCreate, TypeOK, Decisions
      <4>2. CASE ~AskCreate(w)
        BY <2>5, <4>2 DEF Serve, AssignFind, AssignWrite, RevokeWrite, AskFind,
                          DecideCheck, LevelWrite, PolicyWrite
      <4> QED
        BY <4>1, <4>2
    <3> QED
      BY <2>o, <3>1, <3>2, <3>3
  <2>6. CASE Tick \/ UNCHANGED vars
    BY <2>k, <2>6 DEF Tick, vars, Known, At
  <2> QED
    BY <2>1, <2>2, <2>3, <2>4, <2>5, <2>6 DEF Next
<1> QED
  BY <1>1, <1>2, TypeCorrect, PTL DEF Spec

\* If requests wait for each other and none dies, a role that was revoked is not
\* held by another row (governance.service.ts:108).
THEOREM RevocationTakes == Spec => RevokedIsGone
<1>1. Inv /\ [Next]_vars =>
        [\A w \in Workers : orderly /\ At(w, "revoke") /\ At(w, "idle")' =>
            assignment[req[w].assignment].to \notin Held']_vars
  <2> SUFFICES ASSUME Inv, [Next]_vars, NEW w \in Workers, orderly,
                      At(w, "revoke"), At(w, "idle")'
               PROVE  assignment[req[w].assignment].to \notin Held'
    OBVIOUS
  <2>t. TypeOK
    BY DEF Inv
  <2>1. /\ \A v \in Workers : v # w => At(v, "idle")
        /\ Prepared(w) /\ OneRow
    BY OnlyServed DEF At, TablesOK
  <2>2. RevokeWrite(w)
    <3>1. ~Tick /\ ~UNCHANGED vars
      BY DEF Tick, vars, At
    <3>2. ASSUME NEW v \in Workers, NEW u \in Users, Arrive(v, u) PROVE FALSE
      <4>1. \E value : Begin(v, value)
        BY <3>2 DEF Arrive, AssignRead, RevokeRead, AskRead, DecideRead, LevelRead
      <4>2. At(v, "idle") /\ Room
        BY <4>1 DEF Begin
      <4>3. v # w
        BY <4>2 DEF At
      <4>4. req'[w] = req[w]
        BY <2>t, <4>1, <4>3 DEF Begin, Set, TypeOK
      <4> QED
        BY <4>4 DEF At
    <3>3. ASSUME NEW v \in Workers, Serve(v) PROVE v = w /\ RevokeWrite(w)
      <4>1. v = w
        BY <2>1, <3>3
        DEF Serve, At, AssignFind, AssignWrite, RevokeWrite, AskFind, AskCreate,
            DecideCheck, DecideWrite, Tell, LevelWrite, PolicyWrite
      <4> QED
        BY <3>3, <4>1
        DEF Serve, At, AssignFind, AssignWrite, AskFind, AskCreate, DecideCheck,
            DecideWrite, Tell, LevelWrite, PolicyWrite
    <3>4. \A v \in Workers : ~Crash(v)
      BY DEF Crash
    <3> QED
      BY <3>1, <3>2, <3>3, <3>4 DEF Next
  <2> DEFINE a == req[w].assignment
  <2>3. a \in Assignments /\ assignment[a].to # NoRole
    BY <2>1 DEF Prepared, At
  <2>4. /\ ~assignment'[a].active
        /\ \A b \in Assignments : b # a => assignment'[b] = assignment[b]
    BY <2>2, <2>3, <2>t DEF RevokeWrite, TypeOK, Assignment
  <2>5. ASSUME NEW b \in Assignments, assignment'[b].active
        PROVE  assignment'[b].to # assignment[a].to
    BY <2>1, <2>3, <2>4, <2>5 DEF OneRow
  <2> QED
    BY <2>5 DEF Held
<1> QED
  BY <1>1, InvHolds, PTL DEF Spec, RevokedIsGone

=============================================================================
