------------------------ MODULE TokenRotation_proofs ------------------------
(***************************************************************************)
(* Proofs about TokenRotation for every set of tokens and requests and     *)
(* every value of the bounds.  The invariant IInv says who may point at    *)
(* which token; no conjunct of it is inductive alone, because the type of  *)
(* what a handler copies from the table depends on its cursor being a row, *)
(* and the uniqueness of the live token on the exclusive claim.  For       *)
(* logout and replay ChainInv adds where the walks along a session lead    *)
(* when requests wait for each other.                                      *)
(***************************************************************************)
EXTENDS TokenRotation, FiniteSetTheorems, TLAPS

Used(t) == row[t].state # "unused"

\* The table: fresh ids are blank, sessions start at a used id, and the
\* replaced_by links stay in the session, are unique, and leave revoked rows.
RowsOK ==
    \A t \in Tokens :
        /\ ~Used(t) => row[t] = Unused
        /\ Used(t) => row[t].family \in Tokens /\ Used(row[t].family)
        /\ row[t].next # NoToken =>
              /\ row[t].revoked /\ Used(row[t].next)
              /\ SameSession(t, row[t].next)
              /\ \A u \in Tokens : row[u].next = row[t].next => u = t

\* What a request in state q holds: used tokens, all of the session of the
\* token it was presented.
RequestOK(q) ==
    /\ q.tok # NoToken => Used(q.tok)
    /\ q.cur # NoToken =>
          q.tok # NoToken /\ Used(q.cur) /\ SameSession(q.cur, q.tok)
    /\ q.nxt # NoToken =>
          Used(q.nxt) /\ (q.tok # NoToken => SameSession(q.nxt, q.tok))
    /\ q.pc = "login" => q.tok = NoToken
    /\ q.pc \in {"claim", "won", "link", "wait", "next", "walk", "mark",
                 "cascade"} => q.tok # NoToken
    /\ q.pc \in {"wait", "next", "walk", "mark"} => q.cur # NoToken
    /\ q.pc \in {"link", "next", "done", "lost"} => q.nxt # NoToken

RequestsOK == \A r \in Requests : RequestOK(req[r])

Rotating(q) == q.pc \in {"won", "link"}

\* A rotation in progress owns the token it claimed, and the token it created
\* until it has linked the two.
RotationsOK ==
    /\ \A r \in Requests : Rotating(req[r]) =>
          row[req[r].tok].revoked /\ row[req[r].tok].next = NoToken
    /\ \A q, r \in Requests :
          Rotating(req[q]) /\ Rotating(req[r]) /\ req[q].tok = req[r].tok => q = r
    /\ \A r \in Requests, t \in Tokens : At(r, "link") => row[t].next # req[r].nxt
    /\ \A q, r \in Requests :
          At(q, "link") /\ At(r, "link") /\ req[q].nxt = req[r].nxt => q = r

IInv ==
    /\ TypeOK
    /\ RowsOK
    /\ RequestsOK
    /\ RotationsOK
    /\ OneLiveTokenPerSession

-----------------------------------------------------------------------------
\* A blank request is a request.
LEMMA BlankIsRequest == Blank \in Request
  BY DEF Blank, Request, Running, Final, TokenOrNone, Reasons

\* The invariant holds of the empty table.
LEMMA InitIInv == Init => IInv
<1> SUFFICES ASSUME Init PROVE IInv
  OBVIOUS
<1> USE DEF Init
<1>1. TypeOK
  BY BlankIsRequest DEF TypeOK, Row, Unused, Reasons, TokenOrNone
<1>2. RowsOK
  BY DEF RowsOK, Used, Unused
<1>3. RequestsOK
  BY DEF RequestsOK, RequestOK, Blank
<1>4. RotationsOK
  BY DEF RotationsOK, Rotating, Blank, At
<1>5. OneLiveTokenPerSession
  BY DEF OneLiveTokenPerSession, Live, Stored, Unused, At, Blank
<1>6. QED
  BY <1>1, <1>2, <1>3, <1>4, <1>5 DEF IInv

-----------------------------------------------------------------------------
\* A step that leaves the table alone and moves one request to a sound state
\* outside the rotation proper keeps the invariant.
LEMMA QuietStep ==
  ASSUME IInv, NEW r \in Requests, NEW v \in Request,
         Set(r, v), RequestOK(v), ~Rotating(v),
         UNCHANGED <<row, purging, orderly>>, pw' \in Nat, now' \in Nat
  PROVE  IInv'
<1> USE DEF IInv, Set
<1>1. TypeOK'
  BY DEF TypeOK
<1>2. RowsOK'
  BY DEF RowsOK, Used, SameSession
<1>3. RequestsOK'
  BY DEF RequestsOK, RequestOK, Used, SameSession, TypeOK
<1>4. RotationsOK'
  BY DEF RotationsOK, Rotating, At, TypeOK
<1>5. OneLiveTokenPerSession'
  BY DEF OneLiveTokenPerSession, Live, Stored, SameSession, At, TypeOK, Rotating
<1>6. QED
  BY <1>1, <1>2, <1>3, <1>4, <1>5

\* Revoking rows changes neither which ids are used nor a session nor a link.
LEMMA RevokeKeeps ==
  ASSUME TypeOK, NEW S \in SUBSET Tokens, NEW why \in Reasons, Revoke(S, why)
  PROVE  /\ row' \in [Tokens -> Row]
         /\ \A t \in Tokens :
              /\ row'[t].state = row[t].state
              /\ row'[t].family = row[t].family
              /\ row'[t].next = row[t].next
              /\ row[t].revoked \/ t \in S => row'[t].revoked
              /\ t \notin S => row'[t] = row[t]
<1>1. ASSUME NEW t \in Tokens
      PROVE  /\ row'[t] \in Row
             /\ row'[t].state = row[t].state
             /\ row'[t].family = row[t].family
             /\ row'[t].next = row[t].next
             /\ row[t].revoked \/ t \in S => row'[t].revoked
             /\ t \notin S => row'[t] = row[t]
  <2>1. row[t] \in Row /\ now \in Nat
    BY DEF TypeOK
  <2>2. CASE t \in S
    <3>1. row'[t] = [row[t] EXCEPT !.revoked = TRUE, !.revokedAt = now, !.reason = why]
      BY <2>2 DEF Revoke
    <3>2. row'[t] \in Row
      BY <2>1, <3>1 DEF Row
    <3> QED
      BY <2>1, <2>2, <3>1, <3>2 DEF Row
  <2>3. CASE t \notin S
    BY <2>1, <2>3 DEF Revoke
  <2> QED
    BY <2>2, <2>3
<1>2. row' \in [Tokens -> Row]
  BY <1>1 DEF Revoke
<1> QED
  BY <1>1, <1>2

\* Revoking stored rows while one request moves to a sound state keeps the
\* invariant.
LEMMA RevokeStep ==
  ASSUME IInv, NEW r \in Requests, NEW v \in Request,
         NEW S \in SUBSET Tokens, NEW why \in Reasons,
         \A t \in S : Used(t), Revoke(S, why),
         Set(r, v), RequestOK(v), ~Rotating(v),
         UNCHANGED <<pw, purging, now, orderly>>
  PROVE  IInv'
<1> USE DEF IInv, Set
<1>0. row' \in [Tokens -> Row] /\ \A t \in Tokens :
              /\ row'[t].state = row[t].state
              /\ row'[t].family = row[t].family
              /\ row'[t].next = row[t].next
              /\ row[t].revoked \/ t \in S => row'[t].revoked
              /\ t \notin S => row'[t] = row[t]
  BY RevokeKeeps
<1>1. TypeOK'
  BY <1>0 DEF TypeOK
<1>2. RowsOK'
  BY <1>0 DEF RowsOK, Used, SameSession, TypeOK, Row, TokenOrNone
<1>a. \A q \in Requests : req'[q] \in Request /\ req'[q] = (IF q = r THEN v ELSE req[q])
  BY DEF TypeOK
<1>b. \A x \in Request : RequestOK(x) => RequestOK(x)'
  BY <1>0 DEF RequestOK, Used, SameSession, Request, TokenOrNone
<1>3. RequestsOK'
  BY <1>a, <1>b DEF RequestsOK, TypeOK
<1>c. \A x \in Request : RequestOK(x) /\ Rotating(x) => x.tok \in Tokens
  BY DEF RequestOK, Rotating, Request, TokenOrNone
<1>4. RotationsOK'
  <2>1. \A q \in Requests : Rotating(req'[q]) => q # r /\ req[q].tok \in Tokens
    BY <1>a, <1>c DEF RequestsOK, TypeOK
  <2>2. \A q \in Requests : Rotating(req'[q]) => req'[q] = req[q]
    BY <1>a, <2>1
  <2>3. \A q \in Requests : Rotating(req'[q]) =>
          row'[req'[q].tok].revoked /\ row'[req'[q].tok].next = NoToken
    <3>1. ASSUME NEW q \in Requests, Rotating(req'[q])
          PROVE  row[req[q].tok].revoked /\ row[req[q].tok].next = NoToken
      BY <3>1, <2>2 DEF RotationsOK
    <3>2. ASSUME NEW t \in Tokens, row[t].revoked, row[t].next = NoToken
          PROVE  row'[t].revoked /\ row'[t].next = NoToken
      BY <1>0, <3>2
    <3>3. QED
      BY <2>1, <2>2, <3>1, <3>2
  <2>4. \A q, u \in Requests :
          Rotating(req'[q]) /\ Rotating(req'[u]) /\ req'[q].tok = req'[u].tok => q = u
    BY <2>2 DEF RotationsOK
  <2>5. \A q \in Requests : At(q, "link")' => At(q, "link") /\ req'[q] = req[q]
    BY <2>2 DEF At, Rotating
  <2>6. QED
    BY <1>0, <2>3, <2>4, <2>5 DEF RotationsOK, Rotating
<1>5. OneLiveTokenPerSession'
  <2>1. \A q \in Requests : At(q, "won")' => q # r /\ At(q, "won") /\ req[q].tok \in Tokens
    BY <1>a, <1>c DEF RequestsOK, TypeOK, At, Rotating
  <2>2. \A t \in Tokens : Live(t)' => Live(t)
    BY <1>0 DEF Live, Stored, TypeOK, Row
  <2>3. \A s, t \in Tokens : SameSession(s, t)' = SameSession(s, t)
    BY <1>0 DEF SameSession
  <2>4. \A q \in Requests : At(q, "won")' => req'[q].tok = req[q].tok
    BY <1>a, <2>1
  <2>5. QED
    BY <2>1, <2>2, <2>3, <2>4 DEF OneLiveTokenPerSession, SameSession
<1>6. QED
  BY <1>1, <1>2, <1>3, <1>4, <1>5

-----------------------------------------------------------------------------
\* Creating a row gives a fresh id a row, and changes no other.
LEMMA StoreKeeps ==
  ASSUME IInv, NEW t \in Tokens, NEW fam \in Tokens, NEW c \in Nat,
         fam = t \/ Used(fam), Store(t, fam, c)
  PROVE  /\ row' \in [Tokens -> Row]
         /\ ~Used(t) /\ row[t] = Unused
         /\ row'[t].state = "stored" /\ row'[t].family = fam
         /\ row'[t].next = NoToken
         /\ \A u \in Tokens : u # t => row'[u] = row[u]
         /\ RowsOK'
         /\ \A x \in Request : RequestOK(x) => RequestOK(x)'
<1> USE DEF IInv
<1>1. ~Used(t) /\ row[t] = Unused
  BY DEF Store, Used, RowsOK
<1>2. now + TTL \in Nat
  BY ConstantsAssumption DEF TypeOK
<1>3. row' \in [Tokens -> Row]
  BY <1>2 DEF Store, TypeOK, Row, Unused, Reasons, TokenOrNone
<1>4. /\ row'[t].state = "stored" /\ row'[t].family = fam
      /\ row'[t].next = NoToken
      /\ \A u \in Tokens : u # t => row'[u] = row[u]
  BY DEF Store, TypeOK, Unused
<1>5. \A u \in Tokens : Used(u) => u # t /\ row'[u] = row[u]
  BY <1>1, <1>4
<1>6. RowsOK'
  <2>1. ASSUME NEW u \in Tokens, u # t
        PROVE  /\ ~Used(u)' => row'[u] = Unused
               /\ Used(u)' => row'[u].family \in Tokens /\ Used(row[u].family)'
    BY <2>1, <1>4, <1>5 DEF RowsOK, Used
  <2>2. /\ Used(t)' /\ row'[t].family \in Tokens /\ Used(row[t].family)'
    BY <1>4, <1>5 DEF Used
  <2>3. ASSUME NEW u \in Tokens, row'[u].next # NoToken
        PROVE  /\ u # t /\ row'[u].revoked /\ Used(row[u].next)'
               /\ row'[u].next = row[u].next /\ row'[u].next \in Tokens
               /\ SameSession(u, row[u].next)'
    <3>1. u # t /\ row'[u] = row[u]
      BY <2>3, <1>4
    <3>2. row[u].next \in Tokens /\ Used(row[u].next)
      BY <2>3, <3>1 DEF RowsOK, TypeOK, Row, TokenOrNone
    <3>3. QED
      BY <2>3, <3>1, <3>2, <1>5 DEF RowsOK, SameSession, Used
  <2>4. QED
    BY <2>1, <2>2, <2>3, <1>4 DEF RowsOK, Used
<1>7. ASSUME NEW x \in Request, RequestOK(x) PROVE RequestOK(x)'
  <2>1. \A u \in TokenOrNone : u # NoToken /\ Used(u) =>
            Used(u)' /\ row'[u] = row[u]
    BY <1>5, <1>4 DEF Used, TokenOrNone
  <2>2. x.tok \in TokenOrNone /\ x.cur \in TokenOrNone /\ x.nxt \in TokenOrNone
    BY DEF Request
  <2>3. QED
    BY <1>7, <2>1, <2>2 DEF RequestOK, SameSession
<1>8. QED
  BY <1>1, <1>3, <1>4, <1>6, <1>7

\* Login starts a session of its own.
LEMMA LoginStoreStep ==
  ASSUME IInv, NEW r \in Requests, LoginStore(r) PROVE IInv'
<1> USE DEF IInv
<1>1. PICK t \in Tokens : Store(t, t, req[r].cred) /\ Answer(r, t)
  BY DEF LoginStore
<1>2. PICK pc \in {"done", "lost"} :
        req' = [req EXCEPT ![r] = [Blank EXCEPT !.pc = pc, !.tok = req[r].tok, !.nxt = t]]
  BY <1>1 DEF Answer, End, Set
<1>3. req[r] \in Request /\ req[r].tok = NoToken /\ t # NoToken
  BY ConstantsAssumption DEF TypeOK, RequestsOK, RequestOK, LoginStore, At
<1>0. [Blank EXCEPT !.pc = pc, !.tok = NoToken, !.nxt = t] \in Request
  BY BlankIsRequest DEF Blank, Request, TokenOrNone, Final
<1>4. PICK v \in Request :
        /\ v.pc = pc /\ v.tok = NoToken /\ v.cur = NoToken /\ v.nxt = t
        /\ req' = [req EXCEPT ![r] = v]
  BY <1>0, <1>2, <1>3 DEF Blank
<1>5. req[r].cred \in Nat
  BY <1>3 DEF Request
<1>6. /\ row' \in [Tokens -> Row]
      /\ ~Used(t) /\ row'[t].state = "stored" /\ row'[t].family = t
      /\ row'[t].next = NoToken
      /\ \A u \in Tokens : u # t => row'[u] = row[u]
      /\ RowsOK'
      /\ \A x \in Request : RequestOK(x) => RequestOK(x)'
  BY <1>1, <1>5, StoreKeeps
<1>7. \A q \in Requests : req'[q] = (IF q = r THEN v ELSE req[q])
  BY <1>4 DEF TypeOK
<1>8. TypeOK'
  BY <1>4, <1>6 DEF TypeOK, LoginStore
<1>9. RequestOK(v)'
  BY <1>4, <1>6, <1>3 DEF RequestOK, Used
<1>10. RequestsOK'
  BY <1>6, <1>7, <1>9 DEF RequestsOK, TypeOK
<1>11. \A q \in Requests : Rotating(req'[q]) =>
          /\ q # r /\ req'[q] = req[q] /\ req[q].tok \in Tokens /\ Used(req[q].tok)
          /\ req[q].tok # t
  <2>1. ASSUME NEW q \in Requests, Rotating(req'[q])
        PROVE  q # r /\ req'[q] = req[q] /\ Rotating(req[q])
    BY <2>1, <1>7, <1>4 DEF Rotating
  <2>2. ASSUME NEW q \in Requests, Rotating(req[q])
        PROVE  req[q].tok \in Tokens /\ Used(req[q].tok)
    BY <2>2 DEF Rotating, RequestsOK, RequestOK, TypeOK, Request, TokenOrNone
  <2>3. QED
    BY <2>1, <2>2, <1>6
<1>12. \A q \in Requests : At(q, "link")' => At(q, "link") /\ req[q].nxt \in Tokens /\ req[q].nxt # NoToken
  BY <1>11 DEF At, Rotating, RequestsOK, RequestOK, TypeOK, Request, TokenOrNone
<1>13. RotationsOK'
  <2>1. \A q \in Requests : Rotating(req'[q]) =>
          row'[req'[q].tok].revoked /\ row'[req'[q].tok].next = NoToken
    BY <1>6, <1>11 DEF RotationsOK
  <2>2. \A q, u \in Requests :
          Rotating(req'[q]) /\ Rotating(req'[u]) /\ req'[q].tok = req'[u].tok => q = u
    BY <1>11 DEF RotationsOK
  <2>3. \A q \in Requests, u \in Tokens :
          At(q, "link")' => row'[u].next # req'[q].nxt
    BY <1>6, <1>11, <1>12 DEF RotationsOK, At, Rotating
  <2>4. \A q, u \in Requests :
          At(q, "link")' /\ At(u, "link")' /\ req'[q].nxt = req'[u].nxt => q = u
    BY <1>11, <1>12 DEF RotationsOK, At, Rotating
  <2>5. QED
    BY <2>1, <2>2, <2>3, <2>4 DEF RotationsOK, At
<1>14. OneLiveTokenPerSession'
  <2>1. \A u \in Tokens : Used(u) => row[u].family # t /\ row'[u] = row[u] /\ u # t
    BY <1>6 DEF RowsOK
  <2>2. \A u \in Tokens : Live(u)' /\ u # t => Live(u) /\ Used(u)
    BY <1>6 DEF Live, Stored, Used
  <2>3. \A q \in Requests : At(q, "won")' =>
          /\ At(q, "won") /\ req'[q] = req[q] /\ req[q].tok \in Tokens
          /\ Used(req[q].tok)
    BY <1>11 DEF At, Rotating
  <2>4. ASSUME NEW s \in Tokens, NEW u \in Tokens, Live(s)', Live(u)', SameSession(s, u)'
        PROVE  s = u
    BY <2>4, <2>1, <2>2, <1>6 DEF OneLiveTokenPerSession, SameSession
  <2>5. ASSUME NEW q \in Requests, NEW u \in Requests, At(q, "won")', At(u, "won")',
               SameSession(req[q].tok, req[u].tok)'
        PROVE  q = u
    BY <2>5, <2>1, <2>3 DEF OneLiveTokenPerSession, SameSession
  <2>6. ASSUME NEW u \in Tokens, NEW q \in Requests, Live(u)', At(q, "won")'
        PROVE  ~SameSession(u, req[q].tok)'
    BY <2>6, <2>1, <2>2, <2>3, <1>6 DEF OneLiveTokenPerSession, SameSession
  <2>7. QED
    BY <2>4, <2>5, <2>6 DEF OneLiveTokenPerSession
<1>15. QED
  BY <1>6, <1>8, <1>10, <1>13, <1>14

\* The winner of a rotation continues the session of the token it claimed.
LEMMA StoreReplacementStep ==
  ASSUME IInv, NEW r \in Requests, StoreReplacement(r) PROVE IInv'
<1> USE DEF IInv
<1>2. PICK x \in Request, o \in Tokens, fam \in Tokens :
        /\ x = req[r] /\ o = x.tok /\ fam = row[o].family /\ x.pc = "won"
        /\ Used(o) /\ Used(fam) /\ RequestOK(x) /\ row[o].cred \in Nat
  <2>1. req[r] \in Request /\ RequestOK(req[r]) /\ req[r].pc = "won"
    BY DEF TypeOK, RequestsOK, StoreReplacement, At
  <2>2. req[r].tok \in Tokens /\ Used(req[r].tok)
    BY <2>1 DEF RequestOK, Request, TokenOrNone
  <2>3. QED
    BY <2>1, <2>2 DEF RowsOK, TypeOK, Row
<1>1. PICK t \in Tokens :
        /\ Store(t, fam, row[o].cred)
        /\ req' = [req EXCEPT ![r] = [x EXCEPT !.pc = "link", !.nxt = t]]
  BY <1>2 DEF StoreReplacement, Set
<1>3. t # NoToken /\ o # NoToken
  BY ConstantsAssumption
<1>4. PICK v \in Request :
        /\ v.pc = "link" /\ v.tok = o /\ v.cur = x.cur /\ v.nxt = t
        /\ req' = [req EXCEPT ![r] = v]
  BY <1>1, <1>2 DEF Request, TokenOrNone, Running
<1>6. /\ row' \in [Tokens -> Row]
      /\ ~Used(t) /\ row'[t].state = "stored" /\ row'[t].family = fam
      /\ row'[t].next = NoToken
      /\ \A u \in Tokens : u # t => row'[u] = row[u]
      /\ RowsOK'
      /\ \A y \in Request : RequestOK(y) => RequestOK(y)'
  BY <1>1, <1>2, StoreKeeps
<1>7. \A q \in Requests : req'[q] = (IF q = r THEN v ELSE req[q])
  BY <1>4 DEF TypeOK
<1>8. TypeOK'
  BY <1>4, <1>6 DEF TypeOK, StoreReplacement
<1>9. RequestOK(v)'
  <2>1. RequestOK(x)'
    BY <1>2, <1>6
  <2>2. Used(t)' /\ SameSession(t, o)'
    BY <1>2, <1>6 DEF Used, SameSession
  <2>3. QED
    BY <2>1, <2>2, <1>2, <1>3, <1>4 DEF RequestOK
<1>10. RequestsOK'
  BY <1>6, <1>7, <1>9 DEF RequestsOK, TypeOK
<1>11. \A q \in Requests : Rotating(req'[q]) =>
          /\ Rotating(req[q]) /\ req'[q].tok = req[q].tok
          /\ req[q].tok \in Tokens /\ Used(req[q].tok) /\ req[q].tok # t
  <2>1. ASSUME NEW q \in Requests, Rotating(req'[q])
        PROVE  Rotating(req[q]) /\ req'[q].tok = req[q].tok
    BY <2>1, <1>7, <1>4, <1>2 DEF Rotating
  <2>2. ASSUME NEW q \in Requests, Rotating(req[q])
        PROVE  req[q].tok \in Tokens /\ Used(req[q].tok)
    BY <2>2 DEF Rotating, RequestsOK, RequestOK, TypeOK, Request, TokenOrNone
  <2>3. QED
    BY <2>1, <2>2, <1>6
<1>12. \A q \in Requests : At(q, "link")' =>
          \/ q = r /\ req'[q].nxt = t
          \/ /\ At(q, "link") /\ req'[q] = req[q] /\ q # r
             /\ req[q].nxt \in Tokens /\ Used(req[q].nxt) /\ req[q].nxt # t
  <2>1. ASSUME NEW q \in Requests, At(q, "link")
        PROVE  req[q].nxt \in Tokens /\ Used(req[q].nxt)
    BY <2>1 DEF At, RequestsOK, RequestOK, TypeOK, Request, TokenOrNone
  <2>2. QED
    BY <2>1, <1>7, <1>4, <1>6 DEF At
<1>13. RotationsOK'
  <2>1. \A q \in Requests : Rotating(req'[q]) =>
          row'[req'[q].tok].revoked /\ row'[req'[q].tok].next = NoToken
    BY <1>6, <1>11 DEF RotationsOK
  <2>2. \A q, u \in Requests :
          Rotating(req'[q]) /\ Rotating(req'[u]) /\ req'[q].tok = req'[u].tok => q = u
    BY <1>11 DEF RotationsOK
  <2>3. ASSUME NEW q \in Requests, NEW u \in Tokens, At(q, "link")'
        PROVE  row'[u].next # req'[q].nxt
    <3>1. row'[u].next # t
      BY <1>6, <1>3 DEF RowsOK, Used
    <3>2. row'[u].next = NoToken \/ row'[u].next = row[u].next
      BY <1>6
    <3>3. QED
      BY <2>3, <3>1, <3>2, <1>12, ConstantsAssumption DEF RotationsOK
  <2>4. \A q, u \in Requests :
          At(q, "link")' /\ At(u, "link")' /\ req'[q].nxt = req'[u].nxt => q = u
    BY <1>12 DEF RotationsOK
  <2>5. QED
    BY <2>1, <2>2, <2>3, <2>4 DEF RotationsOK, At
<1>14. OneLiveTokenPerSession'
  <2>1. \A u \in Tokens : Live(u)' /\ u # t => Live(u) /\ row'[u] = row[u]
    BY <1>6 DEF Live, Stored
  <2>2. \A q \in Requests : At(q, "won")' =>
          /\ At(q, "won") /\ q # r /\ req'[q] = req[q] /\ req[q].tok \in Tokens
          /\ row'[req[q].tok] = row[req[q].tok]
    BY <1>11, <1>7, <1>4, <1>6 DEF At, Rotating
  <2>3. At(r, "won")
    BY <1>2 DEF At
  <2>4. ASSUME NEW s \in Tokens, NEW u \in Tokens, Live(s)', Live(u)', SameSession(s, u)'
        PROVE  s = u
    BY <2>4, <2>1, <2>3, <1>2, <1>6 DEF OneLiveTokenPerSession, SameSession
  <2>5. ASSUME NEW q \in Requests, NEW u \in Requests, At(q, "won")', At(u, "won")',
               SameSession(req[q].tok, req[u].tok)'
        PROVE  q = u
    BY <2>5, <2>2 DEF OneLiveTokenPerSession, SameSession
  <2>6. ASSUME NEW u \in Tokens, NEW q \in Requests, Live(u)', At(q, "won")'
        PROVE  ~SameSession(u, req[q].tok)'
    BY <2>6, <2>1, <2>2, <2>3, <1>2, <1>6 DEF OneLiveTokenPerSession, SameSession
  <2>7. QED
    BY <2>4, <2>5, <2>6 DEF OneLiveTokenPerSession
<1>15. QED
  BY <1>6, <1>8, <1>10, <1>13, <1>14

\* Recording the replacement takes the created token out of the rotation's hands.
LEMMA LinkStep ==
  ASSUME IInv, NEW r \in Requests, Link(r) PROVE IInv'
<1> USE DEF IInv
<1>1. PICK x \in Request, o \in Tokens, n \in Tokens :
        /\ x = req[r] /\ o = x.tok /\ n = x.nxt /\ x.pc = "link" /\ RequestOK(x)
        /\ Used(o) /\ Used(n) /\ SameSession(n, o) /\ n # NoToken /\ o # NoToken
  <2>1. req[r] \in Request /\ RequestOK(req[r]) /\ req[r].pc = "link"
    BY DEF TypeOK, RequestsOK, Link, At
  <2>2. req[r].tok \in Tokens /\ req[r].nxt \in Tokens
    BY <2>1 DEF RequestOK, Request, TokenOrNone
  <2>3. QED
    BY <2>1, <2>2, ConstantsAssumption DEF RequestOK
<1>2. CASE ~Stored(o)
  <2>1. PICK v \in Request :
          /\ v.pc = "failed" /\ v.tok = o /\ v.cur = NoToken /\ v.nxt = NoToken
          /\ Set(r, v)
    BY <1>1, <1>2, BlankIsRequest DEF Link, End, Set, Blank, Request, TokenOrNone, Final
  <2>2. RequestOK(v) /\ ~Rotating(v)
    BY <2>1, <1>1 DEF RequestOK, Rotating
  <2>3. UNCHANGED <<row, pw, purging, now, orderly>>
    BY <1>1, <1>2 DEF Link
  <2>4. QED
    BY <2>1, <2>2, <2>3, QuietStep DEF TypeOK
<1>3. CASE Stored(o)
  <2>1. PICK v \in Request :
          /\ v.pc \in {"done", "lost"} /\ v.tok = o /\ v.cur = NoToken /\ v.nxt = n
          /\ req' = [req EXCEPT ![r] = v]
    <3>1. \A pc \in {"done", "lost"} :
             [Blank EXCEPT !.pc = pc, !.tok = o, !.nxt = n] \in Request
      BY BlankIsRequest DEF Blank, Request, TokenOrNone, Final
    <3>2. \E pc \in {"done", "lost"} :
             req' = [req EXCEPT ![r] = [Blank EXCEPT !.pc = pc, !.tok = o, !.nxt = n]]
      BY <1>1, <1>3 DEF Link, Answer, End, Set
    <3>3. QED
      BY <3>1, <3>2 DEF Blank
  <2>2. /\ row' \in [Tokens -> Row] /\ row'[o].next = n
        /\ \A u \in Tokens :
             /\ row'[u].state = row[u].state /\ row'[u].family = row[u].family
             /\ row'[u].revoked = row[u].revoked
             /\ u # o => row'[u] = row[u]
    BY <1>1, <1>3 DEF Link, TypeOK, Row, TokenOrNone
  <2>3. \A q \in Requests : req'[q] = (IF q = r THEN v ELSE req[q])
    BY <2>1 DEF TypeOK
  <2>4. TypeOK'
    BY <2>1, <2>2 DEF TypeOK, Link
  <2>5. /\ row[o].revoked /\ row[o].next = NoToken
        /\ \A u \in Tokens : row[u].next # n
    BY <1>1 DEF RotationsOK, Rotating, At
  <2>6. RowsOK'
    <3>1. \A u \in Tokens : Used(u)' = Used(u)
      BY <2>2 DEF Used
    <3>2. ASSUME NEW u \in Tokens
          PROVE  /\ ~Used(u)' => row'[u] = Unused
                 /\ Used(u)' => row'[u].family \in Tokens /\ Used(row[u].family)'
      BY <2>2, <3>1, <1>1 DEF RowsOK
    <3>3. ASSUME NEW u \in Tokens, row'[u].next # NoToken
          PROVE  /\ row'[u].revoked /\ Used(row[u].next)'
                 /\ SameSession(u, row[u].next)'
                 /\ \A w \in Tokens : row'[w].next = row'[u].next => w = u
      <4>1. CASE u = o
        BY <4>1, <2>2, <2>5, <1>1, <3>1 DEF SameSession
      <4>2. CASE u # o
        <5>1. row'[u] = row[u] /\ row[u].next \in Tokens
          BY <4>2, <2>2, <3>3 DEF TypeOK, Row, TokenOrNone
        <5>2. QED
          BY <5>1, <3>3, <2>2, <2>5, <3>1 DEF RowsOK, SameSession
      <4>3. QED
        BY <4>1, <4>2
    <3>4. QED
      BY <3>2, <3>3 DEF RowsOK
  <2>7. \A y \in Request : RequestOK(y) => RequestOK(y)'
    BY <2>2 DEF RequestOK, Used, SameSession, Request, TokenOrNone
  <2>8. RequestsOK'
    <3>1. RequestOK(v)
      BY <1>1, <2>1 DEF RequestOK
    <3>2. QED
      BY <2>3, <2>7, <3>1 DEF RequestsOK, TypeOK
  <2>9. \A q \in Requests : Rotating(req'[q]) =>
          /\ q # r /\ Rotating(req[q]) /\ req'[q] = req[q]
          /\ req[q].tok \in Tokens /\ req[q].tok # o
    <3>1. ASSUME NEW q \in Requests, Rotating(req[q])
          PROVE  req[q].tok \in Tokens
      BY <3>1 DEF Rotating, RequestsOK, RequestOK, TypeOK, Request, TokenOrNone
    <3>2. ASSUME NEW q \in Requests, Rotating(req'[q])
          PROVE  q # r /\ Rotating(req[q]) /\ req'[q] = req[q]
      BY <3>2, <2>1, <2>3 DEF Rotating
    <3>3. Rotating(req[r])
      BY <1>1 DEF Rotating
    <3>4. QED
      BY <3>1, <3>2, <3>3, <1>1 DEF RotationsOK
  <2>10. RotationsOK'
    <3>1. At(r, "link")
      BY <1>1 DEF At
    <3>2. \A q \in Requests : At(q, "link")' => At(q, "link") /\ q # r /\ req'[q] = req[q]
      BY <2>9 DEF At, Rotating
    <3>3. \A q \in Requests : Rotating(req'[q]) =>
            row'[req'[q].tok].revoked /\ row'[req'[q].tok].next = NoToken
      BY <2>2, <2>9 DEF RotationsOK
    <3>4. \A q, u \in Requests :
            Rotating(req'[q]) /\ Rotating(req'[u]) /\ req'[q].tok = req'[u].tok => q = u
      BY <2>9 DEF RotationsOK
    <3>5. \A q \in Requests, u \in Tokens : At(q, "link")' => row'[u].next # req'[q].nxt
      BY <2>2, <3>1, <3>2, <1>1 DEF RotationsOK
    <3>6. \A q, u \in Requests :
            At(q, "link")' /\ At(u, "link")' /\ req'[q].nxt = req'[u].nxt => q = u
      BY <3>2 DEF RotationsOK
    <3>7. QED
      BY <3>3, <3>4, <3>5, <3>6 DEF RotationsOK
  <2>11. OneLiveTokenPerSession'
    <3>1. \A t \in Tokens : Live(t)' => Live(t)
      BY <2>2 DEF Live, Stored
    <3>2. \A s, t \in Tokens : row'[s].family = row'[t].family <=> SameSession(s, t)
      BY <2>2 DEF SameSession
    <3>3. \A q \in Requests : At(q, "won")' =>
            At(q, "won") /\ req'[q] = req[q] /\ req[q].tok \in Tokens
      BY <2>9 DEF At, Rotating
    <3>4. QED
      BY <3>1, <3>2, <3>3 DEF OneLiveTokenPerSession, SameSession
  <2>12. QED
    BY <2>4, <2>6, <2>8, <2>10, <2>11
<1>4. QED
  BY <1>2, <1>3

\* The exclusive claim: the one live token of the session is traded for the
\* right to create its replacement.
LEMMA ClaimStep ==
  ASSUME IInv, NEW r \in Requests, Claim(r) PROVE IInv'
<1> USE DEF IInv
<1>1. PICK x \in Request, t \in Tokens :
        /\ x = req[r] /\ t = x.tok /\ x.pc = "claim" /\ RequestOK(x)
        /\ Used(t) /\ t # NoToken
  <2>1. req[r] \in Request /\ RequestOK(req[r]) /\ req[r].pc = "claim"
    BY DEF TypeOK, RequestsOK, Claim, At
  <2>2. req[r].tok \in Tokens
    BY <2>1 DEF RequestOK, Request, TokenOrNone
  <2>3. QED
    BY <2>1, <2>2, ConstantsAssumption DEF RequestOK
<1>2. CASE ~Live(t)
  <2>1. PICK v \in Request :
          /\ v.pc = "wait" /\ v.tok = t /\ v.cur = t /\ v.nxt = x.nxt
          /\ Set(r, v)
    BY <1>1, <1>2 DEF Claim, Set, Request, TokenOrNone, Running
  <2>2. RequestOK(v) /\ ~Rotating(v)
    BY <2>1, <1>1 DEF RequestOK, Rotating, SameSession
  <2>3. QED
    BY <2>1, <2>2, <1>1, <1>2, QuietStep DEF Claim, TypeOK
<1>3. CASE Live(t)
  <2>1. PICK v \in Request :
          /\ v.pc = "won" /\ v.tok = t /\ v.cur = x.cur /\ v.nxt = x.nxt
          /\ req' = [req EXCEPT ![r] = v]
    BY <1>1, <1>3 DEF Claim, Set, Request, TokenOrNone, Running
  <2>2. /\ row' \in [Tokens -> Row] /\ row'[t].revoked
        /\ \A u \in Tokens :
             /\ row'[u].state = row[u].state /\ row'[u].family = row[u].family
             /\ row'[u].next = row[u].next
             /\ row[u].revoked => row'[u].revoked
             /\ u # t => row'[u] = row[u]
    <3>1. Revoke({t}, "rotated")
      BY <1>1, <1>3 DEF Claim
    <3>2. QED
      BY <3>1, RevokeKeeps DEF Reasons
  <2>3. \A q \in Requests : req'[q] = (IF q = r THEN v ELSE req[q])
    BY <2>1 DEF TypeOK
  <2>4. TypeOK'
    BY <2>1, <2>2 DEF TypeOK, Claim
  <2>5. RowsOK'
    BY <2>2, <1>1 DEF RowsOK, Used, SameSession, TypeOK, Row, TokenOrNone
  <2>6. \A y \in Request : RequestOK(y) => RequestOK(y)'
    BY <2>2 DEF RequestOK, Used, SameSession, Request, TokenOrNone
  <2>7. RequestsOK'
    <3>1. RequestOK(v)
      BY <1>1, <2>1 DEF RequestOK
    <3>2. QED
      BY <2>3, <2>6, <3>1 DEF RequestsOK, TypeOK
  <2>8. ~row[t].revoked /\ row[t].next = NoToken
    BY <1>3 DEF Live, RowsOK
  <2>9. \A q \in Requests : Rotating(req'[q]) =>
          /\ req'[q].tok \in Tokens
          /\ \/ q = r /\ req'[q] = v
             \/ q # r /\ Rotating(req[q]) /\ req'[q] = req[q] /\ req[q].tok # t
    <3>1. ASSUME NEW q \in Requests, Rotating(req[q])
          PROVE  req[q].tok \in Tokens
      BY <3>1 DEF Rotating, RequestsOK, RequestOK, TypeOK, Request, TokenOrNone
    <3>2. ASSUME NEW q \in Requests, Rotating(req[q])
          PROVE  req[q].tok # t
      BY <3>2, <2>8 DEF RotationsOK
    <3>3. QED
      BY <3>1, <3>2, <2>1, <2>3
  <2>10. RotationsOK'
    <3>1. \A q \in Requests : At(q, "link")' => At(q, "link") /\ q # r /\ req'[q] = req[q]
      BY <2>1, <2>3 DEF At
    <3>2. ASSUME NEW q \in Requests, Rotating(req'[q])
          PROVE  row'[req'[q].tok].revoked /\ row'[req'[q].tok].next = NoToken
      <4>1. CASE q = r
        BY <4>1, <2>1, <2>2, <2>3, <2>8
      <4>2. CASE q # r
        BY <4>2, <3>2, <2>2, <2>9 DEF RotationsOK
      <4>3. QED
        BY <4>1, <4>2
    <3>3. \A q, u \in Requests :
            Rotating(req'[q]) /\ Rotating(req'[u]) /\ req'[q].tok = req'[u].tok => q = u
      BY <2>9, <2>1 DEF RotationsOK
    <3>4. \A q \in Requests, u \in Tokens : At(q, "link")' => row'[u].next # req'[q].nxt
      BY <2>2, <3>1 DEF RotationsOK
    <3>5. \A q, u \in Requests :
            At(q, "link")' /\ At(u, "link")' /\ req'[q].nxt = req'[u].nxt => q = u
      BY <3>1 DEF RotationsOK
    <3>6. QED
      BY <3>2, <3>3, <3>4, <3>5 DEF RotationsOK
  <2>11. OneLiveTokenPerSession'
    <3>1. \A u \in Tokens : Live(u)' => Live(u) /\ u # t
      BY <2>2 DEF Live, Stored
    <3>2. \A s, u \in Tokens : row'[s].family = row'[u].family <=> SameSession(s, u)
      BY <2>2 DEF SameSession
    <3>3. \A q \in Requests : At(q, "won")' =>
            /\ req'[q].tok \in Tokens
            /\ \/ q = r /\ req'[q].tok = t
               \/ q # r /\ At(q, "won") /\ req'[q] = req[q]
      BY <2>9, <2>1 DEF At, Rotating
    <3>4. ASSUME NEW q \in Requests, NEW u \in Requests, At(q, "won")', At(u, "won")',
                 SameSession(req[q].tok, req[u].tok)'
          PROVE  q = u
      <4>1. SameSession(req'[q].tok, req'[u].tok)
        BY <3>4, <3>2, <3>3 DEF SameSession
      <4>2. QED
        BY <3>4, <3>3, <4>1, <1>3 DEF OneLiveTokenPerSession, SameSession
    <3>5. ASSUME NEW u \in Tokens, NEW q \in Requests, Live(u)', At(q, "won")'
          PROVE  ~SameSession(u, req[q].tok)'
      <4>1. ~SameSession(u, req'[q].tok)
        BY <3>5, <3>1, <3>3, <1>3 DEF OneLiveTokenPerSession
      <4>2. QED
        BY <4>1, <3>2, <3>3, <3>5 DEF SameSession
    <3>6. QED
      BY <3>1, <3>2, <3>4, <3>5 DEF OneLiveTokenPerSession, SameSession
  <2>12. QED
    BY <2>4, <2>5, <2>7, <2>10, <2>11
<1>4. QED
  BY <1>2, <1>3

\* Purging only makes rows unreachable to queries; ids stay used.
LEMMA PurgeStep ==
  ASSUME IInv, NEW r \in Requests, Purge(r) PROVE IInv'
<1> USE DEF IInv
<1>1. /\ row' \in [Tokens -> Row]
      /\ \A u \in Tokens :
           /\ Used(u)' = Used(u)
           /\ ~Used(u) => row'[u] = row[u]
           /\ Live(u)' => Live(u)
           /\ row'[u].family = row[u].family /\ row'[u].next = row[u].next
           /\ row'[u].revoked = row[u].revoked
  BY DEF Purge, TypeOK, Row, Used, Live, Stored
<1>2. req' = req
  BY DEF Purge
<1>3. TypeOK'
  BY <1>1 DEF TypeOK, Purge
<1>4. RowsOK'
  <2>1. ASSUME NEW u \in Tokens
        PROVE  /\ ~Used(u)' => row'[u] = Unused
               /\ Used(u)' => row'[u].family \in Tokens /\ Used(row[u].family)'
    BY <1>1 DEF RowsOK
  <2>2. ASSUME NEW u \in Tokens, row'[u].next # NoToken
        PROVE  /\ row'[u].revoked /\ Used(row[u].next)'
               /\ SameSession(u, row[u].next)'
               /\ \A w \in Tokens : row'[w].next = row'[u].next => w = u
    <3>1. row[u].next \in Tokens
      BY <2>2, <1>1 DEF TypeOK, Row, TokenOrNone
    <3>2. QED
      BY <3>1, <2>2, <1>1 DEF RowsOK, SameSession
  <2>3. QED
    BY <2>1, <2>2 DEF RowsOK
<1>5. \A q \in Requests : RequestOK(req[q]) => RequestOK(req[q])'
  <2>1. \A x \in Request : RequestOK(x) => RequestOK(x)'
    BY <1>1 DEF RequestOK, SameSession, Request, TokenOrNone
  <2>2. QED
    BY <2>1, <1>2 DEF TypeOK
<1>6. RequestsOK'
  BY <1>2, <1>5 DEF RequestsOK
<1>7. \A q \in Requests : Rotating(req[q]) => req[q].tok \in Tokens
  BY DEF Rotating, RequestsOK, RequestOK, TypeOK, Request, TokenOrNone
<1>8. RotationsOK'
  BY <1>1, <1>2, <1>7 DEF RotationsOK, At
<1>9. OneLiveTokenPerSession'
  BY <1>1, <1>2, <1>7 DEF OneLiveTokenPerSession, SameSession, At, Rotating
<1>10. QED
  BY <1>3, <1>4, <1>6, <1>8, <1>9

\* Ending a request with a token of the session, or with none, is sound.
LEMMA EndSound ==
  ASSUME IInv, NEW r \in Requests, NEW pc \in Final, NEW n \in TokenOrNone,
         End(r, pc, n),
         pc \in {"done", "lost"} => n # NoToken,
         n # NoToken => Used(n) /\ (req[r].tok # NoToken => SameSession(n, req[r].tok))
  PROVE  \E v \in Request : Set(r, v) /\ RequestOK(v) /\ ~Rotating(v)
<1> DEFINE w == [Blank EXCEPT !.pc = pc, !.tok = req[r].tok, !.nxt = n]
<1>1. req[r] \in Request /\ RequestOK(req[r])
  BY DEF IInv, TypeOK, RequestsOK
<1>2. w \in Request /\ w.pc = pc /\ w.tok = req[r].tok /\ w.cur = NoToken /\ w.nxt = n
  BY <1>1, BlankIsRequest DEF Blank, Request, TokenOrNone
<1>3. Set(r, w)
  BY DEF End, Set
<1>4. pc \notin Running /\ pc # "idle"
  BY DEF Final, Running
<1> HIDE DEF w
<1>5. RequestOK(w) /\ ~Rotating(w)
  BY <1>1, <1>2, <1>4 DEF RequestOK, Rotating, Running
<1>6. QED
  BY <1>2, <1>3, <1>5

\* The first step of every handler only records what it read.
LEMMA ArriveStep ==
  ASSUME IInv, NEW r \in Requests, Arrive(r) PROVE IInv'
<1> USE DEF IInv
<1>1. UNCHANGED <<row, pw, purging, now, orderly>>
  BY DEF Arrive, LoginCheck, ChangeCheck, RefreshRead, LogoutRead
<1>2. \E v \in Request : Set(r, v) /\ RequestOK(v) /\ ~Rotating(v)
  <2>1. CASE LoginCheck(r)
    <3> DEFINE w == [Blank EXCEPT !.pc = "login", !.cred = pw]
    <3>1. w \in Request /\ w.pc = "login" /\ w.tok = NoToken /\ w.cur = NoToken
          /\ w.nxt = NoToken /\ Set(r, w)
      BY <2>1, BlankIsRequest DEF LoginCheck, Blank, Request, Running, TypeOK
    <3> HIDE DEF w
    <3>2. QED
      BY <3>1 DEF RequestOK, Rotating
  <2>2. CASE ChangeCheck(r)
    <3> DEFINE w == [Blank EXCEPT !.pc = "write"]
    <3>1. w \in Request /\ w.pc = "write" /\ w.tok = NoToken /\ w.cur = NoToken
          /\ w.nxt = NoToken /\ Set(r, w)
      BY <2>2, BlankIsRequest DEF ChangeCheck, Blank, Request, Running
    <3> HIDE DEF w
    <3>2. QED
      BY <3>1 DEF RequestOK, Rotating
  <2>3. ASSUME NEW q \in Requests, At(q, "done")
        PROVE  req[q].nxt \in Tokens => Used(req[q].nxt)
    BY <2>3, ConstantsAssumption DEF RequestsOK, RequestOK, At
  <2>4. \A t \in Tokens : t \in Known => Used(t) /\ t # NoToken
    BY <2>3 DEF Known, At
  <2>5. ASSUME NEW t \in Tokens, RefreshRead(r, t)
        PROVE  \E v \in Request : Set(r, v) /\ RequestOK(v) /\ ~Rotating(v)
    <3>1. PICK v \in Request :
            /\ v.pc \in {"refused", "wait", "claim"} /\ v.tok = t
            /\ v.cur = (IF v.pc = "wait" THEN t ELSE NoToken) /\ v.nxt = NoToken
            /\ Set(r, v)
      <4>1. \A pc \in {"refused", "claim"} :
              LET w == [Blank EXCEPT !.pc = pc, !.tok = t]
              IN  /\ w \in Request /\ w.pc = pc /\ w.tok = t /\ w.cur = NoToken
                  /\ w.nxt = NoToken
        BY BlankIsRequest DEF Blank, Request, Running, Final, TokenOrNone
      <4>2. LET w == [Blank EXCEPT !.pc = "wait", !.tok = t, !.cur = t, !.why = row[t].reason]
            IN  /\ w \in Request /\ w.pc = "wait" /\ w.tok = t /\ w.cur = t
                /\ w.nxt = NoToken
        BY BlankIsRequest DEF Blank, Request, Running, TokenOrNone, TypeOK, Row
      <4>3. QED
        BY <2>5, <4>1, <4>2 DEF RefreshRead
    <3>2. Used(t) /\ t # NoToken
      BY <2>4, <2>5 DEF RefreshRead
    <3>3. QED
      BY <3>1, <3>2 DEF RequestOK, Rotating, SameSession
  <2>6. ASSUME NEW t \in Tokens, LogoutRead(r, t)
        PROVE  \E v \in Request : Set(r, v) /\ RequestOK(v) /\ ~Rotating(v)
    <3>1. PICK v \in Request :
            /\ v.pc \in {"walk", "loggedOut"} /\ v.tok = t /\ v.cur = t
            /\ v.nxt = NoToken /\ Set(r, v)
      BY <2>6, BlankIsRequest DEF LogoutRead, Blank, Request, Running, Final, TokenOrNone
    <3>2. Used(t) /\ t # NoToken
      BY <2>4, <2>6 DEF LogoutRead
    <3>3. QED
      BY <3>1, <3>2 DEF RequestOK, Rotating, SameSession
  <2>7. QED
    BY <2>1, <2>2, <2>5, <2>6 DEF Arrive
<1>3. QED
  BY <1>1, <1>2, QuietStep DEF TypeOK

\* Giving up ends the request or turns it to the cascade.
LEMMA GiveUpSound ==
  ASSUME IInv, NEW r \in Requests, GiveUp(r), req[r].tok # NoToken
  PROVE  \E v \in Request : Set(r, v) /\ RequestOK(v) /\ ~Rotating(v)
<1>1. PICK x \in Request : x = req[r] /\ RequestOK(x) /\ x.tok # NoToken
  BY DEF IInv, TypeOK, RequestsOK
<1>2. CASE req[r].why = "rotated"
  <2> DEFINE w == [x EXCEPT !.pc = "cascade"]
  <2>1. /\ w \in Request /\ w.pc = "cascade" /\ w.tok = x.tok /\ w.cur = x.cur
        /\ w.nxt = x.nxt /\ Set(r, w)
    BY <1>1, <1>2 DEF GiveUp, Request, Running, Set
  <2> HIDE DEF w
  <2>2. QED
    BY <1>1, <2>1 DEF RequestOK, Rotating
<1>3. CASE req[r].why # "rotated"
  BY <1>3, EndSound DEF GiveUp, Final, TokenOrNone
<1>4. QED
  BY <1>2, <1>3

\* Looking for a replacement only moves the cursor along the session's chain.
LEMMA ResolveStep ==
  ASSUME IInv, NEW r \in Requests, WaitForReplacement(r) \/ FollowReplacement(r)
  PROVE  IInv'
<1> USE DEF IInv
<1>1. UNCHANGED <<row, pw, purging, now, orderly>>
  BY DEF WaitForReplacement, FollowReplacement
<1>2. \E v \in Request : Set(r, v) /\ RequestOK(v) /\ ~Rotating(v)
  <2>1. PICK x \in Request, c \in Tokens :
          /\ x = req[r] /\ c = x.cur /\ RequestOK(x) /\ c # NoToken
          /\ x.tok # NoToken /\ x.pc \in {"wait", "next"}
          /\ Used(c) /\ SameSession(c, x.tok)
    <3>1. req[r] \in Request /\ RequestOK(req[r]) /\ req[r].pc \in {"wait", "next"}
      BY DEF TypeOK, RequestsOK, WaitForReplacement, FollowReplacement, At
    <3>2. req[r].cur \in Tokens
      BY <3>1 DEF RequestOK, Request, TokenOrNone
    <3>3. QED
      BY <3>1, <3>2, ConstantsAssumption DEF RequestOK
  <2>2. CASE GiveUp(r)
    BY <2>1, <2>2, GiveUpSound
  <2>3. CASE WaitForReplacement(r) /\ x.pc = "wait"
    <3>1. CASE Set(r, [req[r] EXCEPT !.polls = @ + 1])
      <4> DEFINE w == [x EXCEPT !.polls = @ + 1]
      <4>1. /\ w \in Request /\ w.pc = x.pc /\ w.tok = x.tok /\ w.cur = x.cur
            /\ w.nxt = x.nxt /\ Set(r, w)
        BY <2>1, <3>1 DEF Request, Set
      <4> HIDE DEF w
      <4>2. QED
        BY <2>1, <4>1 DEF RequestOK, Rotating
    <3>2. CASE row[c].next # NoToken
               /\ Set(r, [req[r] EXCEPT !.pc = "next", !.nxt = row[c].next])
      <4> DEFINE w == [x EXCEPT !.pc = "next", !.nxt = row[c].next]
      <4>1. row[c].next \in TokenOrNone
        BY DEF TypeOK, Row
      <4>2. /\ w \in Request /\ w.pc = "next" /\ w.tok = x.tok /\ w.cur = x.cur
            /\ w.nxt = row[c].next /\ Set(r, w)
        BY <2>1, <3>2, <4>1 DEF Request, Set, Running
      <4> HIDE DEF w
      <4>3. Used(row[c].next) /\ SameSession(row[c].next, x.tok)
        BY <2>1, <3>2 DEF RowsOK, SameSession
      <4>4. QED
        BY <2>1, <4>2, <4>3, <3>2 DEF RequestOK, Rotating
    <3>3. QED
      BY <2>1, <2>2, <2>3, <3>1, <3>2 DEF WaitForReplacement
  <2>4. CASE FollowReplacement(r) /\ x.pc = "next"
    <3>1. x.nxt \in TokenOrNone /\ x.nxt # NoToken /\ Used(x.nxt) /\ SameSession(x.nxt, x.tok)
      BY <2>1, <2>4 DEF RequestOK, Request
    <3>2. CASE Answer(r, x.nxt)
      BY <3>1, <3>2, <2>1, EndSound DEF Answer, Final
    <3>3. CASE Set(r, [req[r] EXCEPT !.pc = "wait", !.cur = x.nxt, !.nxt = NoToken,
                                     !.polls = 0, !.hop = @ + 1])
      <4> DEFINE w == [x EXCEPT !.pc = "wait", !.cur = x.nxt, !.nxt = NoToken,
                                !.polls = 0, !.hop = @ + 1]
      <4>0. x.hop + 1 \in Nat /\ NoToken \in TokenOrNone
        BY DEF Request, TokenOrNone
      <4>1. /\ w \in Request /\ w.pc = "wait" /\ w.tok = x.tok /\ w.cur = x.nxt
            /\ w.nxt = NoToken
        BY <3>1, <4>0 DEF Request, Running
      <4>3. Set(r, w)
        BY <2>1, <3>3
      <4> HIDE DEF w
      <4>2. QED
        BY <2>1, <3>1, <4>1, <4>3 DEF RequestOK, Rotating
    <3>4. QED
      BY <2>1, <2>2, <2>4, <3>2, <3>3 DEF FollowReplacement
  <2>5. QED
    BY <2>1, <2>3, <2>4 DEF WaitForReplacement, FollowReplacement, At
<1>3. QED
  BY <1>1, <1>2, QuietStep DEF TypeOK

\* Walking the chain at logout: the cursor stays on rows of the session.
LEMMA WalkStep ==
  ASSUME IInv, NEW r \in Requests, WalkChain(r) PROVE IInv'
<1> USE DEF IInv
<1>1. UNCHANGED <<row, pw, purging, now, orderly>>
  BY DEF WalkChain
<1>2. PICK x \in Request, c \in Tokens :
        /\ x = req[r] /\ c = x.cur /\ RequestOK(x) /\ x.pc = "walk"
        /\ x.tok # NoToken /\ Used(c) /\ SameSession(c, x.tok)
  <2>1. req[r] \in Request /\ RequestOK(req[r]) /\ req[r].pc = "walk"
    BY DEF TypeOK, RequestsOK, WalkChain, At
  <2>2. QED
    BY <2>1 DEF RequestOK, Request, TokenOrNone
<1>3. CASE Stored(c)
  <2> DEFINE w == [x EXCEPT !.pc = "mark", !.nxt = row[c].next]
  <2>1. row[c].next \in TokenOrNone
    BY DEF TypeOK, Row
  <2>2. /\ w \in Request /\ w.pc = "mark" /\ w.tok = x.tok /\ w.cur = x.cur
        /\ w.nxt = row[c].next
    BY <2>1 DEF Request, Running
  <2>3. Set(r, w)
    BY <1>2, <1>3 DEF WalkChain
  <2> HIDE DEF w
  <2>4. row[c].next # NoToken => Used(row[c].next) /\ SameSession(row[c].next, x.tok)
    BY <1>2 DEF RowsOK, SameSession
  <2>5. RequestOK(w) /\ ~Rotating(w)
    BY <1>2, <2>2, <2>4 DEF RequestOK, Rotating
  <2>6. QED
    BY <1>1, <2>2, <2>3, <2>5, QuietStep DEF TypeOK
<1>4. CASE ~Stored(c)
  <2>1. End(r, "loggedOut", NoToken)
    BY <1>2, <1>4 DEF WalkChain
  <2>2. QED
    BY <1>1, <2>1, EndSound, QuietStep DEF TypeOK, Final, TokenOrNone
<1>5. QED
  BY <1>3, <1>4

\* Marking a link revokes one stored row.
LEMMA MarkStep ==
  ASSUME IInv, NEW r \in Requests, MarkLink(r) PROVE IInv'
<1> USE DEF IInv
<1>1. PICK x \in Request, c \in Tokens :
        /\ x = req[r] /\ c = x.cur /\ RequestOK(x) /\ x.pc = "mark"
        /\ x.tok # NoToken /\ x.nxt \in TokenOrNone
  <2>1. req[r] \in Request /\ RequestOK(req[r]) /\ req[r].pc = "mark"
    BY DEF TypeOK, RequestsOK, MarkLink, At
  <2>2. QED
    BY <2>1 DEF RequestOK, Request, TokenOrNone
<1>2. UNCHANGED <<pw, purging, now, orderly>>
  BY DEF MarkLink
<1>3. CASE ~Stored(c)
  <2>1. End(r, "failed", NoToken) /\ UNCHANGED row
    BY <1>1, <1>3 DEF MarkLink
  <2>2. QED
    BY <1>2, <2>1, EndSound, QuietStep DEF TypeOK, Final, TokenOrNone
<1>4. CASE Stored(c)
  <2>1. Revoke({c}, "logout")
    BY <1>1, <1>4 DEF MarkLink
  <2>2. \E v \in Request : Set(r, v) /\ RequestOK(v) /\ ~Rotating(v)
    <3>1. CASE End(r, "loggedOut", NoToken)
      BY <3>1, EndSound DEF Final, TokenOrNone
    <3>2. CASE /\ x.nxt # NoToken
               /\ Set(r, [req[r] EXCEPT !.pc = "walk", !.cur = x.nxt,
                                        !.nxt = NoToken, !.hop = @ + 1])
      <4> DEFINE w == [x EXCEPT !.pc = "walk", !.cur = x.nxt,
                                !.nxt = NoToken, !.hop = @ + 1]
      <4>0. x.hop + 1 \in Nat /\ NoToken \in TokenOrNone
        BY DEF Request, TokenOrNone
      <4>1. /\ w \in Request /\ w.pc = "walk" /\ w.tok = x.tok /\ w.cur = x.nxt
            /\ w.nxt = NoToken
        BY <1>1, <4>0 DEF Request, Running
      <4>2. Set(r, w)
        BY <1>1, <3>2
      <4> HIDE DEF w
      <4>3. QED
        BY <1>1, <3>2, <4>1, <4>2 DEF RequestOK, Rotating
    <3>3. QED
      BY <1>1, <1>4, <3>1, <3>2 DEF MarkLink
  <2>3. Used(c)
    BY <1>4 DEF Stored, Used
  <2>4. QED
    BY <1>2, <2>1, <2>2, <2>3, RevokeStep DEF Reasons
<1>5. QED
  BY <1>3, <1>4

\* The three bulk writes: theft response, new password, its revocation.
LEMMA BulkStep ==
  ASSUME IInv, NEW r \in Requests, Cascade(r) \/ ChangeWrite(r) \/ ChangeRevoke(r)
  PROVE  IInv'
<1> USE DEF IInv
<1>1. CASE Cascade(r)
  <2>1. \A t \in {u \in Tokens : Live(u)} : Used(t)
    BY DEF Live, Stored, Used
  <2>2. \E v \in Request : Set(r, v) /\ RequestOK(v) /\ ~Rotating(v)
    BY <1>1, EndSound DEF Cascade, Final, TokenOrNone
  <2>3. QED
    BY <1>1, <2>1, <2>2, RevokeStep DEF Cascade, Reasons
<1>2. CASE ChangeRevoke(r)
  <2>1. \A t \in {u \in Tokens : Stored(u)} : Used(t)
    BY DEF Stored, Used
  <2>2. \E v \in Request : Set(r, v) /\ RequestOK(v) /\ ~Rotating(v)
    BY <1>2, EndSound DEF ChangeRevoke, Final, TokenOrNone
  <2>3. QED
    BY <1>2, <2>1, <2>2, RevokeStep DEF ChangeRevoke, Reasons
<1>3. CASE ChangeWrite(r)
  <2>1. PICK x \in Request : x = req[r] /\ RequestOK(x) /\ x.pc = "write"
    BY <1>3 DEF TypeOK, RequestsOK, ChangeWrite, At
  <2> DEFINE w == [x EXCEPT !.pc = "revoke"]
  <2>2. /\ w \in Request /\ w.pc = "revoke" /\ w.tok = x.tok /\ w.cur = x.cur
        /\ w.nxt = x.nxt /\ Set(r, w)
    BY <1>3, <2>1 DEF Request, Running, ChangeWrite, Set
  <2> HIDE DEF w
  <2>3. RequestOK(w) /\ ~Rotating(w)
    BY <2>1, <2>2 DEF RequestOK, Rotating
  <2>4. QED
    BY <1>3, <2>2, <2>3, QuietStep DEF ChangeWrite, TypeOK
<1>4. QED
  BY <1>1, <1>2, <1>3

\* IInv is inductive.
LEMMA NextIInv == IInv /\ [Next]_vars => IInv'
<1> SUFFICES ASSUME IInv, [Next]_vars PROVE IInv'
  OBVIOUS
<1>1. ASSUME NEW r \in Requests, Crash(r) PROVE IInv'
  BY <1>1, EndSound, QuietStep DEF Crash, Final, TokenOrNone, IInv, TypeOK
<1>2. CASE Tick
  BY <1>2 DEF Tick, IInv, TypeOK, RowsOK, RequestsOK, RequestOK, RotationsOK, Rotating,
     OneLiveTokenPerSession, Used, SameSession, Live, Stored, At
<1>3. CASE UNCHANGED vars
  BY <1>3 DEF vars, IInv, TypeOK, RowsOK, RequestsOK, RequestOK, RotationsOK, Rotating,
     OneLiveTokenPerSession, Used, SameSession, Live, Stored, At
<1>4. ASSUME NEW r \in Requests, Serve(r) PROVE IInv'
  BY <1>4, LoginStoreStep, ClaimStep, StoreReplacementStep, LinkStep, ResolveStep,
     WalkStep, MarkStep, BulkStep DEF Serve
<1>5. QED
  BY <1>1, <1>2, <1>3, <1>4, ArriveStep, PurgeStep DEF Next

-----------------------------------------------------------------------------
\* IInv holds in every reachable state.
LEMMA Invariant == Spec => []IInv
  BY InitIInv, NextIInv, PTL DEF Spec

\* Every variable keeps its type whatever the interleaving, the bounds and the
\* faults.
THEOREM TypeCorrect == Spec => []TypeOK
<1>1. IInv => TypeOK
  BY DEF IInv
<1>2. QED
  BY Invariant, <1>1, PTL

\* However many refreshes, logins, logouts and password changes race, a session
\* has at most one usable refresh token, and none while its next one is created.
THEOREM OneLiveToken == Spec => []OneLiveTokenPerSession
<1>1. IInv => OneLiveTokenPerSession
  BY DEF IInv
<1>2. QED
  BY Invariant, <1>1, PTL

\* The replaced_by links of a session form one line of succession.
THEOREM ChainLinear == Spec => []ReplacementChainLinear
<1>1. IInv => ReplacementChainLinear
  BY ConstantsAssumption DEF IInv, RowsOK, ReplacementChainLinear
<1>2. QED
  BY Invariant, <1>1, PTL

\* No refresh is ever answered with a token of another session.
THEOREM AnswersInSession == Spec => []AnswersStayInSession
<1>1. IInv => AnswersStayInSession
  BY DEF IInv, RequestsOK, RequestOK, AnswersStayInSession
<1>2. QED
  BY Invariant, <1>1, PTL

\* The three together, as the runs check them.
THEOREM OneLine == Spec => []OneLineOfSuccession
<1> QED  BY OneLiveToken, ChainLinear, AnswersInSession, PTL DEF OneLineOfSuccession

\* No step rewrites a replaced_by link or revives a revoked token.
THEOREM SuccessionFinal == Spec => SuccessionIsFinal
<1> DEFINE Keeps == \A t \in Tokens :
                      /\ row[t].next # NoToken => row'[t].next = row[t].next
                      /\ row[t].revoked => row'[t].revoked
<1>1. IInv /\ [Next]_vars => [Keeps]_vars
  <2> SUFFICES ASSUME IInv, Next PROVE Keeps
    OBVIOUS
  <2> USE DEF IInv
  <2>1. CASE UNCHANGED row
    BY <2>1
  <2>2. ASSUME NEW S \in SUBSET Tokens, NEW why \in Reasons, Revoke(S, why)
        PROVE  Keeps
    BY <2>2, RevokeKeeps
  <2>3. ASSUME NEW t \in Tokens, NEW fam, NEW c, Store(t, fam, c)
        PROVE  Keeps
    <3>1. row[t] = Unused
      BY <2>3 DEF RowsOK, Store, Used
    <3>2. row[t].next = NoToken /\ ~row[t].revoked
      BY <3>1 DEF Unused
    <3>3. \A u \in Tokens : u # t => row'[u] = row[u]
      BY <2>3 DEF Store, TypeOK
    <3>4. QED
      BY <3>2, <3>3
  <2>4. ASSUME NEW r \in Requests, Link(r), row' # row
        PROVE  Keeps
    <3>1. row[req[r].tok].next = NoToken
      BY <2>4 DEF Link, RotationsOK, Rotating, At
    <3>2. row' = [row EXCEPT ![req[r].tok].next = req[r].nxt]
      BY <2>4 DEF Link
    <3>3. QED
      BY <3>1, <3>2 DEF TypeOK, Row
  <2>5. ASSUME NEW r \in Requests, Purge(r)
        PROVE  Keeps
    BY <2>5 DEF Purge, TypeOK, Row
  <2>6. ASSUME NEW r \in Requests, Serve(r), row' # row
        PROVE  Keeps
    <3>1. CASE LoginStore(r)
      BY <3>1, <2>3 DEF LoginStore
    <3>2. CASE Claim(r)
      <4>1. req[r].tok \in Tokens
        BY <3>2 DEF Claim, At, RequestsOK, RequestOK, TypeOK, Request, TokenOrNone
      <4>2. QED
        BY <3>2, <4>1, <2>6, <2>2 DEF Claim, Reasons
    <3>3. CASE StoreReplacement(r)
      BY <3>3, <2>3 DEF StoreReplacement
    <3>4. CASE Link(r)
      BY <3>4, <2>4, <2>6
    <3>5. CASE WaitForReplacement(r) \/ FollowReplacement(r) \/ WalkChain(r) \/ ChangeWrite(r)
      BY <3>5, <2>6 DEF WaitForReplacement, FollowReplacement, WalkChain, ChangeWrite
    <3>6. CASE Cascade(r)
      BY <3>6, <2>2 DEF Cascade, Reasons
    <3>7. CASE MarkLink(r)
      <4>1. req[r].cur \in Tokens
        BY <3>7 DEF MarkLink, At, RequestsOK, RequestOK, TypeOK, Request, TokenOrNone
      <4>2. QED
        BY <3>7, <4>1, <2>6, <2>2 DEF MarkLink, Reasons
    <3>8. CASE ChangeRevoke(r)
      BY <3>8, <2>2 DEF ChangeRevoke, Reasons
    <3>9. QED
      BY <2>6, <3>1, <3>2, <3>3, <3>4, <3>5, <3>6, <3>7, <3>8 DEF Serve
  <2>7. ASSUME NEW r \in Requests, Arrive(r) \/ Crash(r)
        PROVE  UNCHANGED row
    BY <2>7 DEF Arrive, LoginCheck, ChangeCheck, RefreshRead, LogoutRead, Crash
  <2>8. Tick => UNCHANGED row
    BY DEF Tick
  <2>9. QED
    BY <2>1, <2>5, <2>6, <2>7, <2>8 DEF Next
<1>2. QED
  BY Invariant, <1>1, PTL DEF Spec, SuccessionIsFinal

-----------------------------------------------------------------------------
(* A password change that nothing overlaps. *)

Old(t) == row[t].cred < pw

\* One request runs at a time, so the password a login was checked against is still
\* the password, and a rotation passes it on; only the request that is about to
\* revoke them has old sessions left.
PasswordInv ==
    /\ \A q, r \in InProgress : q = r
    /\ \A t \in Tokens : Live(t) /\ Old(t) => \E r \in Requests : At(r, "revoke")
    /\ \A r \in Requests : At(r, "login") => req[r].cred = pw
    /\ \A r \in Requests : At(r, "won") => ~Old(req[r].tok)

OrderlyInv == orderly => PasswordInv

\* Nobody is in progress when a request arrives.
LEMMA Alone ==
  ASSUME NEW r \in Requests, Arrive(r), orderly
  PROVE  InProgress = {}
<1>1. Cardinality(InProgress) < 1
  BY DEF Arrive, LoginCheck, ChangeCheck, RefreshRead, LogoutRead, Admit, Room
<1>2. IsFiniteSet(InProgress)
  BY ConstantsAssumption, FS_Subset DEF InProgress
<1>3. Cardinality(InProgress) \in Nat
  BY <1>2, FS_CardinalityType
<1>4. Cardinality(InProgress) = 0
  BY <1>1, <1>3
<1> QED
  BY <1>2, <1>4, FS_EmptySet

\* An arriving request changes nothing but itself.
LEMMA Arrival ==
  ASSUME IInv, NEW r \in Requests, Arrive(r)
  PROVE  /\ \A q \in Requests \ {r} : req'[q] = req[q]
         /\ UNCHANGED <<row, pw, orderly>>
         /\ req'[r].pc # "won"
         /\ req'[r].pc = "login" => req'[r].cred = pw
<1> DEFINE Fine == /\ \A q \in Requests \ {r} : req'[q] = req[q]
                   /\ req'[r].pc # "won"
                   /\ req'[r].pc = "login" => req'[r].cred = pw
<1>0. req \in [Requests -> Request]
  BY DEF IInv, TypeOK
<1>1. CASE LoginCheck(r)
  BY <1>0, <1>1 DEF LoginCheck, Blank, Set
<1>2. CASE ChangeCheck(r)
  BY <1>0, <1>2 DEF ChangeCheck, Blank, Set
<1>3. ASSUME NEW t \in Tokens, RefreshRead(r, t) PROVE Fine
  <2>1. CASE Set(r, [Blank EXCEPT !.pc = "refused", !.tok = t])
    BY <1>0, <2>1 DEF Blank, Set
  <2>2. CASE Set(r, [Blank EXCEPT !.pc = "wait", !.tok = t, !.cur = t,
                                  !.why = row[t].reason])
    BY <1>0, <2>2 DEF Blank, Set
  <2>3. CASE Set(r, [Blank EXCEPT !.pc = "claim", !.tok = t])
    BY <1>0, <2>3 DEF Blank, Set
  <2> QED
    BY <1>3, <2>1, <2>2, <2>3 DEF RefreshRead
<1>4. ASSUME NEW t \in Tokens, LogoutRead(r, t) PROVE Fine
  <2>1. PICK pc \in {"walk", "loggedOut"} :
          Set(r, [Blank EXCEPT !.pc = pc, !.tok = t, !.cur = t])
    BY <1>4 DEF LogoutRead
  <2> QED
    BY <1>0, <2>1 DEF Blank, Set
<1>5. UNCHANGED <<row, pw, orderly>>
  BY DEF Arrive, LoginCheck, ChangeCheck, RefreshRead, LogoutRead
<1> QED
  BY <1>1, <1>2, <1>3, <1>4, <1>5 DEF Arrive

\* A request that is served changes no other, and no step of it but its claim leads
\* to a rotation.
LEMMA Service ==
  ASSUME IInv, NEW r \in Requests, Serve(r)
  PROVE  /\ r \in InProgress
         /\ \A q \in Requests \ {r} : req'[q] = req[q]
         /\ req'[r].pc # "login"
         /\ req'[r].pc = "won" => Claim(r) /\ Live(req[r].tok) /\ req'[r].tok = req[r].tok
         /\ pw' # pw => At(r, "revoke")'
         /\ At(r, "revoke") => ChangeRevoke(r)
         /\ orderly' = orderly
<1> DEFINE Fine == /\ \A q \in Requests \ {r} : req'[q] = req[q]
                   /\ req'[r].pc # "login"
                   /\ req'[r].pc = "won" =>
                         Claim(r) /\ Live(req[r].tok) /\ req'[r].tok = req[r].tok
<1> USE DEF At
<1>0. req[r] \in Request /\ req \in [Requests -> Request]
  BY DEF IInv, TypeOK
<1>1. ASSUME NEW pc \in Final, NEW t, End(r, pc, t) PROVE Fine
  BY <1>0, <1>1 DEF End, Set, Blank, Final
<1>2. ASSUME GiveUp(r) PROVE Fine
  <2>1. CASE Set(r, [req[r] EXCEPT !.pc = "cascade"])
    BY <1>0, <2>1 DEF Set, Request
  <2>2. CASE End(r, "refused", NoToken)
    BY <1>1, <2>2 DEF Final
  <2> QED
    BY <1>2, <2>1, <2>2 DEF GiveUp
<1>3. ASSUME NEW t, Answer(r, t) PROVE Fine
  BY <1>1, <1>3 DEF Answer, Final
<1>4. Fine
  <2> HIDE DEF Fine
  <2>1. CASE LoginStore(r)
    BY <1>3, <2>1 DEF LoginStore
  <2>2. CASE Claim(r)
    <3>1. CASE Live(req[r].tok) /\ Set(r, [req[r] EXCEPT !.pc = "won"])
      BY <1>0, <2>2, <3>1 DEF Set, Request, Fine
    <3>2. CASE Set(r, [req[r] EXCEPT !.pc = "wait", !.cur = req[r].tok])
      BY <1>0, <3>2 DEF Set, Request, Fine
    <3> QED
      BY <2>2, <3>1, <3>2 DEF Claim
  <2>3. CASE StoreReplacement(r)
    <3>1. PICK t \in Tokens : Set(r, [req[r] EXCEPT !.pc = "link", !.nxt = t])
      BY <2>3 DEF StoreReplacement
    <3> QED
      BY <1>0, <3>1 DEF Set, Request, Fine
  <2>4. CASE Link(r)
    BY <1>1, <1>3, <2>4 DEF Link, Final
  <2>5. CASE WaitForReplacement(r)
    <3>1. CASE Set(r, [req[r] EXCEPT !.polls = @ + 1])
      BY <1>0, <2>5, <3>1 DEF WaitForReplacement, Set, Request, Fine
    <3>2. CASE Set(r, [req[r] EXCEPT !.pc = "next", !.nxt = row[req[r].cur].next])
      BY <1>0, <3>2 DEF Set, Request, Fine
    <3> QED
      BY <1>2, <2>5, <3>1, <3>2 DEF WaitForReplacement
  <2>6. CASE FollowReplacement(r)
    <3>1. CASE Set(r, [req[r] EXCEPT !.pc = "wait", !.cur = req[r].nxt, !.nxt = NoToken,
                                     !.polls = 0, !.hop = @ + 1])
      BY <1>0, <3>1 DEF Set, Request, Fine
    <3> QED
      BY <1>2, <1>3, <2>6, <3>1 DEF FollowReplacement
  <2>7. CASE Cascade(r)
    BY <1>1, <2>7 DEF Cascade, Final
  <2>8. CASE WalkChain(r)
    <3>1. CASE Set(r, [req[r] EXCEPT !.pc = "mark", !.nxt = row[req[r].cur].next])
      BY <1>0, <3>1 DEF Set, Request, Fine
    <3> QED
      BY <1>1, <2>8, <3>1 DEF WalkChain, Final
  <2>9. CASE MarkLink(r)
    <3>1. CASE Set(r, [req[r] EXCEPT !.pc = "walk", !.cur = req[r].nxt,
                                     !.nxt = NoToken, !.hop = @ + 1])
      BY <1>0, <3>1 DEF Set, Request, Fine
    <3> QED
      BY <1>1, <2>9, <3>1 DEF MarkLink, Final
  <2>10. CASE ChangeWrite(r)
    <3>1. Set(r, [req[r] EXCEPT !.pc = "revoke"])
      BY <2>10 DEF ChangeWrite
    <3> QED
      BY <1>0, <3>1 DEF Set, Request, Fine
  <2>11. CASE ChangeRevoke(r)
    BY <1>1, <2>11 DEF ChangeRevoke, Final
  <2> QED
    BY <2>1, <2>2, <2>3, <2>4, <2>5, <2>6, <2>7, <2>8, <2>9, <2>10, <2>11 DEF Serve
<1>5. r \in InProgress /\ (At(r, "revoke") => ChangeRevoke(r)) /\ orderly' = orderly
  BY DEF InProgress, Running, Serve, LoginStore, Claim, StoreReplacement, Link,
         WaitForReplacement, FollowReplacement, Cascade, WalkChain, MarkLink,
         ChangeWrite, ChangeRevoke
<1>6. pw' # pw => At(r, "revoke")'
  <2>1. pw' # pw => ChangeWrite(r)
    BY DEF Serve, LoginStore, Claim, StoreReplacement, Link, WaitForReplacement,
           FollowReplacement, Cascade, WalkChain, MarkLink, ChangeRevoke
  <2>2. ChangeWrite(r) => req'[r].pc = "revoke"
    BY <1>0 DEF ChangeWrite, Set, IInv, TypeOK, Request
  <2> QED
    BY <2>1, <2>2
<1> QED
  BY <1>4, <1>5, <1>6

\* Where a usable token comes from.
LEMMA Origin ==
  ASSUME IInv, NEW r \in Requests, Serve(r), NEW t \in Tokens, Live(t)'
  PROVE  /\ \/ Live(t) /\ row'[t].cred = row[t].cred
            \/ At(r, "login") /\ row'[t].cred = req[r].cred
            \/ At(r, "won") /\ row'[t].cred = row[req[r].tok].cred
         /\ ~ChangeRevoke(r)
<1> DEFINE Kept == Live(t) /\ row'[t].cred = row[t].cred
<1> USE DEF IInv
<1>1. ASSUME NEW S \in SUBSET Tokens, NEW why \in Reasons, Revoke(S, why)
      PROVE  Kept /\ t \notin S
  <2>1. row[t] \in Row /\ row'[t] = IF t \in S
           THEN [row[t] EXCEPT !.revoked = TRUE, !.revokedAt = now, !.reason = why]
           ELSE row[t]
    BY <1>1 DEF Revoke, TypeOK
  <2> QED
    BY <2>1 DEF Row, Live, Stored
<1>2. ASSUME NEW s \in Tokens, NEW family, NEW cred, Store(s, family, cred)
      PROVE  Kept \/ row'[t].cred = cred
  <2>1. t = s => row'[t].cred = cred
    BY <1>2 DEF Store, TypeOK, Unused
  <2>2. t # s => row'[t] = row[t]
    BY <1>2 DEF Store, TypeOK
  <2> QED
    BY <2>1, <2>2 DEF Live, Stored
<1>3. UNCHANGED row => Kept
  BY DEF Live, Stored
<1>4. /\ req[r].tok # NoToken => req[r].tok \in Tokens
      /\ req[r].cur # NoToken => req[r].cur \in Tokens
      /\ At(r, "claim") \/ At(r, "link") => req[r].tok # NoToken
      /\ At(r, "mark") => req[r].cur # NoToken
  BY DEF TypeOK, Request, TokenOrNone, RequestsOK, RequestOK, At
<1>5. CASE LoginStore(r)
  BY <1>2, <1>5 DEF LoginStore, ChangeRevoke, At
<1>6. CASE Claim(r)
  BY <1>1, <1>3, <1>4, <1>6 DEF Claim, ChangeRevoke, At, Reasons
<1>7. CASE StoreReplacement(r)
  BY <1>2, <1>7 DEF StoreReplacement, ChangeRevoke, At
<1>8. CASE Link(r)
  <2>1. CASE UNCHANGED row
    BY <1>3, <1>8, <2>1 DEF Link, ChangeRevoke, At
  <2>2. CASE row' = [row EXCEPT ![req[r].tok].next = req[r].nxt]
    <3>1. /\ row'[t].state = row[t].state /\ row'[t].revoked = row[t].revoked
          /\ row'[t].cred = row[t].cred
      BY <2>2 DEF TypeOK, Row
    <3> QED
      BY <1>8, <3>1 DEF Link, ChangeRevoke, At, Live, Stored
  <2> QED
    BY <1>8, <2>1, <2>2 DEF Link
<1>9. CASE WaitForReplacement(r) \/ FollowReplacement(r) \/ WalkChain(r) \/ ChangeWrite(r)
  BY <1>3, <1>9 DEF WaitForReplacement, FollowReplacement, WalkChain, ChangeWrite,
                    ChangeRevoke, At
<1>10. CASE Cascade(r)
  <2>1. {s \in Tokens : Live(s)} \in SUBSET Tokens
    OBVIOUS
  <2> QED
    BY <1>1, <1>10, <2>1 DEF Cascade, ChangeRevoke, At, Reasons
<1>11. CASE MarkLink(r)
  BY <1>1, <1>3, <1>4, <1>11 DEF MarkLink, ChangeRevoke, At, Reasons
<1>12. ~ChangeRevoke(r)
  <2> SUFFICES ASSUME ChangeRevoke(r) PROVE FALSE
    OBVIOUS
  <2>1. PICK S \in SUBSET Tokens : S = {s \in Tokens : Stored(s)}
    OBVIOUS
  <2>2. Kept /\ t \notin S
    BY <1>1, <2>1 DEF ChangeRevoke, Reasons
  <2> QED
    BY <2>1, <2>2 DEF Live
<1> QED
  BY <1>5, <1>6, <1>7, <1>8, <1>9, <1>10, <1>11, <1>12 DEF Serve

LEMMA PasswordInit == Init => OrderlyInv
BY DEF Init, OrderlyInv, PasswordInv, InProgress, Running, Blank, Unused, Live, Stored, At

LEMMA PasswordStep == IInv /\ OrderlyInv /\ [Next]_vars => OrderlyInv'
<1> SUFFICES ASSUME IInv, PasswordInv, orderly, [Next]_vars PROVE PasswordInv'
  <2>1. [Next]_vars => orderly' = orderly
    BY DEF Next, vars, Arrive, LoginCheck, ChangeCheck, RefreshRead, LogoutRead, Serve,
           LoginStore, Claim, StoreReplacement, Link, WaitForReplacement,
           FollowReplacement, Cascade, WalkChain, MarkLink, ChangeWrite, ChangeRevoke,
           Purge, Crash, Tick
  <2> QED
    BY <2>1 DEF OrderlyInv
<1>1. ASSUME NEW r \in Requests, Arrive(r) PROVE PasswordInv'
  <2>1. \A q \in Requests : req[q].pc \notin Running
    BY <1>1, Alone DEF InProgress
  <2>2. /\ \A q \in Requests \ {r} : req'[q] = req[q]
        /\ UNCHANGED <<row, pw, orderly>> /\ req'[r].pc # "won"
        /\ req'[r].pc = "login" => req'[r].cred = pw
    BY <1>1, Arrival
  <2>3. \A t \in Tokens : ~(Live(t) /\ Old(t))
    BY <2>1 DEF PasswordInv, At, Running
  <2>4. \A t \in Tokens : ~(Live(t) /\ Old(t))'
    BY <2>2, <2>3 DEF Live, Stored, Old
  <2> QED
    BY <2>1, <2>2, <2>4 DEF PasswordInv, InProgress, At, Running
<1>2. ASSUME NEW r \in Requests, Serve(r) PROVE PasswordInv'
  <2>1. /\ r \in InProgress
        /\ \A q \in Requests \ {r} : req'[q] = req[q]
        /\ req'[r].pc # "login"
        /\ req'[r].pc = "won" => Claim(r) /\ Live(req[r].tok) /\ req'[r].tok = req[r].tok
        /\ pw' # pw => At(r, "revoke")'
        /\ At(r, "revoke") => ChangeRevoke(r)
    BY <1>2, Service
  <2>2. \A q \in Requests \ {r} : req[q].pc \notin Running /\ req'[q].pc \notin Running
    BY <2>1 DEF PasswordInv, InProgress
  <2>3. ASSUME NEW t \in Tokens, Live(t)', Old(t)' PROVE At(r, "revoke")'
    <3> SUFFICES ASSUME pw' = pw PROVE FALSE
      BY <2>1
    <3>1. /\ \/ Live(t) /\ row'[t].cred = row[t].cred
             \/ At(r, "login") /\ row'[t].cred = req[r].cred
             \/ At(r, "won") /\ row'[t].cred = row[req[r].tok].cred
          /\ ~ChangeRevoke(r)
      BY <1>2, <2>3, Origin
    <3>2. CASE Live(t) /\ row'[t].cred = row[t].cred
      <4>1. PICK q \in Requests : At(q, "revoke")
        BY <2>3, <3>2 DEF PasswordInv, Old
      <4>2. q = r
        BY <2>2, <4>1 DEF At, Running
      <4> QED
        BY <2>1, <3>1, <4>1, <4>2
    <3>3. CASE At(r, "login") /\ row'[t].cred = req[r].cred
      <4>1. row'[t].cred = pw /\ pw \in Nat
        BY <3>3 DEF PasswordInv, IInv, TypeOK
      <4> QED
        BY <2>3, <4>1 DEF Old
    <3>4. CASE At(r, "won") /\ row'[t].cred = row[req[r].tok].cred
      BY <2>3, <3>4 DEF PasswordInv, Old
    <3> QED
      BY <3>1, <3>2, <3>3, <3>4
  <2>4. ASSUME At(r, "won")' PROVE ~Old(req[r].tok)'
    <3>1. /\ Claim(r) /\ Live(req[r].tok) /\ req'[r].tok = req[r].tok
      BY <2>1, <2>4 DEF At
    <3>2. req[r].tok \in Tokens
      BY <3>1 DEF Claim, At, IInv, TypeOK, Request, TokenOrNone, RequestsOK, RequestOK
    <3>3. ~Old(req[r].tok)
      <4>1. ASSUME NEW q \in Requests, At(q, "revoke") PROVE FALSE
        <5>1. q = r
          BY <2>2, <4>1 DEF At, Running
        <5> QED
          BY <3>1, <4>1, <5>1 DEF Claim, At
      <4> QED
        BY <3>1, <3>2, <4>1 DEF PasswordInv
    <3>4. row'[req[r].tok].cred = row[req[r].tok].cred /\ pw' = pw
      <4>1. Revoke({req[r].tok}, "rotated") /\ pw' = pw
        BY <3>1 DEF Claim
      <4> QED
        BY <3>2, <4>1 DEF Revoke, IInv, TypeOK, Row
    <3> QED
      BY <3>1, <3>3, <3>4 DEF Old
  <2>5. \A q, s \in InProgress' : q = s
    BY <2>2 DEF InProgress
  <2>6. \A q \in Requests : At(q, "login")' => FALSE
    BY <2>1, <2>2 DEF At, Running
  <2>7. \A q \in Requests : At(q, "won")' => q = r
    BY <2>2 DEF At, Running
  <2> QED
    BY <2>3, <2>4, <2>5, <2>6, <2>7 DEF PasswordInv
<1>3. ASSUME NEW r \in Requests, Purge(r) PROVE PasswordInv'
  <2>1. \A t \in Tokens : /\ Live(t)' => Live(t)
                          /\ row'[t].cred = row[t].cred
    BY <1>3 DEF Purge, Live, Stored, IInv, TypeOK, Row
  <2>2. UNCHANGED <<req, pw>>
    BY <1>3 DEF Purge
  <2>3. \A q \in Requests : At(q, "won") => req[q].tok \in Tokens
    BY DEF At, IInv, TypeOK, Request, TokenOrNone, RequestsOK, RequestOK
  <2> QED
    BY <2>1, <2>2, <2>3 DEF PasswordInv, InProgress, At, Old
<1>4. ASSUME NEW r \in Requests, Crash(r) PROVE PasswordInv'
  BY <1>4 DEF Crash
<1>5. CASE Tick \/ UNCHANGED vars
  BY <1>5 DEF Tick, vars, PasswordInv, InProgress, At, Old, Live, Stored
<1> QED
  BY <1>1, <1>2, <1>3, <1>4, <1>5 DEF Next

\* A password change that nothing overlaps leaves no session usable that was opened
\* with an earlier password, except while the change is at its last call.
THEOREM PasswordChangeTakes == Spec => []PasswordChangeEndsSessions
<1>1. IInv /\ OrderlyInv /\ [Next]_vars => (IInv /\ OrderlyInv)'
  BY NextIInv, PasswordStep
<1>2. OrderlyInv => PasswordChangeEndsSessions
  BY DEF OrderlyInv, PasswordInv, PasswordChangeEndsSessions, Old
<1> QED
  BY <1>1, <1>2, InitIInv, PasswordInit, PTL DEF Spec

-----------------------------------------------------------------------------
(* One line of succession, walked to its end: a logout and a replay that   *)
(* nothing overlaps.                                                       *)

\* A token and whatever it was replaced with since.
Line(t) ==
    {u \in Tokens :
        \A C \in SUBSET Tokens :
            t \in C /\ (\A c \in C : row[c].next # NoToken => row[c].next \in C) => u \in C}

\* A session is over once it has no usable token and no rotation that will create one.
Over(f) ==
    /\ \A t \in Tokens : Live(t) => row[t].family # f
    /\ \A r \in Requests : At(r, "won") => row[req[r].tok].family # f

Walking(f) ==
    \E r \in Requests : req[r].pc \in {"walk", "mark"} /\ row[req[r].tok].family = f

\* Only one token of a session has no replacement, but for one about to be linked.
OneEnd ==
    \A s, t \in Tokens :
        /\ Used(s) /\ Used(t) /\ SameSession(s, t)
        /\ row[s].next = NoToken /\ row[t].next = NoToken
        => \/ s = t
           \/ \E r \in Requests : At(r, "link") /\ {s, t} = {req[r].tok, req[r].nxt}

Dated ==
    \A t \in Tokens : Used(t) => row[t].expires <= now + TTL /\ row[t].revokedAt <= now

\* A replacement outlives what it replaces, ...
Outlives(n, t) ==
    /\ row[t].expires <= row[n].expires
    /\ Stored(t) => Stored(n)

\* ... was created when that was revoked, and is itself revoked later.
Prompt(t, n) ==
    /\ row[t].revokedAt + TTL <= row[n].expires
    /\ row[n].revoked => row[t].revokedAt <= row[n].revokedAt

\* A logout writes new dates, but is on its way to the end of the session then.
Succeeded(t) ==
    Over(row[t].family) \/ Walking(row[t].family) \/ Prompt(t, row[t].next)

Heirs ==
    \A t \in Tokens : row[t].next # NoToken => Outlives(row[t].next, t) /\ Succeeded(t)

\* The links ascend, so that a line never comes back to where it was.
Ascending ==
    \E rank \in [Tokens -> Nat] :
        /\ \A t \in Tokens : row[t].next # NoToken => rank[t] < rank[row[t].next]
        /\ \A r \in Requests : At(r, "link") => rank[req[r].tok] < rank[req[r].nxt]

FinitelyUsed == IsFiniteSet({t \in Tokens : Used(t)})

Loop == {"wait", "next", "walk", "mark"}

\* What the request in progress has found, which stays so as long as it is alone; the
\* hops that are left are enough for what lies ahead of it.
Holds(r) ==
    LET q == req[r] IN
    /\ q.pc = "claim" => Live(q.tok)
    /\ q.pc = "won" => Stored(q.tok)
    /\ q.pc = "link" =>
          Stored(q.tok) /\ Live(q.nxt) /\ Outlives(q.nxt, q.tok) /\ Prompt(q.tok, q.nxt)
    /\ q.pc \in Loop => Stored(q.cur) /\ q.hop + Cardinality(Line(q.cur)) <= MaxHops
    /\ q.pc \in {"wait", "next"} =>
          /\ row[q.cur].revoked
          /\ Over(row[q.tok].family) \/ row[q.tok].revokedAt <= row[q.cur].revokedAt
    /\ q.pc \in {"next", "mark"} => q.nxt = row[q.cur].next
    /\ q.pc = "cascade" =>
          Over(row[q.tok].family) \/ now > row[q.tok].revokedAt + Grace \/ ~(Grace < TTL)

Chain ==
    /\ OneEnd /\ Dated /\ Heirs /\ Ascending /\ FinitelyUsed
    /\ \A r \in Requests : Holds(r)

ChainInv == orderly => PasswordInv /\ Chain

\* Nobody but r is in progress, and nobody but r moves.
Only(r) == \A q \in Requests \ {r} : req'[q] = req[q] /\ req[q].pc \notin Running

LEMMA Lone ==
  ASSUME IInv, PasswordInv, orderly, NEW r \in Requests, Arrive(r) \/ Serve(r)
  PROVE  /\ Only(r) /\ orderly' = orderly
         /\ Arrive(r) => req[r].pc = "idle"
         /\ Serve(r) => req[r].pc \in Running
<1>1. CASE Arrive(r)
  <2>1. req[r].pc = "idle"
    BY <1>1 DEF Arrive, LoginCheck, ChangeCheck, RefreshRead, LogoutRead, Admit
  <2>2. \A q \in Requests : req[q].pc \notin Running
    BY <1>1, Alone DEF InProgress
  <2>3. \A q \in Requests \ {r} : req'[q] = req[q]
    BY <1>1, Arrival
  <2>4. orderly' = orderly
    BY <1>1, Arrival
  <2>5. ~Serve(r)
    BY <2>2, Service DEF InProgress
  <2> QED
    BY <2>1, <2>2, <2>3, <2>4, <2>5 DEF Only
<1>2. CASE Serve(r)
  <2>1. r \in InProgress /\ \A q \in Requests \ {r} : req'[q] = req[q]
    BY <1>2, Service
  <2>2. orderly' = orderly
    BY <1>2, Service
  <2>3. \A q \in Requests \ {r} : req[q].pc \notin Running
    BY <2>1 DEF PasswordInv, InProgress
  <2>4. ~Arrive(r)
    <3>1. req[r].pc \in Running
      BY <2>1 DEF InProgress
    <3> QED
      BY <3>1 DEF Arrive, LoginCheck, ChangeCheck, RefreshRead, LogoutRead, Admit, Running
  <2> QED
    BY <2>1, <2>2, <2>3, <2>4 DEF Only, InProgress
<1> QED
  BY <1>1, <1>2

-----------------------------------------------------------------------------
(* Lines. *)

\* The tokens of a line are used, hence finitely many.
LEMMA LineFinite ==
  ASSUME IInv, FinitelyUsed, NEW t \in Tokens, Used(t)
  PROVE  /\ IsFiniteSet(Line(t)) /\ Cardinality(Line(t)) \in Nat
         /\ t \in Line(t) /\ Cardinality(Line(t)) >= 1
<1> DEFINE U == {u \in Tokens : Used(u)}
<1>1. \A c \in U : row[c].next # NoToken => row[c].next \in U
  BY DEF IInv, RowsOK, TypeOK, Row, TokenOrNone
<1>2. Line(t) \subseteq U
  <2>1. U \in SUBSET Tokens /\ t \in U
    OBVIOUS
  <2> HIDE DEF U
  <2> QED
    BY <1>1, <2>1 DEF Line
<1>3. IsFiniteSet(Line(t)) /\ Cardinality(Line(t)) \in Nat
  BY <1>2, FS_Subset, FS_CardinalityType DEF FinitelyUsed
<1>4. t \in Line(t)
  BY DEF Line
<1>5. Cardinality(Line(t)) # 0
  BY <1>3, <1>4, FS_EmptySet
<1> QED
  BY <1>3, <1>4, <1>5

\* A step along the link leaves one token behind, and comes back to none.
LEMMA LineShrinks ==
  ASSUME IInv, FinitelyUsed, Ascending, NEW t \in Tokens, Used(t), row[t].next # NoToken
  PROVE  /\ row[t].next \in Tokens /\ Used(row[t].next)
         /\ Cardinality(Line(row[t].next)) + 1 <= Cardinality(Line(t))
<1> DEFINE n == row[t].next
<1>1. n \in Tokens /\ Used(n)
  BY DEF IInv, RowsOK, TypeOK, Row, TokenOrNone
<1>2. Line(n) \subseteq Line(t)
  BY DEF Line
<1>3. t \notin Line(n)
  <2>1. PICK rank \in [Tokens -> Nat] :
          \A s \in Tokens : row[s].next # NoToken => rank[s] < rank[row[s].next]
    BY DEF Ascending
  <2> DEFINE C == {s \in Tokens : rank[s] >= rank[n]}
  <2>2. \A c \in C : row[c].next # NoToken => row[c].next \in C
    <3> SUFFICES ASSUME NEW c \in C, row[c].next # NoToken PROVE row[c].next \in C
      OBVIOUS
    <3>1. row[c].next \in Tokens
      BY DEF IInv, TypeOK, Row, TokenOrNone
    <3>2. rank[c] < rank[row[c].next] /\ rank[c] >= rank[n]
      BY <2>1
    <3> QED
      BY <1>1, <3>1, <3>2
  <2>3. n \in C /\ t \notin C /\ C \in SUBSET Tokens
    BY <1>1, <2>1
  <2> HIDE DEF C
  <2> QED
    BY <2>2, <2>3 DEF Line
<1>4. /\ IsFiniteSet(Line(t)) /\ t \in Line(t) /\ IsFiniteSet(Line(n))
      /\ Cardinality(Line(t)) \in Nat /\ Cardinality(Line(n)) \in Nat
  BY <1>1, LineFinite
<1>5. /\ Cardinality(Line(n) \cup {t}) = Cardinality(Line(n)) + 1
      /\ IsFiniteSet(Line(n) \cup {t})
  BY <1>3, <1>4, FS_AddElement
<1>6. Line(n) \cup {t} \subseteq Line(t)
  BY <1>2, <1>4
<1>7. Cardinality(Line(n) \cup {t}) <= Cardinality(Line(t))
  BY <1>4, <1>6, FS_Subset
<1> QED
  BY <1>1, <1>4, <1>5, <1>7

-----------------------------------------------------------------------------
(* What the calls do to the table. *)

\* Revoking writes the date and leaves the rest of the row.
LEMMA RevokeDates ==
  ASSUME TypeOK, NEW S \in SUBSET Tokens, NEW why \in Reasons, Revoke(S, why), NEW t \in Tokens
  PROVE  /\ row'[t].state = row[t].state /\ row'[t].family = row[t].family
         /\ row'[t].next = row[t].next /\ row'[t].expires = row[t].expires
         /\ t \in S => row'[t].revoked /\ row'[t].revokedAt = now
         /\ t \notin S => row'[t] = row[t]
<1>1. row[t] \in Row /\ row'[t] = IF t \in S
         THEN [row[t] EXCEPT !.revoked = TRUE, !.revokedAt = now, !.reason = why]
         ELSE row[t]
  BY DEF Revoke, TypeOK
<1> QED
  BY <1>1 DEF Row

\* A new row takes an unused id.
LEMMA StoreDates ==
  ASSUME TypeOK, NEW n \in Tokens, NEW family, NEW cred, Store(n, family, cred)
  PROVE  /\ ~Used(n)
         /\ \A t \in Tokens \ {n} : row'[t] = row[t]
         /\ row'[n].state = "stored" /\ ~row'[n].revoked /\ row'[n].next = NoToken
         /\ row'[n].family = family
         /\ row'[n].expires = now + TTL /\ row'[n].revokedAt = 0
BY DEF TypeOK, Store, Unused, Used

\* The link is the only column that Link writes.
LEMMA LinkDates ==
  ASSUME TypeOK, NEW t \in Tokens, NEW n, row' = [row EXCEPT ![t].next = n]
  PROVE  /\ row'[t].next = n
         /\ \A u \in Tokens :
              /\ u # t => row'[u] = row[u]
              /\ row'[u].state = row[u].state /\ row'[u].family = row[u].family
              /\ row'[u].revoked = row[u].revoked /\ row'[u].revokedAt = row[u].revokedAt
              /\ row'[u].expires = row[u].expires
<1>1. \A u \in Tokens : row[u] \in Row
  BY DEF TypeOK
<1>2. \A u \in Tokens : row'[u] = IF u = t THEN [row[u] EXCEPT !.next = n] ELSE row[u]
  BY DEF TypeOK
<1> QED
  BY <1>1, <1>2 DEF Row

\* What a request holds are tokens.
LEMMA HeldTokens ==
  ASSUME IInv, NEW r \in Requests
  PROVE  /\ req[r] \in Request
         /\ req[r].tok # NoToken => req[r].tok \in Tokens /\ Used(req[r].tok)
         /\ req[r].cur # NoToken => req[r].cur \in Tokens /\ Used(req[r].cur)
                /\ req[r].tok \in Tokens /\ row[req[r].cur].family = row[req[r].tok].family
         /\ req[r].nxt # NoToken => req[r].nxt \in Tokens /\ Used(req[r].nxt)
         /\ req[r].pc \in {"claim", "won", "link", "wait", "next", "walk", "mark", "cascade"}
              => req[r].tok \in Tokens /\ Used(req[r].tok)
         /\ req[r].pc \in Loop => req[r].cur \in Tokens /\ Used(req[r].cur)
                /\ row[req[r].cur].family = row[req[r].tok].family
         /\ req[r].pc \in {"link", "next", "done", "lost"} => req[r].nxt \in Tokens
BY DEF IInv, TypeOK, Request, RequestsOK, RequestOK, TokenOrNone, SameSession, Loop

\* A token stays in its session, and a usable one is not new unless it was stored by
\* a login or for a rotation.
LEMMA RowOrigin ==
  ASSUME IInv, NEW r \in Requests, Serve(r), NEW t \in Tokens
  PROVE  \/ /\ Used(t)' <=> Used(t)
            /\ row'[t].family = row[t].family
            /\ Live(t)' => Live(t)
         \/ ~Used(t) /\ LoginStore(r) /\ row'[t].family = t
         \/ ~Used(t) /\ At(r, "won") /\ row'[t].family = row[req[r].tok].family
<1> DEFINE Same == /\ Used(t)' <=> Used(t)
                   /\ row'[t].family = row[t].family
                   /\ Live(t)' => Live(t)
<1>0. TypeOK /\ row[t] \in Row
  BY DEF IInv, TypeOK
<1>1. UNCHANGED row => Same
  BY DEF Used, Live, Stored
<1>2. ASSUME NEW S \in SUBSET Tokens, NEW why \in Reasons, Revoke(S, why) PROVE Same
  BY <1>0, <1>2, RevokeDates DEF Used, Live, Stored
<1>3. CASE LoginStore(r)
  <2>1. PICK n \in Tokens : Store(n, n, req[r].cred)
    BY <1>3 DEF LoginStore
  <2> QED
    BY <1>0, <1>3, <2>1, StoreDates DEF Used, Live, Stored
<1>4. CASE StoreReplacement(r)
  <2>1. PICK n \in Tokens : Store(n, row[req[r].tok].family, row[req[r].tok].cred)
    BY <1>4 DEF StoreReplacement
  <2>2. At(r, "won")
    BY <1>4 DEF StoreReplacement
  <2> QED
    BY <1>0, <2>1, <2>2, StoreDates DEF Used, Live, Stored
<1>5. CASE Claim(r)
  <2>1. req[r].tok \in Tokens
    BY <1>5, HeldTokens DEF Claim, At
  <2> QED
    BY <1>1, <1>2, <1>5, <2>1 DEF Claim, Reasons
<1>6. CASE Link(r)
  <2>1. req[r].tok \in Tokens
    BY <1>6, HeldTokens DEF Link, At
  <2> QED
    BY <1>0, <1>1, <1>6, <2>1, LinkDates DEF Link, Used, Live, Stored
<1>7. CASE MarkLink(r)
  <2>1. req[r].cur \in Tokens
    BY <1>7, HeldTokens DEF MarkLink, At, Loop
  <2> QED
    BY <1>1, <1>2, <1>7, <2>1 DEF MarkLink, Reasons
<1>8. CASE Cascade(r)
  <2>1. {s \in Tokens : Live(s)} \in SUBSET Tokens
    OBVIOUS
  <2> QED
    BY <1>2, <1>8, <2>1 DEF Cascade, Reasons
<1>9. CASE ChangeRevoke(r)
  <2>1. {s \in Tokens : Stored(s)} \in SUBSET Tokens
    OBVIOUS
  <2> QED
    BY <1>2, <1>9, <2>1 DEF ChangeRevoke, Reasons
<1>10. CASE WaitForReplacement(r) \/ FollowReplacement(r) \/ WalkChain(r) \/ ChangeWrite(r)
  BY <1>1, <1>10 DEF WaitForReplacement, FollowReplacement, WalkChain, ChangeWrite
<1> QED
  BY <1>3, <1>4, <1>5, <1>6, <1>7, <1>8, <1>9, <1>10 DEF Serve

\* A session that is over stays so.
LEMMA OverStable ==
  ASSUME IInv, [Next]_vars, NEW f \in Tokens, Used(f), Over(f)
  PROVE  Over(f)'
<1>1. ASSUME NEW r \in Requests, Serve(r) PROVE Over(f)'
  <2>1. ASSUME NEW t \in Tokens, Live(t)' PROVE row'[t].family # f
    <3>1. CASE Live(t) /\ row'[t].family = row[t].family
      BY <3>1 DEF Over
    <3>2. CASE ~Used(t) /\ row'[t].family = t
      BY <3>2
    <3>3. CASE At(r, "won") /\ row'[t].family = row[req[r].tok].family
      BY <3>3 DEF Over
    <3> QED
      BY <1>1, <2>1, <3>1, <3>2, <3>3, RowOrigin
  <2>2. ASSUME NEW q \in Requests, At(q, "won")' PROVE row'[req'[q].tok].family # f
    <3>1. CASE q # r
      <4>1. req'[q] = req[q]
        BY <1>1, <3>1, Service
      <4>2. At(q, "won") /\ req[q].tok \in Tokens /\ Used(req[q].tok)
        BY <2>2, <4>1, HeldTokens DEF At
      <4>3. row'[req[q].tok].family = row[req[q].tok].family
        BY <1>1, <4>2, RowOrigin
      <4> QED
        BY <4>1, <4>2, <4>3 DEF Over
    <3>2. CASE q = r
      <4>1. Claim(r) /\ Live(req[r].tok) /\ req'[r].tok = req[r].tok
        BY <1>1, <2>2, <3>2, Service DEF At
      <4>2. req[r].tok \in Tokens /\ Used(req[r].tok)
        BY <4>1, HeldTokens DEF Claim, At
      <4>3. row'[req[r].tok].family = row[req[r].tok].family
        BY <1>1, <4>2, RowOrigin
      <4> QED
        BY <3>2, <4>1, <4>2, <4>3 DEF Over
    <3> QED
      BY <3>1, <3>2
  <2> QED
    BY <2>1, <2>2 DEF Over
<1>2. ASSUME NEW r \in Requests, Arrive(r) PROVE Over(f)'
  <2>1. /\ \A q \in Requests \ {r} : req'[q] = req[q]
        /\ row' = row /\ req'[r].pc # "won"
    BY <1>2, Arrival
  <2> QED
    BY <2>1 DEF Over, Live, Stored, At
<1>3. ASSUME NEW r \in Requests, Purge(r) PROVE Over(f)'
  <2>1. \A t \in Tokens : row[t] \in Row
    BY DEF IInv, TypeOK
  <2>2. \A t \in Tokens : (Live(t)' => Live(t)) /\ row'[t].family = row[t].family
    BY <1>3, <2>1 DEF Purge, Live, Stored, Row
  <2>3. \A q \in Requests : At(q, "won") => req[q].tok \in Tokens
    BY HeldTokens DEF At
  <2> QED
    BY <1>3, <2>2, <2>3 DEF Over, Purge, At
<1>4. ASSUME NEW r \in Requests, Crash(r) PROVE Over(f)'
  <2>1. req \in [Requests -> Request] /\ row' = row
    BY <1>4 DEF IInv, TypeOK, Crash
  <2>2. \A q \in Requests : At(q, "won")' => At(q, "won") /\ req'[q] = req[q]
    BY <1>4, <2>1 DEF Crash, End, Set, Blank, At
  <2> QED
    BY <2>1, <2>2 DEF Over, Live, Stored, At
<1>5. CASE Tick \/ UNCHANGED vars
  BY <1>5 DEF Tick, vars, Over, Live, Stored, At
<1> QED
  BY <1>1, <1>2, <1>3, <1>4, <1>5 DEF Next

-----------------------------------------------------------------------------
(* Steps that leave the links alone. *)

Kept ==
    \A t \in Tokens :
        /\ row'[t].state = row[t].state /\ row'[t].family = row[t].family
        /\ row'[t].next = row[t].next /\ row'[t].expires = row[t].expires

LEMMA LineKept ==
  ASSUME \A t \in Tokens : row'[t].next = row[t].next, NEW t \in Tokens
  PROVE  Line(t)' = Line(t)
<1>1. \A C \in SUBSET Tokens :
        (\A c \in C : row'[c].next # NoToken => row'[c].next \in C)
          <=> (\A c \in C : row[c].next # NoToken => row[c].next \in C)
  OBVIOUS
<1> QED
  BY <1>1 DEF Line

\* Whoever is not in progress is not at any of the steps the invariant speaks of.
LEMMA Bystanders ==
  ASSUME NEW r \in Requests, Only(r), NEW q \in Requests \ {r}
  PROVE  /\ req'[q] = req[q] /\ Holds(q)' /\ q \notin InProgress
         /\ ~At(q, "won") /\ ~At(q, "link") /\ req[q].pc \notin {"walk", "mark"}
         /\ ~At(q, "won")' /\ ~At(q, "link")' /\ req'[q].pc \notin {"walk", "mark"}
<1>1. req'[q] = req[q] /\ req[q].pc \notin Running
  BY DEF Only
<1>2. Holds(q)'
  BY <1>1 DEF Holds, Running, Loop
<1> QED
  BY <1>1, <1>2 DEF At, Running, InProgress

LEMMA ShapeStep ==
  ASSUME IInv, IInv', Chain, NEW r \in Requests, Only(r), Kept, now' = now,
         \A t \in Tokens : Used(t) => row'[t].revokedAt <= now,
         ~At(r, "link"), ~At(r, "link")', Holds(r)',
         \A t \in Tokens : row[t].next # NoToken => Succeeded(t)'
  PROVE  Chain'
<1>1. /\ \A t \in Tokens : Used(t)' <=> Used(t)
      /\ \A t \in Tokens : Stored(t)' <=> Stored(t)
  BY DEF Kept, Used, Stored
<1>2. \A q \in Requests : ~At(q, "link") /\ ~At(q, "link")'
  BY Bystanders
<1>3. OneEnd'
  <2> SUFFICES ASSUME NEW s \in Tokens, NEW t \in Tokens, Used(s)', Used(t)',
                      SameSession(s, t)', row'[s].next = NoToken, row'[t].next = NoToken
               PROVE  s = t
    BY DEF OneEnd
  <2>1. Used(s) /\ Used(t) /\ SameSession(s, t) /\ row[s].next = NoToken /\ row[t].next = NoToken
    BY <1>1 DEF Kept, SameSession
  <2> QED
    BY <1>2, <2>1 DEF Chain, OneEnd
<1>4. Dated'
  BY <1>1 DEF Chain, Dated, Kept
<1>5. Heirs'
  <2> SUFFICES ASSUME NEW t \in Tokens, row'[t].next # NoToken
               PROVE  Outlives(row[t].next, t)' /\ Succeeded(t)'
    BY DEF Heirs, Kept
  <2>1. row[t].next # NoToken /\ row[t].next \in Tokens
    BY DEF Kept, IInv, TypeOK, Row, TokenOrNone
  <2>2. Outlives(row[t].next, t)
    BY <2>1 DEF Chain, Heirs
  <2>3. row'[t].next = row[t].next
    BY DEF Kept
  <2>4. Outlives(row[t].next, t)'
    BY <1>1, <2>1, <2>2, <2>3 DEF Kept, Outlives
  <2> QED
    BY <2>1, <2>4
<1>6. Ascending'
  <2>1. PICK rank \in [Tokens -> Nat] :
          \A t \in Tokens : row[t].next # NoToken => rank[t] < rank[row[t].next]
    BY DEF Chain, Ascending
  <2> QED
    BY <1>2, <2>1 DEF Ascending, Kept
<1>7. FinitelyUsed'
  <2>1. {t \in Tokens : Used(t)}' = {t \in Tokens : Used(t)}
    BY <1>1
  <2> QED
    BY <2>1 DEF Chain, FinitelyUsed
<1>8. \A q \in Requests : Holds(q)'
  BY Bystanders
<1> QED
  BY <1>3, <1>4, <1>5, <1>6, <1>7, <1>8 DEF Chain

\* A session that is over is so after a step that leaves the table alone.
LEMMA OverQuiet ==
  ASSUME NEW r \in Requests, Only(r), row' = row, ~At(r, "won")', NEW f, Over(f)
  PROVE  Over(f)'
BY Bystanders DEF Over, Live, Stored

LEMMA QuietChain ==
  ASSUME IInv, IInv', Chain, NEW r \in Requests, Only(r), UNCHANGED <<row, now>>,
         ~At(r, "link"), ~At(r, "link")', ~At(r, "won")', Holds(r)',
         req[r].pc \in {"walk", "mark"} =>
            \/ Over(row[req[r].tok].family)
            \/ req'[r].pc \in {"walk", "mark"} /\ req'[r].tok = req[r].tok
  PROVE  Chain'
<1>1. ASSUME NEW t \in Tokens, row[t].next # NoToken PROVE Succeeded(t)'
  <2>1. Succeeded(t)
    BY <1>1 DEF Chain, Heirs
  <2>2. CASE Over(row[t].family)
    <3>1. Over(row[t].family)'
      BY <2>2, OverQuiet
    <3> QED
      BY <3>1 DEF Succeeded
  <2>3. CASE Walking(row[t].family)
    <3>1. req[r].pc \in {"walk", "mark"} /\ row[req[r].tok].family = row[t].family
      BY <2>3, Bystanders DEF Walking
    <3>2. CASE Over(row[t].family)
      BY <2>2, <3>2
    <3>3. CASE req'[r].pc \in {"walk", "mark"} /\ req'[r].tok = req[r].tok
      <4>1. Walking(row[t].family)'
        BY <3>1, <3>3 DEF Walking
      <4> QED
        BY <4>1 DEF Succeeded
    <3> QED
      BY <2>2, <3>1, <3>2, <3>3
  <2>4. CASE Prompt(t, row[t].next)
    <3>1. Prompt(t, row[t].next)'
      BY <2>4 DEF Prompt
    <3> QED
      BY <3>1 DEF Succeeded
  <2> QED
    BY <2>1, <2>2, <2>3, <2>4 DEF Succeeded
<1>2. Kept /\ \A t \in Tokens : Used(t) => row'[t].revokedAt <= now
  BY DEF Kept, Chain, Dated
<1> QED
  BY <1>1, <1>2, ShapeStep

-----------------------------------------------------------------------------
(* The steps of one request at a time. *)

\* A purge runs when no request is in progress.
PurgesAtRest == \A t \in Tokens : Stored(t) /\ ~Stored(t)' => InProgress = {}

\* A token that is presented was replaced fewer than MaxHops times since.
PresentsRecent ==
    \A r \in Requests, t \in Tokens :
        RefreshRead(r, t) \/ LogoutRead(r, t) => Cardinality(Line(t)) <= MaxHops

\* A token that is presented to sign out is still in the table.
PresentsStored == \A r \in Requests, t \in Tokens : LogoutRead(r, t) => Stored(t)

\* A usable token is the end of its session.
LEMMA OnlyLast ==
  ASSUME IInv, Chain, NEW r \in Requests, Only(r), ~At(r, "link"),
         NEW c \in Tokens, Used(c), row[c].next = NoToken,
         NEW u \in Tokens, Live(u), row[u].family = row[c].family
  PROVE  u = c
<1>1. Used(u) /\ row[u].next = NoToken
  BY DEF IInv, RowsOK, Live, Stored, Used
<1>2. \A q \in Requests : ~At(q, "link")
  BY Bystanders
<1> QED
  BY <1>1, <1>2 DEF Chain, OneEnd, SameSession

\* While there is a link to follow there is a hop left to follow it.
LEMMA HopsSuffice ==
  ASSUME IInv, Chain, NEW r \in Requests, req[r].pc \in Loop, row[req[r].cur].next # NoToken
  PROVE  LET n == row[req[r].cur].next IN
         /\ n \in Tokens /\ Used(n) /\ Stored(n) /\ row[n].family = row[req[r].tok].family
         /\ req[r].hop \in Nat /\ req[r].hop + 1 < MaxHops
         /\ req[r].hop + 1 + Cardinality(Line(n)) <= MaxHops
<1> DEFINE c == req[r].cur
<1> DEFINE n == row[c].next
<1>1. /\ c \in Tokens /\ Used(c) /\ row[c].family = row[req[r].tok].family
      /\ req[r].hop \in Nat
  BY HeldTokens DEF Request
<1>2. Stored(c) /\ req[r].hop + Cardinality(Line(c)) <= MaxHops
  BY DEF Chain, Holds
<1>3. n \in Tokens /\ Used(n) /\ Cardinality(Line(n)) + 1 <= Cardinality(Line(c))
  BY <1>1, LineShrinks DEF Chain
<1>4. Cardinality(Line(n)) \in Nat /\ Cardinality(Line(n)) >= 1
  BY <1>3, LineFinite DEF Chain
<1>5. Cardinality(Line(c)) \in Nat /\ MaxHops \in Nat
  BY <1>1, LineFinite, ConstantsAssumption DEF Chain
<1>6. row[n].family = row[c].family
  BY <1>1 DEF IInv, RowsOK, SameSession
<1>7. Stored(n)
  BY <1>1, <1>2 DEF Chain, Heirs, Outlives
<1> QED
  BY <1>1, <1>2, <1>3, <1>4, <1>5, <1>6, <1>7

LEMMA ArriveChain ==
  ASSUME IInv, IInv', PasswordInv, Chain, orderly, PresentsRecent, NEW r \in Requests, Arrive(r)
  PROVE  Chain'
<1>1. Only(r) /\ req[r].pc = "idle"
  BY Lone
<1>2. UNCHANGED <<row, now>>
  BY DEF Arrive, LoginCheck, ChangeCheck, RefreshRead, LogoutRead
<1>3. req \in [Requests -> Request]
  BY DEF IInv, TypeOK
<1>4. ASSUME ~At(r, "link")', ~At(r, "won")', Holds(r)' PROVE Chain'
  BY <1>1, <1>2, <1>4, QuietChain DEF At
<1>5. ASSUME NEW t \in Tokens PROVE Line(t)' = Line(t)
  BY <1>2, LineKept
<1>6. CASE LoginCheck(r)
  <2>1. req'[r].pc = "login"
    BY <1>3, <1>6 DEF LoginCheck, Set, Blank
  <2> QED
    BY <1>4, <2>1 DEF At, Holds, Loop
<1>7. CASE ChangeCheck(r)
  <2>1. req'[r].pc = "write"
    BY <1>3, <1>7 DEF ChangeCheck, Set, Blank
  <2> QED
    BY <1>4, <2>1 DEF At, Holds, Loop
<1>8. ASSUME NEW t \in Tokens, RefreshRead(r, t) PROVE Chain'
  <2>1. CASE Set(r, [Blank EXCEPT !.pc = "refused", !.tok = t])
    <3>1. req'[r].pc = "refused"
      BY <1>3, <2>1 DEF Set, Blank
    <3> QED
      BY <1>4, <3>1 DEF At, Holds, Loop
  <2>2. CASE /\ Stored(t) /\ row[t].revoked
             /\ Set(r, [Blank EXCEPT !.pc = "wait", !.tok = t, !.cur = t, !.why = row[t].reason])
    <3>1. /\ req'[r].pc = "wait" /\ req'[r].tok = t /\ req'[r].cur = t /\ req'[r].hop = 0
      BY <1>3, <2>2 DEF Set, Blank
    <3>2. Cardinality(Line(t)) <= MaxHops
      BY <1>8 DEF PresentsRecent
    <3>3. Cardinality(Line(t)) \in Nat
      BY <2>2, LineFinite DEF Chain, Stored, Used
    <3>4. 0 + Cardinality(Line(t)) <= MaxHops
      BY <3>2, <3>3
    <3>5. row[t].revokedAt \in Nat
      BY DEF IInv, TypeOK, Row
    <3>6. Stored(t)' /\ row'[t] = row[t]
      BY <1>2, <2>2 DEF Stored
    <3>7. Holds(r)'
      BY <1>5, <2>2, <3>1, <3>4, <3>5, <3>6 DEF Holds, Loop
    <3> QED
      BY <1>4, <3>1, <3>7 DEF At
  <2>3. CASE Live(t) /\ Set(r, [Blank EXCEPT !.pc = "claim", !.tok = t])
    <3>1. req'[r].pc = "claim" /\ req'[r].tok = t
      BY <1>3, <2>3 DEF Set, Blank
    <3>2. Live(t)'
      BY <1>2, <2>3 DEF Live, Stored
    <3> QED
      BY <1>4, <3>1, <3>2 DEF At, Holds, Loop
  <2> QED
    BY <1>8, <2>1, <2>2, <2>3 DEF RefreshRead
<1>9. ASSUME NEW t \in Tokens, LogoutRead(r, t) PROVE Chain'
  <2>1. PICK pc \in {"walk", "loggedOut"} :
          /\ Set(r, [Blank EXCEPT !.pc = pc, !.tok = t, !.cur = t])
          /\ pc = "walk" => Stored(t)
    BY <1>9 DEF LogoutRead
  <2>2. req'[r].pc = pc /\ req'[r].tok = t /\ req'[r].cur = t /\ req'[r].hop = 0
    BY <1>3, <2>1 DEF Set, Blank
  <2>3. CASE pc = "loggedOut"
    BY <1>4, <2>2, <2>3 DEF At, Holds, Loop
  <2>4. CASE pc = "walk"
    <3>1. Cardinality(Line(t)) <= MaxHops
      BY <1>9 DEF PresentsRecent
    <3>2. Cardinality(Line(t)) \in Nat
      BY <2>1, <2>4, LineFinite DEF Chain, Stored, Used
    <3>3. 0 + Cardinality(Line(t)) <= MaxHops
      BY <3>1, <3>2
    <3>4. Stored(t)'
      BY <1>2, <2>1, <2>4 DEF Stored
    <3> QED
      BY <1>4, <1>5, <2>2, <2>4, <3>3, <3>4 DEF At, Holds, Loop
  <2> QED
    BY <2>1, <2>3, <2>4
<1> QED
  BY <1>6, <1>7, <1>8, <1>9 DEF Arrive

\* A request that is over has nothing to keep.
LEMMA EndHolds ==
  ASSUME IInv, NEW r \in Requests, NEW pc \in Final, NEW t, End(r, pc, t)
  PROVE  /\ req'[r].pc = pc /\ req'[r].tok = req[r].tok
         /\ Holds(r)' /\ ~At(r, "link")' /\ ~At(r, "won")'
<1>1. req'[r].pc = pc /\ req'[r].tok = req[r].tok
  BY DEF IInv, TypeOK, End, Set, Blank
<1> QED
  BY <1>1 DEF Final, Holds, Loop, At

\* Whoever gives up and takes the replay for theft is right, or does no harm.
LEMMA GiveUpChain ==
  ASSUME IInv, IInv', Chain, NEW r \in Requests, Only(r), UNCHANGED <<row, now>>,
         req[r].pc \in {"wait", "next"}, GiveUp(r),
         Over(row[req[r].tok].family) \/ now > row[req[r].tok].revokedAt + Grace
           \/ ~(Grace < TTL)
  PROVE  Chain'
<1>1. ASSUME Holds(r)', ~At(r, "link")', ~At(r, "won")' PROVE Chain'
  BY <1>1, QuietChain DEF At
<1>2. CASE Set(r, [req[r] EXCEPT !.pc = "cascade"])
  <2>1. req'[r].pc = "cascade" /\ req'[r].tok = req[r].tok
    BY <1>2, HeldTokens DEF IInv, TypeOK, Set, Request
  <2>2. Over(row[req[r].tok].family) => Over(row[req[r].tok].family)'
    BY <2>1, OverQuiet DEF At
  <2> QED
    BY <1>1, <2>1, <2>2 DEF At, Holds, Loop
<1>3. CASE End(r, "refused", NoToken)
  BY <1>1, <1>3, EndHolds DEF Final
<1> QED
  BY <1>2, <1>3 DEF GiveUp

LEMMA WaitChain ==
  ASSUME IInv, IInv', Chain, NEW r \in Requests, Only(r), WaitForReplacement(r)
  PROVE  Chain'
<1>0. PICK c \in Tokens, t \in Tokens : c = req[r].cur /\ t = req[r].tok
  BY HeldTokens DEF WaitForReplacement, At, Loop
<1> USE <1>0
<1>1. /\ req[r].pc = "wait" /\ UNCHANGED <<row, now>>
      /\ req \in [Requests -> Request] /\ req[r] \in Request
  BY HeldTokens DEF WaitForReplacement, At, IInv, TypeOK
<1>2. /\ Stored(c) /\ row[c].revoked
      /\ req[r].hop + Cardinality(Line(c)) <= MaxHops
      /\ Over(row[t].family) \/ row[t].revokedAt <= row[c].revokedAt
  BY <1>1 DEF Chain, Holds, Loop
<1>3. c \in Tokens /\ Used(c) /\ t \in Tokens /\ Used(t) /\ row[c].family = row[t].family
  BY <1>1, HeldTokens DEF Loop
<1>4. Line(c)' = Line(c)
  BY <1>1, <1>3, LineKept
<1>5. ASSUME ~At(r, "link")', ~At(r, "won")', Holds(r)' PROVE Chain'
  BY <1>1, <1>5, QuietChain DEF At
<1>6. ~At(r, "won")' /\ Over(row[t].family) => Over(row[t].family)'
  BY <1>1, OverQuiet
<1>7. CASE Set(r, [req[r] EXCEPT !.polls = @ + 1])
  <2>1. /\ req'[r].pc = "wait" /\ req'[r].cur = c /\ req'[r].tok = t
        /\ req'[r].hop = req[r].hop
    BY <1>1, <1>7 DEF Set, Request
  <2> QED
    BY <1>1, <1>2, <1>4, <1>5, <1>6, <2>1 DEF At, Holds, Loop, Stored
<1>8. CASE Set(r, [req[r] EXCEPT !.pc = "next", !.nxt = row[c].next])
  <2>1. /\ req'[r].pc = "next" /\ req'[r].cur = c /\ req'[r].tok = t
        /\ req'[r].hop = req[r].hop /\ req'[r].nxt = row[c].next
    BY <1>1, <1>8 DEF Set, Request
  <2> QED
    BY <1>1, <1>2, <1>4, <1>5, <1>6, <2>1 DEF At, Holds, Loop, Stored
<1>9. CASE GiveUp(r) /\ \/ ~Stored(c)
                        \/ row[c].next = NoToken
                        \/ now > row[c].revokedAt + Grace
  <2>1. CASE row[c].next = NoToken
    <3>1. ASSUME NEW u \in Tokens, Live(u) PROVE row[u].family # row[c].family
      <4>1. row[u].family = row[c].family => u = c
        BY <1>1, <1>3, <2>1, <3>1, OnlyLast DEF At
      <4> QED
        BY <1>2, <3>1, <4>1 DEF Live
    <3>2. \A q \in Requests : ~At(q, "won")
      BY <1>1, Bystanders DEF At
    <3>3. Over(row[t].family)
      BY <1>3, <3>1, <3>2 DEF Over
    <3> QED
      BY <1>1, <1>9, <3>3, GiveUpChain
  <2>2. CASE now > row[c].revokedAt + Grace
    <3>1. row[c].revokedAt \in Nat /\ row[t].revokedAt \in Nat /\ now \in Nat /\ Grace \in Nat
      BY <1>3, ConstantsAssumption DEF IInv, TypeOK, Row
    <3>2. Over(row[t].family) \/ now > row[t].revokedAt + Grace
      BY <1>2, <2>2, <3>1
    <3> QED
      BY <1>1, <1>9, <3>2, GiveUpChain
  <2> QED
    BY <1>2, <1>9, <2>1, <2>2
<1> QED
  BY <1>7, <1>8, <1>9 DEF WaitForReplacement

LEMMA FollowChain ==
  ASSUME IInv, IInv', Chain, NEW r \in Requests, Only(r), FollowReplacement(r)
  PROVE  Chain'
<1>0. PICK c \in Tokens, t \in Tokens, n \in Tokens :
        c = req[r].cur /\ t = req[r].tok /\ n = req[r].nxt
  BY HeldTokens DEF FollowReplacement, At, Loop
<1> USE <1>0
<1>1. /\ req[r].pc = "next" /\ UNCHANGED <<row, now>>
      /\ req \in [Requests -> Request] /\ req[r] \in Request
  BY HeldTokens DEF FollowReplacement, At, IInv, TypeOK
<1>2. /\ Stored(c) /\ row[c].revoked /\ n = row[c].next
      /\ Over(row[t].family) \/ row[t].revokedAt <= row[c].revokedAt
  BY <1>1 DEF Chain, Holds, Loop
<1>3. /\ c \in Tokens /\ Used(c) /\ t \in Tokens /\ Used(t)
      /\ row[c].family = row[t].family /\ n \in Tokens
  BY <1>1, HeldTokens DEF Loop
<1>4. row[c].next # NoToken
  BY <1>2, <1>3, ConstantsAssumption
<1>5. /\ Stored(n) /\ req[r].hop \in Nat /\ req[r].hop + 1 < MaxHops
      /\ req[r].hop + 1 + Cardinality(Line(n)) <= MaxHops
  BY <1>1, <1>2, <1>4, HopsSuffice DEF Loop
<1>6. Over(row[t].family) \/ Prompt(c, n)
  <2>1. Succeeded(c)
    BY <1>3, <1>4 DEF Chain, Heirs
  <2>2. ~Walking(row[c].family)
    BY <1>1, Bystanders DEF Walking
  <2> QED
    BY <1>2, <1>3, <2>1, <2>2 DEF Succeeded
<1>7. ASSUME ~At(r, "link")', ~At(r, "won")', Holds(r)' PROVE Chain'
  BY <1>1, <1>7, QuietChain DEF At
<1>8. /\ row[c].revokedAt \in Nat /\ row[t].revokedAt \in Nat /\ row[n].revokedAt \in Nat
      /\ row[n].expires \in Nat /\ now \in Nat /\ Grace \in Nat /\ TTL \in Nat
  BY <1>3, ConstantsAssumption DEF IInv, TypeOK, Row
<1>9. CASE Answer(r, n)
  BY <1>7, <1>9, EndHolds DEF Answer, Final
<1>10. CASE /\ ~Live(n)
            /\ Set(r, [req[r] EXCEPT !.pc = "wait", !.cur = n, !.nxt = NoToken,
                                     !.polls = 0, !.hop = @ + 1])
  <2>1. /\ req'[r].pc = "wait" /\ req'[r].cur = n /\ req'[r].tok = t
        /\ req'[r].hop = req[r].hop + 1
    BY <1>1, <1>10 DEF Set, Request
  <2>2. row[n].revoked
    BY <1>5, <1>10 DEF Live
  <2>3. Over(row[t].family) \/ row[t].revokedAt <= row[n].revokedAt
    BY <1>2, <1>6, <1>8, <2>2 DEF Prompt
  <2>4. Over(row[t].family) => Over(row[t].family)'
    BY <1>1, <2>1, OverQuiet DEF At
  <2>5. Line(n)' = Line(n) /\ Stored(n)'
    BY <1>1, <1>3, <1>5, LineKept DEF Stored
  <2> QED
    BY <1>1, <1>5, <1>7, <2>1, <2>2, <2>3, <2>4, <2>5 DEF At, Holds, Loop
<1>11. CASE GiveUp(r) /\ Expired(n)
  <2>1. Over(row[t].family) \/ now > row[t].revokedAt + Grace \/ ~(Grace < TTL)
    BY <1>2, <1>6, <1>8, <1>11 DEF Prompt, Expired
  <2> QED
    BY <1>1, <1>11, <2>1, GiveUpChain
<1> QED
  BY <1>5, <1>9, <1>10, <1>11 DEF FollowReplacement

LEMMA WalkChainChain ==
  ASSUME IInv, IInv', Chain, NEW r \in Requests, Only(r), WalkChain(r)
  PROVE  Chain' /\ ~At(r, "loggedOut")'
<1>0. PICK c \in Tokens : c = req[r].cur
  BY HeldTokens DEF WalkChain, At, Loop
<1> USE <1>0
<1>1. /\ req[r].pc = "walk" /\ UNCHANGED <<row, now>>
      /\ req \in [Requests -> Request] /\ req[r] \in Request
  BY HeldTokens DEF WalkChain, At, IInv, TypeOK
<1>2. Stored(c) /\ req[r].hop + Cardinality(Line(c)) <= MaxHops /\ c \in Tokens
  BY <1>1, HeldTokens DEF Chain, Holds, Loop
<1>3. Set(r, [req[r] EXCEPT !.pc = "mark", !.nxt = row[c].next])
  BY <1>2 DEF WalkChain
<1>4. /\ req'[r].pc = "mark" /\ req'[r].cur = c /\ req'[r].tok = req[r].tok
      /\ req'[r].hop = req[r].hop /\ req'[r].nxt = row[c].next
  BY <1>1, <1>3 DEF Set, Request
<1>5. Line(c)' = Line(c) /\ Stored(c)'
  BY <1>1, <1>2, LineKept DEF Stored
<1>6. Holds(r)'
  BY <1>1, <1>2, <1>4, <1>5 DEF Holds, Loop
<1> QED
  BY <1>1, <1>4, <1>6, QuietChain DEF At

\* Revoking tokens only writes dates.
LEMMA RevokeChain ==
  ASSUME IInv, IInv', Chain, NEW r \in Requests, Only(r),
         NEW S \in SUBSET Tokens, NEW why \in Reasons, Revoke(S, why), now' = now,
         ~At(r, "link"), ~At(r, "link")', Holds(r)',
         \A t \in Tokens : row[t].next # NoToken => Succeeded(t)'
  PROVE  Chain'
<1>1. TypeOK /\ now \in Nat
  BY DEF IInv, TypeOK
<1>2. Kept
  BY <1>1, RevokeDates DEF Kept
<1>3. \A t \in Tokens : Used(t) => row'[t].revokedAt <= now
  BY <1>1, RevokeDates DEF Chain, Dated
<1> QED
  BY <1>2, <1>3, ShapeStep

\* Where nothing is usable and nobody rotates, every session is over.
LEMMA BulkChain ==
  ASSUME IInv, IInv', Chain, NEW r \in Requests, Only(r), Cascade(r) \/ ChangeRevoke(r)
  PROVE  Chain' /\ ~At(r, "loggedOut")'
<1>1. PICK S \in SUBSET Tokens, why \in Reasons, pc \in {"refused", "changed"} :
        /\ S = {t \in Tokens : Live(t)} \/ S = {t \in Tokens : Stored(t)}
        /\ Revoke(S, why) /\ End(r, pc, NoToken) /\ now' = now /\ ~At(r, "link")
  <2>1. {t \in Tokens : Live(t)} \in SUBSET Tokens /\ {t \in Tokens : Stored(t)} \in SUBSET Tokens
    OBVIOUS
  <2>2. {"reuse_detected", "password_change"} \subseteq Reasons
    BY DEF Reasons
  <2> QED
    BY <2>1, <2>2 DEF Cascade, ChangeRevoke, At
<1>2. \A t \in Tokens : ~Live(t)'
  <2>1. TypeOK /\ \A t \in Tokens : Live(t) => t \in S
    BY <1>1 DEF IInv, Live
  <2> QED
    BY <1>1, <2>1, RevokeDates DEF Live, Stored
<1>3. Holds(r)' /\ ~At(r, "link")' /\ ~At(r, "won")' /\ req'[r].pc = pc
  BY <1>1, EndHolds DEF Final
<1>4. \A q \in Requests : ~At(q, "won")'
  BY <1>3, Bystanders
<1>5. \A t \in Tokens : Succeeded(t)'
  BY <1>2, <1>4 DEF Succeeded, Over
<1> QED
  BY <1>1, <1>3, <1>5, RevokeChain DEF At

\* Walking is the matter of the request in progress.
LEMMA StaysOver ==
  ASSUME IInv, NEW r \in Requests, Serve(r), NEW t \in Tokens, Used(t),
         Over(row[t].family)
  PROVE  Over(row[t].family)' /\ row'[t].family = row[t].family
<1>1. PICK f \in Tokens : f = row[t].family /\ Used(f)
  BY DEF IInv, RowsOK
<1>2. [Next]_vars
  BY DEF Next
<1>3. row'[t].family = f
  BY <1>1, RowOrigin
<1>4. Over(f)'
  BY <1>1, <1>2, OverStable
<1> QED
  BY <1>1, <1>3, <1>4

LEMMA ClaimChain ==
  ASSUME IInv, IInv', Chain, NEW r \in Requests, Only(r), Serve(r), Claim(r)
  PROVE  Chain' /\ ~At(r, "loggedOut")'
<1>0. PICK k \in Tokens : k = req[r].tok
  BY HeldTokens DEF Claim, At
<1> USE <1>0
<1>1. /\ req[r].pc = "claim" /\ now' = now /\ req \in [Requests -> Request]
      /\ TypeOK /\ req[r] \in Request
  BY HeldTokens DEF Claim, At, IInv, TypeOK
<1>2. Live(k)
  BY <1>1 DEF Chain, Holds
<1>3. Revoke({k}, "rotated") /\ Set(r, [req[r] EXCEPT !.pc = "won"])
  BY <1>2 DEF Claim
<1>4. req'[r].pc = "won" /\ req'[r].tok = k
  BY <1>1, <1>3 DEF Set, Request
<1>5. {k} \in SUBSET Tokens /\ "rotated" \in Reasons
  BY DEF Reasons
<1>6. Holds(r)'
  <2>1. Stored(k)'
    BY <1>1, <1>2, <1>3, <1>5, RevokeDates DEF Live, Stored
  <2> QED
    BY <1>4, <2>1 DEF Holds, Loop
<1>7. ASSUME NEW t \in Tokens, row[t].next # NoToken PROVE Succeeded(t)'
  <2>1. PICK n \in Tokens : n = row[t].next /\ Used(n) /\ row[t].revoked /\ Used(t)
    <3>1. row[t].next \in Tokens /\ Used(row[t].next) /\ row[t].revoked
      BY <1>1, <1>7 DEF IInv, RowsOK, TypeOK, Row, TokenOrNone
    <3>2. Used(t)
      BY <1>7 DEF IInv, RowsOK, Unused
    <3> QED
      BY <3>1, <3>2
  <2>2. ~Walking(row[t].family)
    BY <1>1, Bystanders DEF Walking
  <2>3. CASE Over(row[t].family)
    BY <2>1, <2>3, StaysOver DEF Succeeded
  <2>4. CASE Prompt(t, n)
    <3>1. t # k /\ row'[t] = row[t]
      BY <1>1, <1>2, <1>3, <1>5, <2>1, RevokeDates DEF Live
    <3>2. row'[n].expires = row[n].expires
      BY <1>1, <1>3, <1>5, RevokeDates
    <3>3. row'[n] = row[n] \/ row'[n].revokedAt = now
      BY <1>1, <1>3, <1>5, RevokeDates
    <3>4. row[t].revokedAt <= now
      BY <2>1 DEF Chain, Dated
    <3>5. Prompt(t, n)'
      BY <2>4, <3>1, <3>2, <3>3, <3>4 DEF Prompt
    <3> QED
      BY <2>1, <3>1, <3>5 DEF Succeeded
  <2> QED
    BY <1>7, <2>1, <2>2, <2>3, <2>4 DEF Chain, Heirs, Succeeded
<1> QED
  BY <1>1, <1>3, <1>4, <1>5, <1>6, <1>7, RevokeChain DEF At

\* Each link of the chain is revoked on the way, and at its end the session is over.
LEMMA MarkChain ==
  ASSUME IInv, IInv', Chain, NEW r \in Requests, Only(r), Serve(r), MarkLink(r)
  PROVE  /\ Chain'
         /\ req'[r].tok = req[r].tok /\ req[r].tok \in Tokens /\ Used(req[r].tok)
         /\ At(r, "loggedOut")' => Over(row[req[r].tok].family)'
<1>0. PICK c \in Tokens, k \in Tokens : c = req[r].cur /\ k = req[r].tok
  BY HeldTokens DEF MarkLink, At, Loop
<1> USE <1>0
<1>1. /\ req[r].pc = "mark" /\ now' = now /\ req \in [Requests -> Request]
      /\ TypeOK /\ req[r] \in Request
  BY HeldTokens DEF MarkLink, At, IInv, TypeOK
<1>2. Stored(c) /\ req[r].nxt = row[c].next
  BY <1>1 DEF Chain, Holds, Loop
<1>3. Used(c) /\ Used(k) /\ row[c].family = row[k].family
  BY <1>1, HeldTokens DEF Loop
<1>4. Revoke({c}, "logout") /\ {c} \in SUBSET Tokens /\ "logout" \in Reasons
  BY <1>2 DEF MarkLink, Reasons
<1>5. /\ \A t \in Tokens : row'[t].family = row[t].family /\ row'[t].next = row[t].next
                           /\ row'[t].state = row[t].state
      /\ row'[c].revoked
      /\ \A t \in Tokens \ {c} : row'[t] = row[t]
  BY <1>1, <1>4, RevokeDates
<1>6. ASSUME NEW t \in Tokens, row[t].next # NoToken, row[t].family # row[k].family
      PROVE  Succeeded(t)'
  <2>1. /\ Used(t) /\ row[t].next \in Tokens
        /\ row[row[t].next].family = row[t].family
    BY <1>1, <1>6 DEF IInv, RowsOK, SameSession, TypeOK, Row, TokenOrNone, Unused
  <2>2. ~Walking(row[t].family)
    BY <1>6, Bystanders DEF Walking
  <2>3. CASE Over(row[t].family)
    BY <2>1, <2>3, StaysOver DEF Succeeded
  <2>4. CASE Prompt(t, row[t].next)
    <3>1. row'[t] = row[t] /\ row'[row[t].next] = row[row[t].next]
      BY <1>3, <1>5, <1>6, <2>1
    <3>2. Prompt(t, row[t].next)'
      BY <2>4, <3>1 DEF Prompt
    <3> QED
      BY <3>2 DEF Succeeded
  <2> QED
    BY <1>6, <2>2, <2>3, <2>4 DEF Chain, Heirs, Succeeded
<1>7. CASE row[c].next = NoToken
  <2>1. End(r, "loggedOut", NoToken)
    BY <1>2, <1>7 DEF MarkLink
  <2>2. Holds(r)' /\ ~At(r, "link")' /\ ~At(r, "won")' /\ req'[r].tok = k
    BY <2>1, EndHolds DEF Final
  <2>3. Over(row[k].family)'
    <3>1. ASSUME NEW u \in Tokens, Live(u)' PROVE row'[u].family # row'[k].family
      <4>1. Live(u) /\ u # c
        BY <1>5, <3>1 DEF Live, Stored
      <4>2. row[u].family # row[c].family
        BY <1>1, <1>3, <1>7, <4>1, OnlyLast DEF At
      <4> QED
        BY <1>3, <1>5, <4>2
    <3>2. \A q \in Requests : ~At(q, "won")'
      BY <2>2, Bystanders
    <3> QED
      BY <3>1, <3>2 DEF Over
  <2>4. ASSUME NEW t \in Tokens, row[t].next # NoToken PROVE Succeeded(t)'
    <3>1. CASE row[t].family = row[k].family
      BY <1>5, <2>3, <3>1 DEF Succeeded
    <3>2. CASE row[t].family # row[k].family
      BY <1>6, <2>4, <3>2
    <3> QED
      BY <3>1, <3>2
  <2>5. Chain'
    BY <1>1, <1>4, <2>2, <2>4, RevokeChain DEF At
  <2> QED
    BY <1>3, <2>2, <2>3, <2>5
<1>8. CASE row[c].next # NoToken
  <2>1. PICK n \in Tokens :
          /\ n = row[c].next /\ Stored(n) /\ req[r].hop \in Nat /\ req[r].hop + 1 < MaxHops
          /\ req[r].hop + 1 + Cardinality(Line(n)) <= MaxHops
    BY <1>1, <1>8, HopsSuffice DEF Loop
  <2>2. Set(r, [req[r] EXCEPT !.pc = "walk", !.cur = n, !.nxt = NoToken, !.hop = @ + 1])
    BY <1>2, <1>8, <2>1 DEF MarkLink
  <2>3. /\ req'[r].pc = "walk" /\ req'[r].cur = n /\ req'[r].tok = k
        /\ req'[r].hop = req[r].hop + 1
    BY <1>1, <2>2 DEF Set, Request
  <2>4. Stored(n)' /\ Line(n)' = Line(n)
    BY <1>5, <2>1, LineKept DEF Stored
  <2>5. Holds(r)'
    BY <2>1, <2>3, <2>4 DEF Holds, Loop
  <2>6. ASSUME NEW t \in Tokens, row[t].next # NoToken PROVE Succeeded(t)'
    <3>1. CASE row[t].family = row[k].family
      <4>1. Walking(row[t].family)'
        BY <1>5, <2>3, <3>1 DEF Walking
      <4> QED
        BY <4>1 DEF Succeeded
    <3>2. CASE row[t].family # row[k].family
      BY <1>6, <2>6, <3>2
    <3> QED
      BY <3>1, <3>2
  <2>7. Chain'
    BY <1>1, <1>4, <2>3, <2>5, <2>6, RevokeChain DEF At
  <2> QED
    BY <1>3, <2>3, <2>7 DEF At
<1> QED
  BY <1>7, <1>8

-----------------------------------------------------------------------------
(* Steps that store a row or link two. *)

\* A new row leaves those that are there as they are.
LEMMA StoreRest ==
  ASSUME IInv, IInv', Chain, NEW r \in Requests, Only(r), Serve(r), now' = now,
         req[r].pc \notin {"walk", "mark"},
         NEW n \in Tokens, NEW family, NEW cred, Store(n, family, cred)
  PROVE  Dated' /\ Heirs' /\ FinitelyUsed'
<1>1. TypeOK /\ now \in Nat /\ TTL \in Nat
  BY ConstantsAssumption DEF IInv, TypeOK
<1>2. /\ ~Used(n) /\ \A t \in Tokens \ {n} : row'[t] = row[t]
      /\ row'[n].next = NoToken /\ row'[n].state = "stored"
      /\ row'[n].expires = now + TTL /\ row'[n].revokedAt = 0
  BY <1>1, StoreDates
<1>3. \A t \in Tokens : Used(t)' <=> Used(t) \/ t = n
  BY <1>2 DEF Used
<1>4. Dated'
  BY <1>1, <1>2, <1>3 DEF Chain, Dated
<1>5. FinitelyUsed'
  <2>1. {t \in Tokens : Used(t)'} = {t \in Tokens : Used(t)} \cup {n}
    BY <1>3
  <2>2. IsFiniteSet({t \in Tokens : Used(t)} \cup {n})
    BY FS_AddElement DEF Chain, FinitelyUsed
  <2> QED
    BY <2>1, <2>2 DEF FinitelyUsed
<1>6. Heirs'
  <2> SUFFICES ASSUME NEW t \in Tokens, row'[t].next # NoToken
               PROVE  Outlives(row[t].next, t)' /\ Succeeded(t)'
    BY DEF Heirs
  <2>1. t # n /\ row'[t] = row[t] /\ row[t].next # NoToken
    BY <1>2
  <2>2. PICK m \in Tokens : m = row[t].next /\ Used(m) /\ Used(t)
    BY <1>1, <2>1 DEF IInv, RowsOK, Unused, TypeOK, Row, TokenOrNone
  <2>3. row'[m] = row[m]
    BY <1>2, <2>2
  <2>4. Outlives(m, t) /\ Succeeded(t)
    BY <2>1, <2>2 DEF Chain, Heirs
  <2>5. Outlives(m, t)'
    BY <2>1, <2>3, <2>4 DEF Outlives, Stored
  <2>6. ~Walking(row[t].family)
    BY Bystanders DEF Walking
  <2>7. CASE Over(row[t].family)
    BY <2>1, <2>2, <2>5, <2>7, StaysOver DEF Succeeded
  <2>8. CASE Prompt(t, m)
    <3>1. Prompt(t, m)'
      BY <2>1, <2>3, <2>8 DEF Prompt
    <3> QED
      BY <2>1, <2>2, <2>5, <3>1 DEF Succeeded
  <2> QED
    BY <2>2, <2>4, <2>6, <2>7, <2>8 DEF Succeeded
<1> QED
  BY <1>4, <1>5, <1>6

LEMMA LoginStoreChain ==
  ASSUME IInv, IInv', Chain, NEW r \in Requests, Only(r), Serve(r), LoginStore(r)
  PROVE  Chain' /\ ~At(r, "loggedOut")'
<1>1. PICK n \in Tokens : Store(n, n, req[r].cred) /\ Answer(r, n)
  BY DEF LoginStore
<1>2. /\ TypeOK /\ At(r, "login") /\ now' = now
  BY DEF IInv, LoginStore
<1>3. Dated' /\ Heirs' /\ FinitelyUsed'
  BY <1>1, <1>2, StoreRest DEF At
<1>4. PICK pc \in {"done", "lost"} : End(r, pc, n)
  BY <1>1 DEF Answer
<1>5. Holds(r)' /\ ~At(r, "link")' /\ req'[r].pc = pc
  BY <1>4, EndHolds DEF Final
<1>6. \A q \in Requests : Holds(q)' /\ ~At(q, "link") /\ ~At(q, "link")'
  BY <1>2, <1>5, Bystanders DEF At
<1>7. /\ ~Used(n) /\ \A t \in Tokens \ {n} : row'[t] = row[t]
      /\ row'[n].next = NoToken /\ row'[n].family = n
  BY <1>1, <1>2, StoreDates
<1>8. OneEnd'
  <2> SUFFICES ASSUME NEW s \in Tokens, NEW t \in Tokens, Used(s)', Used(t)',
                      SameSession(s, t)', row'[s].next = NoToken, row'[t].next = NoToken
               PROVE  s = t
    BY DEF OneEnd
  <2>1. ASSUME NEW u \in Tokens \ {n}, Used(u)' PROVE Used(u) /\ row'[u].family # n
    <3>1. row'[u] = row[u] /\ Used(u)
      BY <1>7, <2>1 DEF Used
    <3> QED
      BY <1>7, <3>1 DEF IInv, RowsOK
  <2>2. CASE s = n \/ t = n
    BY <1>7, <2>1, <2>2 DEF SameSession
  <2>3. CASE s # n /\ t # n
    BY <1>6, <1>7, <2>1, <2>3 DEF SameSession, Chain, OneEnd
  <2> QED
    BY <2>2, <2>3
<1>9. Ascending'
  <2>1. PICK rank \in [Tokens -> Nat] :
          \A t \in Tokens : row[t].next # NoToken => rank[t] < rank[row[t].next]
    BY DEF Chain, Ascending
  <2>2. \A t \in Tokens : row'[t].next # NoToken => rank[t] < rank[row'[t].next]
    BY <1>7, <2>1
  <2> QED
    BY <1>6, <2>2 DEF Ascending
<1> QED
  BY <1>3, <1>5, <1>6, <1>8, <1>9 DEF Chain, At

LEMMA StoreReplacementChain ==
  ASSUME IInv, IInv', Chain, NEW r \in Requests, Only(r), Serve(r), StoreReplacement(r)
  PROVE  Chain' /\ ~At(r, "loggedOut")'
<1>0. PICK k \in Tokens : k = req[r].tok
  BY HeldTokens DEF StoreReplacement, At
<1> USE <1>0
<1>1. PICK n \in Tokens : /\ Store(n, row[k].family, row[k].cred)
                          /\ Set(r, [req[r] EXCEPT !.pc = "link", !.nxt = n])
  BY DEF StoreReplacement
<1>2. /\ TypeOK /\ req[r].pc = "won" /\ now' = now /\ req \in [Requests -> Request]
      /\ req[r] \in Request /\ now \in Nat /\ TTL \in Nat
  BY HeldTokens, ConstantsAssumption DEF IInv, TypeOK, StoreReplacement, At
<1>3. Dated' /\ Heirs' /\ FinitelyUsed'
  BY <1>1, <1>2, StoreRest
<1>4. req'[r].pc = "link" /\ req'[r].tok = k /\ req'[r].nxt = n
  BY <1>1, <1>2 DEF Set, Request
<1>5. /\ ~Used(n) /\ \A t \in Tokens \ {n} : row'[t] = row[t]
      /\ row'[n].next = NoToken /\ row'[n].family = row[k].family
      /\ row'[n].state = "stored" /\ ~row'[n].revoked
      /\ row'[n].expires = now + TTL
  BY <1>1, <1>2, StoreDates
<1>6. /\ Used(k) /\ Stored(k) /\ row[k].next = NoToken /\ k # n /\ row'[k] = row[k]
      /\ row[k].expires <= now + TTL /\ row[k].revokedAt <= now
      /\ row[k].revokedAt \in Nat /\ row[k].expires \in Nat
  <2>1. Used(k) /\ row[k].next = NoToken
    BY <1>2, HeldTokens DEF IInv, RotationsOK, Rotating
  <2>2. Stored(k) /\ row[k].expires <= now + TTL /\ row[k].revokedAt <= now
    BY <1>2, <2>1 DEF Chain, Holds, Dated
  <2> QED
    BY <1>2, <1>5, <2>1, <2>2 DEF TypeOK, Row
<1>7. Holds(r)'
  <2>1. Stored(k)' /\ Live(n)'
    BY <1>5, <1>6 DEF Stored, Live
  <2>2. Outlives(n, k)' /\ Prompt(k, n)'
    BY <1>2, <1>5, <1>6, <2>1 DEF Outlives, Prompt, Stored
  <2> QED
    BY <1>4, <2>1, <2>2 DEF Holds, Loop
<1>8. \A q \in Requests : Holds(q)'
  BY <1>7, Bystanders
<1>9. \A q \in Requests : ~At(q, "link")
  BY <1>2, Bystanders DEF At
<1>10. OneEnd'
  <2> SUFFICES ASSUME NEW s \in Tokens, NEW t \in Tokens, Used(s)', Used(t)', s # t,
                      SameSession(s, t)', row'[s].next = NoToken, row'[t].next = NoToken
               PROVE  {s, t} = {k, n}
    BY <1>4 DEF OneEnd, At
  <2>1. ASSUME NEW u \in Tokens \ {n}, Used(u)', row'[u].next = NoToken,
               row'[u].family = row[k].family
        PROVE  u = k
    <3>1. Used(u) /\ row[u].next = NoToken /\ row[u].family = row[k].family
      BY <1>5, <2>1 DEF Used
    <3> QED
      BY <1>6, <1>9, <3>1 DEF Chain, OneEnd, SameSession
  <2>2. CASE s = n
    BY <1>5, <2>1, <2>2 DEF SameSession
  <2>3. CASE t = n
    BY <1>5, <2>1, <2>3 DEF SameSession
  <2>4. CASE s # n /\ t # n
    <3>1. Used(s) /\ Used(t) /\ row'[s] = row[s] /\ row'[t] = row[t]
      BY <1>5, <2>4 DEF Used
    <3> QED
      BY <1>9, <3>1 DEF SameSession, Chain, OneEnd
  <2> QED
    BY <2>2, <2>3, <2>4
<1>11. Ascending'
  <2>1. PICK rank \in [Tokens -> Nat] :
          \A t \in Tokens : row[t].next # NoToken => rank[t] < rank[row[t].next]
    BY DEF Chain, Ascending
  <2> DEFINE rank2 == [rank EXCEPT ![n] = rank[k] + 1]
  <2>2. /\ rank2 \in [Tokens -> Nat] /\ rank2[k] < rank2[n]
        /\ \A t \in Tokens \ {n} : rank2[t] = rank[t]
    BY <1>6
  <2>3. ASSUME NEW t \in Tokens, row'[t].next # NoToken
        PROVE  rank2[t] < rank2[row'[t].next]
    <3>1. t # n /\ row'[t] = row[t]
      BY <1>5, <2>3
    <3>2. row[t].next \in Tokens /\ Used(row[t].next)
      BY <1>2, <2>3, <3>1 DEF IInv, RowsOK, TypeOK, Row, TokenOrNone
    <3>3. rank[t] < rank[row[t].next] /\ row[t].next # n
      BY <1>5, <2>1, <2>3, <3>1, <3>2
    <3> HIDE DEF rank2
    <3> QED
      BY <2>2, <3>1, <3>2, <3>3
  <2>4. \A q \in Requests : At(q, "link")' => rank2[req'[q].tok] < rank2[req'[q].nxt]
    <3> HIDE DEF rank2
    <3> QED
      BY <1>4, <2>2, Bystanders
  <2> HIDE DEF rank2
  <2> QED
    BY <2>2, <2>3, <2>4 DEF Ascending
<1> QED
  BY <1>3, <1>4, <1>8, <1>10, <1>11 DEF Chain, At

LEMMA LinkChain ==
  ASSUME IInv, IInv', Chain, NEW r \in Requests, Only(r), Serve(r), Link(r)
  PROVE  Chain' /\ ~At(r, "loggedOut")'
<1>0. PICK k \in Tokens, n \in Tokens : k = req[r].tok /\ n = req[r].nxt
  BY HeldTokens DEF Link, At
<1> USE <1>0
<1>1. TypeOK /\ req[r].pc = "link" /\ now' = now
  BY DEF IInv, Link, At
<1>2. Stored(k) /\ Live(n) /\ Outlives(n, k) /\ Prompt(k, n)
  BY <1>1 DEF Chain, Holds
<1>3. row' = [row EXCEPT ![k].next = n] /\ Answer(r, n)
  BY <1>2 DEF Link
<1>4. PICK pc \in {"done", "lost"} : End(r, pc, n)
  BY <1>3 DEF Answer
<1>5. Holds(r)' /\ ~At(r, "link")' /\ req'[r].pc = pc
  BY <1>4, EndHolds DEF Final
<1>6. \A q \in Requests : Holds(q)' /\ ~At(q, "link")'
  BY <1>5, Bystanders
<1>7. /\ row'[k].next = n
      /\ \A u \in Tokens :
           /\ u # k => row'[u] = row[u]
           /\ row'[u].state = row[u].state /\ row'[u].family = row[u].family
           /\ row'[u].revoked = row[u].revoked /\ row'[u].revokedAt = row[u].revokedAt
           /\ row'[u].expires = row[u].expires
  <2>1. TypeOK /\ row' = [row EXCEPT ![k].next = n]
    BY <1>1, <1>3
  <2> HIDE <1>0
  <2> QED
    BY <2>1, LinkDates
<1>8. \A u \in Tokens : (Used(u)' <=> Used(u)) /\ (Stored(u)' <=> Stored(u))
  BY <1>7 DEF Used, Stored
<1>9. Dated'
  BY <1>1, <1>7, <1>8 DEF Chain, Dated
<1>10. FinitelyUsed'
  <2>1. {t \in Tokens : Used(t)'} = {t \in Tokens : Used(t)}
    BY <1>8
  <2> QED
    BY <2>1 DEF Chain, FinitelyUsed
<1>11. OneEnd'
  <2> SUFFICES ASSUME NEW s \in Tokens, NEW t \in Tokens, Used(s)', Used(t)',
                      SameSession(s, t)', row'[s].next = NoToken, row'[t].next = NoToken
               PROVE  s = t
    BY DEF OneEnd
  <2>1. s # k /\ t # k
    BY <1>7, ConstantsAssumption
  <2>2. /\ Used(s) /\ Used(t) /\ SameSession(s, t)
        /\ row[s].next = NoToken /\ row[t].next = NoToken
    BY <1>7, <1>8, <2>1 DEF SameSession
  <2>3. \A q \in Requests : At(q, "link") => q = r
    BY Bystanders
  <2> QED
    BY <2>1, <2>2, <2>3 DEF Chain, OneEnd
<1>12. Ascending'
  <2>1. PICK rank \in [Tokens -> Nat] :
          /\ \A t \in Tokens : row[t].next # NoToken => rank[t] < rank[row[t].next]
          /\ \A q \in Requests : At(q, "link") => rank[req[q].tok] < rank[req[q].nxt]
    BY DEF Chain, Ascending
  <2>2. rank[k] < rank[n]
    BY <1>1, <2>1 DEF At
  <2>3. \A t \in Tokens : row'[t].next # NoToken => rank[t] < rank[row'[t].next]
    BY <1>7, <2>1, <2>2
  <2> QED
    BY <1>6, <2>3 DEF Ascending
<1>13. Heirs'
  <2> SUFFICES ASSUME NEW t \in Tokens, row'[t].next # NoToken
               PROVE  Outlives(row[t].next, t)' /\ Succeeded(t)'
    BY DEF Heirs
  <2>1. CASE t = k
    <3>1. Outlives(n, k)' /\ Prompt(k, n)'
      BY <1>2, <1>7, <1>8 DEF Outlives, Prompt
    <3> QED
      BY <1>7, <2>1, <3>1 DEF Succeeded
  <2>2. CASE t # k
    <3>1. row'[t] = row[t] /\ row[t].next # NoToken
      BY <1>7, <2>2
    <3>2. PICK m \in Tokens : m = row[t].next /\ Used(t)
      BY <1>1, <3>1 DEF IInv, RowsOK, Unused, TypeOK, Row, TokenOrNone
    <3>3. Outlives(m, t) /\ Succeeded(t)
      BY <3>1, <3>2 DEF Chain, Heirs
    <3>4. Outlives(m, t)'
      BY <1>7, <1>8, <3>3 DEF Outlives
    <3>5. ~Walking(row[t].family)
      BY <1>1, Bystanders DEF Walking
    <3>6. CASE Over(row[t].family)
      BY <3>1, <3>2, <3>4, <3>6, StaysOver DEF Succeeded
    <3>7. CASE Prompt(t, m)
      <4>1. Prompt(t, m)'
        BY <1>7, <3>7 DEF Prompt
      <4> QED
        BY <3>1, <3>2, <3>4, <4>1 DEF Succeeded
    <3> QED
      BY <3>2, <3>3, <3>5, <3>6, <3>7 DEF Succeeded
  <2> QED
    BY <2>1, <2>2
<1> QED
  BY <1>5, <1>6, <1>9, <1>10, <1>11, <1>12, <1>13 DEF Chain, At

-----------------------------------------------------------------------------
(* Time passes, and rows are purged. *)

LEMMA TimeChain ==
  ASSUME IInv, Chain, UNCHANGED <<row, req>>, now' \in Nat, now' >= now
  PROVE  Chain'
<1>1. /\ now \in Nat /\ TTL \in Nat /\ Grace \in Nat
      /\ \A t \in Tokens : row[t].expires \in Nat /\ row[t].revokedAt \in Nat
  BY ConstantsAssumption DEF IInv, TypeOK, Row
<1>2. \A t \in Tokens : Stored(t)' = Stored(t) /\ Live(t)' = Live(t) /\ Used(t)' = Used(t)
  BY DEF Stored, Live, Used
<1>3. \A f : Over(f)' <=> Over(f)
  BY <1>2 DEF Over, At
<1>4. Dated'
  BY <1>1, <1>2 DEF Chain, Dated
<1>5. OneEnd' /\ Ascending' /\ FinitelyUsed'
  BY DEF Chain, OneEnd, Ascending, FinitelyUsed, Used, SameSession, At
<1>6. Heirs'
  BY <1>3 DEF Chain, Heirs, Succeeded, Outlives, Prompt, Walking, Stored
<1>7. ASSUME NEW r \in Requests PROVE Holds(r)'
  <2>1. Holds(r)
    BY DEF Chain
  <2>2. req[r].cur \in Tokens => Line(req[r].cur)' = Line(req[r].cur)
    BY DEF Line
  <2>3. /\ req[r].pc \in Loop => req[r].cur \in Tokens
        /\ req[r].pc = "cascade" => req[r].tok \in Tokens
    BY HeldTokens
  <2>4. req[r].pc = "cascade" =>
          Over(row[req[r].tok].family) \/ now' > row[req[r].tok].revokedAt + Grace
            \/ ~(Grace < TTL)
    BY <1>1, <2>1, <2>3 DEF Holds
  <2> QED
    BY <1>3, <2>1, <2>2, <2>3, <2>4 DEF Holds, Outlives, Prompt, Live, Stored
<1> QED
  BY <1>4, <1>5, <1>6, <1>7 DEF Chain

\* Rows that expired go before those that replaced them.
LEMMA PurgeChain ==
  ASSUME IInv, Chain, PurgesAtRest, NEW r \in Requests, Purge(r)
  PROVE  Chain'
<1>1. /\ req' = req /\ now' = now /\ now \in Nat
      /\ \A t \in Tokens : row[t] \in Row
      /\ \A t \in Tokens : row'[t] = IF Stored(t) /\ row[t].expires < now
                                     THEN [row[t] EXCEPT !.state = "purged"] ELSE row[t]
  BY DEF Purge, IInv, TypeOK
<1>2. \A t \in Tokens :
        /\ row'[t].family = row[t].family /\ row'[t].next = row[t].next
        /\ row'[t].expires = row[t].expires /\ row'[t].revoked = row[t].revoked
        /\ row'[t].revokedAt = row[t].revokedAt
        /\ Used(t)' <=> Used(t)
        /\ Stored(t)' <=> Stored(t) /\ ~(row[t].expires < now)
        /\ Live(t)' => Live(t)
  BY <1>1 DEF Row, Used, Stored, Live
<1>3. CASE \A t \in Tokens : Stored(t) => Stored(t)'
  <2>1. row \in [Tokens -> Row] /\ row' = [t \in Tokens |-> row'[t]]
    BY DEF IInv, TypeOK, Purge
  <2>2. \A t \in Tokens : row'[t] = row[t]
    BY <1>1, <1>2, <1>3
  <2>3. row' = row
    BY <2>1, <2>2
  <2> QED
    BY <1>1, <2>3, TimeChain
<1>4. CASE \E t \in Tokens : Stored(t) /\ ~Stored(t)'
  <2>1. \A q \in Requests : req[q].pc \notin Running
    BY <1>4 DEF PurgesAtRest, InProgress
  <2>2. \A q \in Requests :
          /\ ~At(q, "won") /\ ~At(q, "won")' /\ ~At(q, "link") /\ ~At(q, "link")'
          /\ req[q].pc \notin {"walk", "mark"} /\ Holds(q)'
    BY <1>1, <2>1 DEF At, Running, Holds, Loop
  <2>3. OneEnd'
    BY <1>2, <2>2 DEF Chain, OneEnd, SameSession
  <2>4. Dated'
    BY <1>1, <1>2 DEF Chain, Dated
  <2>5. FinitelyUsed'
    <3>1. {t \in Tokens : Used(t)'} = {t \in Tokens : Used(t)}
      BY <1>2
    <3> QED
      BY <3>1 DEF Chain, FinitelyUsed
  <2>6. Ascending'
    <3>1. PICK rank \in [Tokens -> Nat] :
            \A t \in Tokens : row[t].next # NoToken => rank[t] < rank[row[t].next]
      BY DEF Chain, Ascending
    <3> QED
      BY <1>2, <2>2, <3>1 DEF Ascending
  <2>7. ASSUME NEW t \in Tokens, row'[t].next # NoToken
        PROVE  Outlives(row[t].next, t)' /\ Succeeded(t)'
    <3>1. PICK n \in Tokens : n = row[t].next /\ n = row'[t].next
      BY <1>1, <1>2, <2>7 DEF Row, TokenOrNone
    <3>2. Outlives(n, t) /\ Succeeded(t) /\ ~Walking(row[t].family)
      BY <1>2, <2>2, <2>7, <3>1 DEF Chain, Heirs, Walking
    <3>3. row[t].expires \in Nat /\ row[n].expires \in Nat
      BY <1>1 DEF Row
    <3>4. Outlives(n, t)'
      BY <1>1, <1>2, <3>2, <3>3 DEF Outlives
    <3>5. CASE Over(row[t].family)
      <4>1. Over(row[t].family)'
        BY <1>2, <2>2, <3>5 DEF Over
      <4> QED
        BY <3>1, <3>4, <4>1 DEF Succeeded
    <3>6. CASE Prompt(t, n)
      <4>1. Prompt(t, n)'
        BY <1>2, <3>6 DEF Prompt
      <4> QED
        BY <3>1, <3>4, <4>1 DEF Succeeded
    <3> QED
      BY <3>1, <3>2, <3>5, <3>6 DEF Succeeded
  <2>8. Heirs'
    BY <2>7 DEF Heirs
  <2> QED
    BY <2>2, <2>3, <2>4, <2>5, <2>6, <2>8 DEF Chain
<1> QED
  BY <1>3, <1>4

\* A refresh does not log out.
LEMMA NotLoggedOut ==
  ASSUME IInv, NEW r \in Requests, WaitForReplacement(r) \/ FollowReplacement(r)
  PROVE  ~At(r, "loggedOut")'
<1>1. req \in [Requests -> Request] /\ req[r] \in Request
  BY DEF IInv, TypeOK
<1>2. ASSUME NEW pc \in {"done", "lost", "refused"}, NEW t, End(r, pc, t)
      PROVE  ~At(r, "loggedOut")'
  BY <1>2, EndHolds DEF Final, At
<1>3. ASSUME GiveUp(r) PROVE ~At(r, "loggedOut")'
  <2>1. CASE Set(r, [req[r] EXCEPT !.pc = "cascade"])
    BY <1>1, <2>1 DEF Set, Request, At
  <2> QED
    BY <1>2, <1>3, <2>1 DEF GiveUp
<1>4. CASE WaitForReplacement(r)
  <2>1. CASE Set(r, [req[r] EXCEPT !.polls = @ + 1])
    BY <1>1, <1>4, <2>1 DEF WaitForReplacement, Set, Request, At
  <2>2. CASE Set(r, [req[r] EXCEPT !.pc = "next", !.nxt = row[req[r].cur].next])
    BY <1>1, <2>2 DEF Set, Request, At
  <2> QED
    BY <1>3, <1>4, <2>1, <2>2 DEF WaitForReplacement
<1>5. CASE FollowReplacement(r)
  <2>1. CASE Set(r, [req[r] EXCEPT !.pc = "wait", !.cur = req[r].nxt, !.nxt = NoToken,
                                   !.polls = 0, !.hop = @ + 1])
    BY <1>1, <2>1 DEF Set, Request, At
  <2>2. CASE Answer(r, req[r].nxt)
    BY <1>2, <2>2 DEF Answer
  <2> QED
    BY <1>3, <1>5, <2>1, <2>2 DEF FollowReplacement
<1> QED
  BY <1>4, <1>5

\* A request that is served alone keeps the chain, and no logout ends before the
\* session does.
LEMMA ServeChain ==
  ASSUME IInv, IInv', Chain, NEW r \in Requests, Only(r), Serve(r)
  PROVE  /\ Chain'
         /\ At(r, "loggedOut")' =>
               /\ req'[r].tok = req[r].tok /\ req[r].tok \in Tokens /\ Used(req[r].tok)
               /\ Over(row[req[r].tok].family)'
<1>1. CASE ChangeWrite(r)
  <2>1. /\ UNCHANGED <<row, now>> /\ At(r, "write") /\ Set(r, [req[r] EXCEPT !.pc = "revoke"])
        /\ req \in [Requests -> Request] /\ req[r] \in Request
    BY <1>1 DEF ChangeWrite, IInv, TypeOK
  <2>2. req'[r].pc = "revoke"
    BY <2>1 DEF Set, Request
  <2>3. Holds(r)' /\ ~At(r, "link") /\ ~At(r, "link")' /\ ~At(r, "won")'
    BY <2>1, <2>2 DEF Holds, Loop, At
  <2> QED
    BY <2>1, <2>2, <2>3, QuietChain DEF At
<1>2. CASE WaitForReplacement(r)
  BY <1>2, WaitChain, NotLoggedOut
<1>3. CASE FollowReplacement(r)
  BY <1>3, FollowChain, NotLoggedOut
<1>4. CASE LoginStore(r)
  BY <1>4, LoginStoreChain
<1>5. CASE Claim(r)
  BY <1>5, ClaimChain
<1>6. CASE StoreReplacement(r)
  BY <1>6, StoreReplacementChain
<1>7. CASE Link(r)
  BY <1>7, LinkChain
<1>8. CASE Cascade(r) \/ ChangeRevoke(r)
  BY <1>8, BulkChain
<1>9. CASE WalkChain(r)
  BY <1>9, WalkChainChain
<1>10. CASE MarkLink(r)
  BY <1>10, MarkChain
<1> QED
  BY <1>1, <1>2, <1>3, <1>4, <1>5, <1>6, <1>7, <1>8, <1>9, <1>10 DEF Serve

-----------------------------------------------------------------------------
(* The two promises. *)

LEMMA ChainInit == Init => ChainInv
<1> SUFFICES ASSUME Init PROVE PasswordInv /\ Chain
  BY DEF ChainInv
<1> USE DEF Init
<1>1. PasswordInv
  BY DEF PasswordInv, InProgress, Running, Blank, Unused, Live, Stored, At
<1>2. OneEnd /\ Dated
  BY DEF OneEnd, Dated, Used, Unused
<1>3. Heirs
  BY DEF Heirs, Unused
<1>4. Ascending
  <2>1. [t \in Tokens |-> 0] \in [Tokens -> Nat]
    OBVIOUS
  <2> QED
    BY <2>1 DEF Ascending, Unused, Blank, At
<1>5. FinitelyUsed
  <2>1. {t \in Tokens : Used(t)} = {}
    BY DEF Used, Unused
  <2> QED
    BY <2>1, FS_EmptySet DEF FinitelyUsed
<1>6. \A r \in Requests : Holds(r)
  BY DEF Holds, Blank, Loop
<1> QED
  BY <1>1, <1>2, <1>3, <1>4, <1>5, <1>6 DEF Chain

LEMMA ChainStep ==
  ASSUME IInv, ChainInv, [Next]_vars, [PurgesAtRest /\ PresentsRecent]_vars
  PROVE  ChainInv'
<1>1. IInv' /\ OrderlyInv'
  BY NextIInv, PasswordStep DEF OrderlyInv, ChainInv
<1>2. now \in Nat /\ now' \in Nat
  BY <1>1 DEF IInv, TypeOK
<1>3. CASE UNCHANGED vars
  <2>1. orderly' = orderly /\ (Chain => Chain')
    BY <1>2, <1>3, TimeChain DEF vars
  <2> QED
    BY <1>1, <2>1 DEF ChainInv, OrderlyInv
<1>4. ASSUME Next, PurgesAtRest, PresentsRecent, orderly' PROVE Chain'
  <2>1. orderly
    BY <1>4 DEF Next, Arrive, LoginCheck, ChangeCheck, RefreshRead, LogoutRead, Serve,
           LoginStore, Claim, StoreReplacement, Link, WaitForReplacement,
           FollowReplacement, Cascade, WalkChain, MarkLink, ChangeWrite, ChangeRevoke,
           Purge, Crash, Tick
  <2>2. PasswordInv /\ Chain
    BY <2>1 DEF ChainInv
  <2>3. ASSUME NEW r \in Requests, Arrive(r) PROVE Chain'
    BY <1>1, <1>4, <2>1, <2>2, <2>3, ArriveChain
  <2>4. ASSUME NEW r \in Requests, Serve(r) PROVE Chain'
    <3>1. Only(r)
      BY <2>1, <2>2, <2>4, Lone
    <3> QED
      BY <1>1, <2>2, <2>4, <3>1, ServeChain
  <2>5. ASSUME NEW r \in Requests, Purge(r) PROVE Chain'
    BY <1>4, <2>2, <2>5, PurgeChain
  <2>6. \A r \in Requests : ~Crash(r)
    BY <2>1 DEF Crash
  <2>7. CASE Tick
    <3>1. UNCHANGED <<row, req>> /\ now' = now + 1
      BY <2>7 DEF Tick
    <3> QED
      BY <1>2, <2>2, <3>1, TimeChain
  <2> QED
    BY <1>4, <2>3, <2>4, <2>5, <2>6, <2>7 DEF Next
<1> QED
  BY <1>1, <1>3, <1>4 DEF ChainInv, OrderlyInv, vars

SignedOff ==
    orderly => \A r \in Requests :
        At(r, "loggedOut") => req[r].tok \in Tokens /\ Used(req[r].tok)
                                /\ Over(row[req[r].tok].family)

LEMMA SignedOffStep ==
  ASSUME IInv, ChainInv, SignedOff, [Next]_vars, [PresentsStored]_vars
  PROVE  SignedOff'
<1>1. IInv'
  BY NextIInv
<1> SUFFICES ASSUME orderly', NEW q \in Requests, At(q, "loggedOut")'
             PROVE  (req[q].tok \in Tokens /\ Used(req[q].tok) /\ Over(row[req[q].tok].family))'
  BY DEF SignedOff
<1>2. orderly
  BY DEF Next, Arrive, LoginCheck, ChangeCheck, RefreshRead, LogoutRead, Serve,
         LoginStore, Claim, StoreReplacement, Link, WaitForReplacement,
         FollowReplacement, Cascade, WalkChain, MarkLink, ChangeWrite, ChangeRevoke,
         Purge, Crash, Tick, vars
<1>3. PasswordInv /\ Chain
  BY <1>2 DEF ChainInv
<1> DEFINE Goal == (req[q].tok \in Tokens /\ Used(req[q].tok) /\ Over(row[req[q].tok].family))'
<1>4. ASSUME At(q, "loggedOut"), req'[q] = req[q],
             \A t \in Tokens : Used(t) => Used(t)' /\ row'[t].family = row[t].family
      PROVE  Goal
  <2>1. PICK t \in Tokens : t = req[q].tok /\ Used(t) /\ Over(row[t].family)
    BY <1>2, <1>4 DEF SignedOff
  <2>2. PICK f \in Tokens : f = row[t].family /\ Used(f)
    BY <2>1 DEF IInv, RowsOK
  <2>3. Over(f)'
    BY <2>2, <2>1, OverStable
  <2>4. req'[q].tok = t /\ Used(t)' /\ row'[t].family = f
    BY <1>4, <2>1, <2>2
  <2> QED
    BY <2>3, <2>4
<1>5. ASSUME NEW r \in Requests, Serve(r) PROVE Goal
  <2>1. Only(r) /\ req[r].pc \in Running
    BY <1>2, <1>3, <1>5, Lone
  <2>2. \A t \in Tokens : Used(t) => Used(t)' /\ row'[t].family = row[t].family
    BY <1>5, RowOrigin
  <2>3. CASE q = r
    <3>1. /\ req'[r].tok = req[r].tok /\ req[r].tok \in Tokens /\ Used(req[r].tok)
          /\ Over(row[req[r].tok].family)'
      BY <1>1, <1>3, <1>5, <2>1, <2>3, ServeChain
    <3> QED
      BY <2>2, <2>3, <3>1
  <2>4. CASE q # r
    <3>1. req'[q] = req[q] /\ At(q, "loggedOut")
      BY <2>1, <2>4 DEF Only, At
    <3> HIDE DEF Goal
    <3> QED
      BY <1>4, <2>2, <3>1
  <2> QED
    BY <2>3, <2>4
<1>6. ASSUME NEW r \in Requests, Arrive(r) PROVE Goal
  <2>1. req' \in [Requests -> Request] /\ row' = row /\ \A p \in Requests \ {r} : req'[p] = req[p]
    BY <1>1, <1>6, Arrival DEF IInv, TypeOK
  <2>2. CASE q # r
    <3>1. At(q, "loggedOut") /\ req'[q] = req[q]
      BY <2>1, <2>2 DEF At
    <3>2. \A t \in Tokens : Used(t) => Used(t)' /\ row'[t].family = row[t].family
      BY <2>1 DEF Used
    <3> HIDE DEF Goal
    <3> QED
      BY <1>4, <3>1, <3>2
  <2>3. CASE q = r
    <3>1. req \in [Requests -> Request]
      BY DEF IInv, TypeOK
    <3>2. ~LoginCheck(r) /\ ~ChangeCheck(r)
      BY <2>3, <3>1 DEF LoginCheck, ChangeCheck, Set, Blank, At
    <3>3. ASSUME NEW t \in Tokens, RefreshRead(r, t) PROVE FALSE
      <4>1. PICK pc \in {"refused", "wait", "claim"} : req'[r].pc = pc
        BY <3>1, <3>3 DEF RefreshRead, Set, Blank
      <4> QED
        BY <2>3, <4>1 DEF At
    <3>4. PICK t \in Tokens : LogoutRead(r, t)
      BY <1>6, <3>2, <3>3 DEF Arrive
    <3>5. ~UNCHANGED vars
      <4>1. At(r, "idle")
        BY <3>4 DEF LogoutRead, Admit, At
      <4> QED
        BY <2>3, <4>1 DEF vars, At
    <3>6. Stored(t)
      BY <3>4, <3>5 DEF PresentsStored
    <3>7. req'[r].pc = "walk"
      BY <3>1, <3>4, <3>6 DEF LogoutRead, Set, Blank
    <3> QED
      BY <2>3, <3>7 DEF At
  <2> QED
    BY <2>2, <2>3
<1>7. ASSUME NEW r \in Requests, Purge(r) \/ Tick \/ UNCHANGED vars PROVE Goal
  <2>1. req' = req
    BY <1>7 DEF Purge, Tick, vars
  <2>2. \A t \in Tokens : Used(t) => Used(t)' /\ row'[t].family = row[t].family
    <3>1. CASE row' = row
      BY <3>1 DEF Used
    <3>2. CASE Purge(r)
      <4> SUFFICES ASSUME NEW t \in Tokens, Used(t)
                   PROVE  Used(t)' /\ row'[t].family = row[t].family
        OBVIOUS
      <4>1. row[t] \in Row /\ row'[t] = IF Stored(t) /\ row[t].expires < now
                                         THEN [row[t] EXCEPT !.state = "purged"] ELSE row[t]
        BY <3>2 DEF Purge, IInv, TypeOK
      <4> QED
        BY <4>1 DEF Used, Row
    <3> QED
      BY <1>7, <3>1, <3>2 DEF Tick, vars
  <2>3. At(q, "loggedOut")
    BY <2>1 DEF At
  <2> HIDE DEF Goal
  <2> QED
    BY <1>4, <2>1, <2>2, <2>3
<1>8. \A r \in Requests : ~Crash(r)
  BY <1>2 DEF Crash
<1> HIDE DEF Goal
<1>9. Goal
  BY <1>5, <1>6, <1>7, <1>8 DEF Next
<1> QED
  BY <1>9 DEF Goal

\* A logout that no other request overlaps ends its session, whichever of its tokens
\* is presented (revokeChain, auth.service.ts:248-249), as long as the token is in the table
\* and was replaced fewer than MaxHops times, and no row is purged meanwhile.
THEOREM LogoutEnds ==
  Spec /\ [][PurgesAtRest /\ PresentsRecent]_vars /\ [][PresentsStored]_vars
    => []OrderlyLogoutEndsSession
<1>1. Init => IInv /\ ChainInv /\ SignedOff
  BY InitIInv, ChainInit DEF Init, SignedOff, Blank, At
<1>2. /\ IInv /\ ChainInv /\ SignedOff /\ [Next]_vars
      /\ [PurgesAtRest /\ PresentsRecent]_vars /\ [PresentsStored]_vars
      => (IInv /\ ChainInv /\ SignedOff)'
  BY NextIInv, ChainStep, SignedOffStep
<1>3. SignedOff => OrderlyLogoutEndsSession
  BY DEF SignedOff, OrderlyLogoutEndsSession, LogoutEndsSession, Over, SameSession
<1> QED
  BY <1>1, <1>2, <1>3, PTL DEF Spec

\* Whoever replays a token within the grace window after its rotation is not taken
\* for a thief (resolveReplacement, auth.service.ts:168-171), whatever replies were lost:
\* a cascade costs the session nothing or comes after the window. That a link has
\* not expired within the window is the condition on the constants.
THEOREM GraceKeeps ==
  ASSUME Grace < TTL
  PROVE  Spec /\ [][PurgesAtRest /\ PresentsRecent]_vars => GraceKeepsSession
<1>1. Init => IInv /\ ChainInv
  BY InitIInv, ChainInit
<1>2. IInv /\ ChainInv /\ [Next]_vars /\ [PurgesAtRest /\ PresentsRecent]_vars
        => (IInv /\ ChainInv)'
  BY NextIInv, ChainStep
<1>3. IInv /\ ChainInv =>
        \A r \in Requests : orderly /\ CascadeBy(r) =>
          \/ now > row[req[r].tok].revokedAt + Grace
          \/ \A t \in Tokens : Live(t) => ~SameSession(t, req[r].tok)
  BY DEF ChainInv, Chain, Holds, CascadeBy, At, Over, SameSession
<1>4. IInv /\ ChainInv =>
        [\A r \in Requests : orderly /\ CascadeBy(r) =>
          \/ now > row[req[r].tok].revokedAt + Grace
          \/ \A t \in Tokens : Live(t) => ~SameSession(t, req[r].tok)]_vars
  BY <1>3
<1> QED
  BY <1>1, <1>2, <1>4, PTL DEF Spec, GraceKeepsSession

=============================================================================
