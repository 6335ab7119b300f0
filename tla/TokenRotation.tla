---------------------------- MODULE TokenRotation ----------------------------
(***************************************************************************)
(* The refresh tokens of ONE user: AuthService.login, rotateRefreshToken,  *)
(* logout and changePassword, each an HTTP request that awaits one         *)
(* database call after another, so that other requests run between any two *)
(* of its calls.  Every query of these handlers names either one token or  *)
(* the tokens of one user, so users do not interact and one is enough.     *)
(*                                                                         *)
(* An action is one database call with the code that runs up to the next   *)
(* one.  Time is abstract: Grace stands for REFRESH_GRACE_MS, TTL for the  *)
(* life of a refresh token, Polls for the attempts of waitForReplacement.  *)
(* The fields "family" (the login a token descends from) and "cred" (the   *)
(* version of the password that login was checked against) are history;    *)
(* no guard reads them.  "orderly" is chosen at the start of a behaviour   *)
(* and says whether its requests wait for each other and its process stays *)
(* alive.                                                                  *)
(***************************************************************************)
EXTENDS Naturals, FiniteSets

CONSTANTS
    Tokens,     \* ids of RefreshToken rows, each used at most once (uuid)
    Requests,   \* requests, each runs one handler once
    NoToken,    \* null
    Grace, TTL, MaxHops, Polls,
    MaxTime,    \* bound on the clock
    Overlap,    \* how many requests may be in progress together
    Faults      \* "crash": a request may die half way, in a behaviour that is
                \* not orderly; "loss": a reply may be lost

ASSUME ConstantsAssumption ==
    /\ NoToken \notin Tokens
    /\ IsFiniteSet(Requests)
    /\ Grace \in Nat /\ TTL \in Nat /\ MaxTime \in Nat /\ Overlap \in Nat
    /\ MaxHops \in Nat \ {0} /\ Polls \in Nat \ {0}
    /\ Faults \subseteq {"crash", "loss"}

VARIABLES
    row,        \* the RefreshToken table
    req,        \* the progress of each request
    pw,         \* how many times the password has been changed
    purging,    \* logins whose purgeExpiredTokens is still to run
    now,
    orderly

vars == <<row, req, pw, purging, now, orderly>>

TokenOrNone == Tokens \cup {NoToken}

Reasons == {"none", "rotated", "logout", "password_change", "reuse_detected"}

Row == [state: {"unused", "stored", "purged"}, expires: Nat, revoked: BOOLEAN,
        revokedAt: Nat, reason: Reasons, next: TokenOrNone,
        family: TokenOrNone, cred: Nat]

Final == {"done", "lost", "refused", "loggedOut", "changed", "failed", "crashed"}

Running == {"login", "claim", "won", "link", "wait", "next", "cascade",
            "walk", "mark", "write", "revoke"}

Request == [pc: {"idle"} \cup Running \cup Final,
            tok: TokenOrNone,       \* the token the client presented
            cur: TokenOrNone,       \* currentId of the loops over the chain
            nxt: TokenOrNone,       \* the token created, or the link just read
            hop: Nat, polls: Nat,
            why: Reasons,           \* stored.revoked_reason, as first read
            cred: Nat]              \* the password a login was checked against

TypeOK ==
    /\ row \in [Tokens -> Row]
    /\ req \in [Requests -> Request]
    /\ pw \in Nat
    /\ purging \in SUBSET Requests
    /\ now \in Nat
    /\ orderly \in BOOLEAN

Blank == [pc |-> "idle", tok |-> NoToken, cur |-> NoToken, nxt |-> NoToken,
          hop |-> 0, polls |-> 0, why |-> "none", cred |-> 0]

Unused == [state |-> "unused", expires |-> 0, revoked |-> FALSE,
           revokedAt |-> 0, reason |-> "none", next |-> NoToken,
           family |-> NoToken, cred |-> 0]

Init ==
    /\ row = [t \in Tokens |-> Unused]
    /\ req = [r \in Requests |-> Blank]
    /\ pw = 0
    /\ purging = {}
    /\ now = 0
    /\ orderly \in BOOLEAN

-----------------------------------------------------------------------------
Stored(t) == row[t].state = "stored"
Live(t)   == Stored(t) /\ ~row[t].revoked
Expired(t) == row[t].expires <= now

InProgress == {r \in Requests : req[r].pc \in Running}

\* Only a token that some reply delivered can be presented.
Known == {req[r].nxt : r \in {q \in Requests : req[q].pc = "done"}} \ {NoToken}

Room == Cardinality(InProgress) < (IF orderly THEN 1 ELSE Overlap)

Admit(r) == req[r].pc = "idle" /\ Room

At(r, pc) == req[r].pc = pc

Set(r, value) == req' = [req EXCEPT ![r] = value]

\* The request ends; what it was asked about and what it answered are kept.
End(r, pc, answer) ==
    Set(r, [Blank EXCEPT !.pc = pc, !.tok = req[r].tok, !.nxt = answer])

\* A reply that carries a token reaches the client, or is lost on the way.
Answer(r, t) ==
    \/ End(r, "done", t)
    \/ "loss" \in Faults /\ End(r, "lost", t)

\* updateMany / update of the three columns that revoke a token.
Revoke(S, why) ==
    row' = [t \in Tokens |->
              IF t \in S
              THEN [row[t] EXCEPT !.revoked = TRUE, !.revokedAt = now,
                                  !.reason = why]
              ELSE row[t]]

\* storeRefreshToken: a new row, of the given session and password version.
Store(t, family, cred) ==
    /\ row[t].state = "unused"
    /\ row' = [row EXCEPT ![t] =
                 [Unused EXCEPT !.state = "stored", !.expires = now + TTL,
                                !.family = family, !.cred = cred]]

-----------------------------------------------------------------------------
(* login *)

LoginCheck(r) ==
    /\ Admit(r)
    /\ Set(r, [Blank EXCEPT !.pc = "login", !.cred = pw])
    /\ UNCHANGED <<row, pw, purging, now, orderly>>

LoginStore(r) ==
    /\ At(r, "login")
    /\ \E t \in Tokens : Store(t, t, req[r].cred) /\ Answer(r, t)
    /\ purging' = purging \cup {r}
    /\ UNCHANGED <<pw, now, orderly>>

\* The deleteMany that login starts and does not await.
Purge(r) ==
    /\ r \in purging
    /\ purging' = purging \ {r}
    /\ row' = [t \in Tokens |->
                 IF Stored(t) /\ row[t].expires < now
                 THEN [row[t] EXCEPT !.state = "purged"]
                 ELSE row[t]]
    /\ UNCHANGED <<req, pw, now, orderly>>

-----------------------------------------------------------------------------
(* rotateRefreshToken *)

\* The first read.  A revoked token goes to resolveReplacement.
RefreshRead(r, t) ==
    /\ Admit(r)
    /\ t \in Known
    /\ \/ /\ ~Stored(t) \/ Expired(t)
          /\ Set(r, [Blank EXCEPT !.pc = "refused", !.tok = t])
       \/ /\ Stored(t) /\ ~Expired(t) /\ row[t].revoked
          /\ Set(r, [Blank EXCEPT !.pc = "wait", !.tok = t, !.cur = t,
                                  !.why = row[t].reason])
       \/ /\ Live(t) /\ ~Expired(t)
          /\ Set(r, [Blank EXCEPT !.pc = "claim", !.tok = t])
    /\ UNCHANGED <<row, pw, purging, now, orderly>>

\* Mutant: the claim does not ask whether the token is still unrevoked.
ClaimUnconditionally(r) ==
    /\ At(r, "claim")
    /\ Revoke({req[r].tok}, "rotated")
    /\ Set(r, [req[r] EXCEPT !.pc = "won"])
    /\ UNCHANGED <<pw, purging, now, orderly>>

\* updateMany where is_revoked is false: count 1 wins, count 0 loses.
Claim(r) ==
    LET t == req[r].tok IN
    /\ At(r, "claim")
    /\ \/ /\ Live(t)
          /\ Revoke({t}, "rotated")
          /\ Set(r, [req[r] EXCEPT !.pc = "won"])
       \/ /\ ~Live(t)
          /\ Set(r, [req[r] EXCEPT !.pc = "wait", !.cur = t])
          /\ UNCHANGED row
    /\ UNCHANGED <<pw, purging, now, orderly>>

StoreReplacement(r) ==
    LET old == row[req[r].tok] IN
    /\ At(r, "won")
    /\ \E t \in Tokens :
          /\ Store(t, old.family, old.cred)
          /\ Set(r, [req[r] EXCEPT !.pc = "link", !.nxt = t])
    /\ UNCHANGED <<pw, purging, now, orderly>>

\* Mutant: the link is never written.
AnswerWithoutLink(r) ==
    /\ At(r, "link")
    /\ Answer(r, req[r].nxt)
    /\ UNCHANGED <<row, pw, purging, now, orderly>>

\* replaced_by_id is written last; updating a row that is gone throws.
Link(r) ==
    LET t == req[r].tok IN
    /\ At(r, "link")
    /\ \/ /\ Stored(t)
          /\ row' = [row EXCEPT ![t].next = req[r].nxt]
          /\ Answer(r, req[r].nxt)
       \/ /\ ~Stored(t)
          /\ End(r, "failed", NoToken)
          /\ UNCHANGED row
    /\ UNCHANGED <<pw, purging, now, orderly>>

\* resolveReplacement returned null.
GiveUp(r) ==
    IF req[r].why = "rotated" THEN Set(r, [req[r] EXCEPT !.pc = "cascade"])
                              ELSE End(r, "refused", NoToken)

\* Mutant: the wait has no last attempt.
WaitWithoutEnd(r) ==
    LET c == req[r].cur IN
    /\ At(r, "wait")
    /\ Stored(c) /\ row[c].next # NoToken
    /\ Set(r, [req[r] EXCEPT !.pc = "next", !.nxt = row[c].next])
    /\ UNCHANGED <<row, pw, purging, now, orderly>>

\* One poll of waitForReplacement, and the grace check on what it read.
WaitForReplacement(r) ==
    LET c == req[r].cur IN
    /\ At(r, "wait")
    /\ \/ /\ Stored(c) /\ row[c].next = NoToken /\ req[r].polls + 1 < Polls
          /\ Set(r, [req[r] EXCEPT !.polls = @ + 1])
       \/ /\ Stored(c) /\ row[c].next # NoToken
          /\ now <= row[c].revokedAt + Grace
          /\ Set(r, [req[r] EXCEPT !.pc = "next", !.nxt = row[c].next])
       \/ /\ \/ ~Stored(c)
             \/ row[c].next = NoToken /\ req[r].polls + 1 >= Polls
             \/ row[c].next # NoToken /\ now > row[c].revokedAt + Grace
          /\ GiveUp(r)
    /\ UNCHANGED <<row, pw, purging, now, orderly>>

\* The link is answered if it is live, followed if it was itself revoked.
FollowReplacement(r) ==
    LET n == req[r].nxt
        usable == Stored(n) /\ ~Expired(n)
        more == req[r].hop + 1 < MaxHops
    IN
    /\ At(r, "next")
    /\ \/ usable /\ Live(n) /\ Answer(r, n)
       \/ /\ usable /\ ~Live(n) /\ more
          /\ Set(r, [req[r] EXCEPT !.pc = "wait", !.cur = n, !.nxt = NoToken,
                                   !.polls = 0, !.hop = @ + 1])
       \/ (~usable \/ (~Live(n) /\ ~more)) /\ GiveUp(r)
    /\ UNCHANGED <<row, pw, purging, now, orderly>>

\* revokeAllUserTokens: the replay is taken for theft.
Cascade(r) ==
    /\ At(r, "cascade")
    /\ Revoke({t \in Tokens : Live(t)}, "reuse_detected")
    /\ End(r, "refused", NoToken)
    /\ UNCHANGED <<pw, purging, now, orderly>>

-----------------------------------------------------------------------------
(* logout: revokeChain reads a link, then updates it, then moves on. *)

LogoutRead(r, t) ==
    /\ Admit(r)
    /\ t \in Known
    /\ Set(r, [Blank EXCEPT !.pc = IF Stored(t) THEN "walk" ELSE "loggedOut",
                            !.tok = t, !.cur = t])
    /\ UNCHANGED <<row, pw, purging, now, orderly>>

WalkChain(r) ==
    LET c == req[r].cur IN
    /\ At(r, "walk")
    /\ IF Stored(c) THEN Set(r, [req[r] EXCEPT !.pc = "mark", !.nxt = row[c].next])
                    ELSE End(r, "loggedOut", NoToken)
    /\ UNCHANGED <<row, pw, purging, now, orderly>>

\* Mutant: only the token that was presented is revoked.
MarkOneLink(r) ==
    /\ At(r, "mark")
    /\ Stored(req[r].cur)
    /\ Revoke({req[r].cur}, "logout")
    /\ End(r, "loggedOut", NoToken)
    /\ UNCHANGED <<pw, purging, now, orderly>>

MarkLink(r) ==
    LET c == req[r].cur
        n == req[r].nxt
        more == n # NoToken /\ req[r].hop + 1 < MaxHops
    IN
    /\ At(r, "mark")
    /\ \/ /\ ~Stored(c)
          /\ End(r, "failed", NoToken)
          /\ UNCHANGED row
       \/ /\ Stored(c)
          /\ Revoke({c}, "logout")
          /\ IF more THEN Set(r, [req[r] EXCEPT !.pc = "walk", !.cur = n,
                                                !.nxt = NoToken, !.hop = @ + 1])
                     ELSE End(r, "loggedOut", NoToken)
    /\ UNCHANGED <<pw, purging, now, orderly>>

-----------------------------------------------------------------------------
(* changePassword *)

ChangeCheck(r) ==
    /\ Admit(r)
    /\ Set(r, [Blank EXCEPT !.pc = "write"])
    /\ UNCHANGED <<row, pw, purging, now, orderly>>

ChangeWrite(r) ==
    /\ At(r, "write")
    /\ pw' = pw + 1
    /\ Set(r, [req[r] EXCEPT !.pc = "revoke"])
    /\ UNCHANGED <<row, purging, now, orderly>>

\* Mutant: the new password leaves the tokens alone.
ChangeWithoutRevoking(r) ==
    /\ At(r, "revoke")
    /\ End(r, "changed", NoToken)
    /\ UNCHANGED <<row, pw, purging, now, orderly>>

ChangeRevoke(r) ==
    /\ At(r, "revoke")
    /\ Revoke({t \in Tokens : Stored(t)}, "password_change")
    /\ End(r, "changed", NoToken)
    /\ UNCHANGED <<pw, purging, now, orderly>>

-----------------------------------------------------------------------------
(* The process dies between two calls; time passes. *)

Crash(r) ==
    /\ "crash" \in Faults /\ ~orderly
    /\ req[r].pc \in Running
    /\ End(r, "crashed", NoToken)
    /\ UNCHANGED <<row, pw, purging, now, orderly>>

Tick ==
    /\ now < MaxTime
    /\ now' = now + 1
    /\ UNCHANGED <<row, req, pw, purging, orderly>>

\* What the server does next for a request it has begun.
Serve(r) ==
    \/ LoginStore(r)
    \/ Claim(r) \/ StoreReplacement(r) \/ Link(r)
    \/ WaitForReplacement(r) \/ FollowReplacement(r) \/ Cascade(r)
    \/ WalkChain(r) \/ MarkLink(r)
    \/ ChangeWrite(r) \/ ChangeRevoke(r)

Arrive(r) ==
    \/ LoginCheck(r) \/ ChangeCheck(r)
    \/ \E t \in Tokens : RefreshRead(r, t) \/ LogoutRead(r, t)

Next ==
    \/ \E r \in Requests : Arrive(r) \/ Serve(r) \/ Purge(r) \/ Crash(r)
    \/ Tick

Spec == Init /\ [][Next]_vars

\* The event loop runs the continuation of every database call that returned.
FairSpec == Spec /\ \A r \in Requests : WF_vars(Serve(r))

-----------------------------------------------------------------------------
(* Properties *)

SameSession(s, t) == row[s].family = row[t].family

\* A session (everything that descends from one login) never has two usable
\* refresh tokens, and never one while a rotation that already claimed it has
\* still to create its replacement: the claim of auth.service.ts:204-212.
OneLiveTokenPerSession ==
    /\ \A s, t \in Tokens : Live(s) /\ Live(t) /\ SameSession(s, t) => s = t
    /\ \A q, r \in Requests :
          At(q, "won") /\ At(r, "won") /\ SameSession(req[q].tok, req[r].tok)
            => q = r
    /\ \A t \in Tokens, r \in Requests :
          Live(t) /\ At(r, "won") => ~SameSession(t, req[r].tok)

\* The replaced_by links of the table never leave a session, never merge and
\* only leave revoked tokens, so that walking them (resolveReplacement,
\* revokeChain) follows one line of succession.
ReplacementChainLinear ==
    \A s, t \in Tokens :
        row[s].next = t =>
            /\ row[s].revoked
            /\ SameSession(s, t)
            /\ \A u \in Tokens : row[u].next = t => u = s

\* A refresh is answered only with a token of the session whose token it
\* presented, however many rotations, polls and logouts it raced.
AnswersStayInSession ==
    \A r \in Requests :
        req[r].pc \in {"done", "lost"} /\ req[r].tok # NoToken =>
            SameSession(req[r].nxt, req[r].tok)

\* Together: a session is one line of succession with at most one usable token, and
\* whoever follows it stays in it.
OneLineOfSuccession ==
    OneLiveTokenPerSession /\ ReplacementChainLinear /\ AnswersStayInSession

\* A replacement is recorded once: no rotation overwrites the link that an
\* earlier one wrote, and a revoked token never becomes usable again.
SuccessionIsFinal ==
    [][\A t \in Tokens :
         /\ row[t].next # NoToken => row'[t].next = row[t].next
         /\ row[t].revoked => row'[t].revoked]_vars

\* Every request that arrives is answered, refused or fails: the polls and the
\* hops of the two loops over the chain are bounded.
RequestsEnd ==
    \A r \in Requests : req[r].pc \in Running ~> req[r].pc \in Final

\* After a logout no token of that session is usable
\* (auth.service.ts:248-249).
LogoutEndsSession ==
    \A r \in Requests, t \in Tokens :
        At(r, "loggedOut") /\ Live(t) => ~SameSession(t, req[r].tok)

\* The same when no request overlaps the logout, whichever token of the chain
\* was presented.
OrderlyLogoutEndsSession == orderly => LogoutEndsSession

\* Once a password change that nothing overlapped is over, no session that was
\* opened with an earlier password is usable (auth.service.ts:437, the same
\* update in changePassword).
PasswordChangeEndsSessions ==
    \A t \in Tokens :
        orderly /\ Live(t) /\ row[t].cred < pw => \E r \in Requests : At(r, "revoke")

CascadeBy(r) == At(r, "cascade") /\ req'[r].pc = "refused"

\* Replaying a token within the grace window of its rotation, after a reply
\* that was lost for instance, never costs the session its live token: the
\* caller is not a thief (auth.service.ts:168-171 and 192-196).
GraceKeepsSession ==
    [][\A r \in Requests : orderly /\ CascadeBy(r) =>
         \/ now > row[req[r].tok].revokedAt + Grace
         \/ \A t \in Tokens : Live(t) => ~SameSession(t, req[r].tok)]_vars

\* "Only one caller may rotate it, so the losers are answered with the replacement
\* token instead of being logged out" (auth.service.ts:168-171), whatever overlaps.
LosersAreAnswered ==
    [][\A r \in Requests : CascadeBy(r) =>
         \/ now > row[req[r].tok].revokedAt + Grace
         \/ \A t \in Tokens : Live(t) => ~SameSession(t, req[r].tok)]_vars

\* Replaying a token of a session that was signed out does not revoke the
\* user's other sessions (auth.service.ts:195-196 and 320-322).
ReplayAfterLogoutIsHarmless ==
    [][\A r, q \in Requests :
         CascadeBy(r) /\ At(q, "loggedOut") =>
             ~SameSession(req[r].tok, req[q].tok)]_vars

=============================================================================
