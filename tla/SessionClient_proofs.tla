-------------------------- MODULE SessionClient_proofs --------------------------
(***************************************************************************)
(* For every number of sessions and of calls: whatever fails, whoever is   *)
(* shown as signed in is the one whose tokens are kept; a user is not      *)
(* signed out behind his back; and signing out leaves nothing that could   *)
(* be used.  The last part is about the account that signs in (Account).   *)
(***************************************************************************)
EXTENDS SessionClient, Account, FiniteSetTheorems, SequenceTheorems, TLAPS

-----------------------------------------------------------------------------
(* The inductive invariant. *)

\* Whatever the client has, the server once gave it.
Known ==
    /\ {access, user, stored, mirror, refresh.with, exchange.with} \subseteq signedIn \cup {NoSession}
    /\ \A i \in 1..Len(writes) : writes[i] \in signedIn \cup {NoSession}

\* What stands behind each answer.
Tidy ==
    /\ refresh.pc = "none" => refresh = NoRefresh
    /\ refresh.pc = "mirror" => native /\ refresh.with = NoSession
    /\ refresh.pc = "granted" => refresh.with # NoSession
    /\ refresh.pc = "denied" => refresh.with \notin live
    /\ exchange.op = "login" => (exchange.served <=> exchange.with # NoSession)
    /\ exchange.op = "logout" /\ exchange.served => exchange.with \notin live

\* No call is sent again before the first check of the session has ended.
Opened == "mount" \in refresh.waiting => \A c \in Calls : call[c].pc # "resent"

\* While signing in or out and refreshing take turns, what is sent is what is stored,
\* or what was, before the app dropped it.
Turns == InTurn =>
    /\ refresh = NoRefresh \/ exchange = NoExchange
    /\ refresh.pc # "none" =>
          refresh.with = stored \/ (native /\ stored = NoSession /\ user = NoSession)
    /\ "mount" \in refresh.waiting \/ exchange.op = "login" => user = NoSession
    /\ user # NoSession =>
          /\ access = user /\ stored \in {user, NoSession}
          /\ native => stored = user

\* The last write under way is of the local copy.
Mirrored == Patient /\ native =>
    /\ writes # << >> => writes[Len(writes)] = stored
    /\ writes = << >> /\ (checked \/ refresh.pc # "mirror") => mirror = stored

\* The session that is looked for when the agent has been opened.
Sought == IF refresh.pc = "mirror" THEN mirror ELSE refresh.with

\* The sessions that may be live although their user asked to be remembered: the ones
\* that were dropped at the client only, the one that is looked for, the one that has
\* just been created, and the one in use.
Forgone == forgetful \cup abandoned

Checking == Patient /\ ~checked =>
    /\ "mount" \in refresh.waiting /\ access = NoSession
    /\ refresh.pc = "mirror" => writes = << >>
    /\ live \subseteq Forgone \cup {Sought}

SignedOut == Patient /\ checked /\ user = NoSession =>
    /\ access \in abandoned \cup {NoSession}
    /\ refresh.pc = "granted" => refresh.with \in abandoned
    /\ stored \in live => stored \in abandoned
    /\ refresh.with \in live => refresh.with \in abandoned
    /\ live \subseteq Forgone \cup {exchange.with}

SignedIn == Patient /\ user # NoSession =>
    /\ live \subseteq Forgone \cup {user}
    /\ stored = user \/ user \notin live
    /\ exchange.op = "logout" =>
          exchange.with = stored /\ (exchange.served => {stored, user} \cap live = {})

\* A cookie that goes with the browser is of a user who wants that.
Passing == Patient /\ ~native /\ ~persistent => stored \in forgetful \cup {NoSession}

Sound ==
    /\ Known /\ Tidy /\ Turns /\ NotHalfSignedIn
    /\ Mirrored /\ Checking /\ SignedOut /\ SignedIn /\ Passing

IInv == TypeOK /\ Sound /\ Opened

-----------------------------------------------------------------------------
(* Writes under way, the shared refresh, and what one step does to them. *)

LEMMA Appended ==
    ASSUME NEW S, NEW q \in Seq(S), NEW x \in S
    PROVE  /\ Append(q, x) \in Seq(S) /\ Append(q, x) # << >>
           /\ Append(q, x)[Len(Append(q, x))] = x
           /\ \A X : x \in X /\ (\A i \in 1..Len(q) : q[i] \in X) =>
                  \A i \in 1..Len(Append(q, x)) : Append(q, x)[i] \in X
<1>1. /\ Append(q, x) \in Seq(S) /\ Append(q, x) # << >>
      /\ Len(Append(q, x)) = Len(q) + 1
      /\ \A i \in 1..Len(q) : Append(q, x)[i] = q[i]
      /\ Append(q, x)[Len(q) + 1] = x
  BY AppendProperties
<1>2. \A i \in 1..Len(Append(q, x)) : i \in 1..Len(q) \/ i = Len(q) + 1
  BY <1>1
<1>3. ASSUME NEW X, x \in X, \A i \in 1..Len(q) : q[i] \in X,
             NEW i \in 1..Len(Append(q, x))
      PROVE  Append(q, x)[i] \in X
  BY <1>1, <1>2, <1>3
<1> QED
  BY <1>1, <1>3

LEMMA Shifted ==
    ASSUME NEW S, NEW q \in Seq(S), q # << >>
    PROVE  /\ Head(q) \in S /\ Tail(q) \in Seq(S)
           /\ Tail(q) # << >> => Tail(q)[Len(Tail(q))] = q[Len(q)]
           /\ Tail(q) = << >> => Head(q) = q[Len(q)]
           /\ \A X : (\A i \in 1..Len(q) : q[i] \in X) =>
                  Head(q) \in X /\ \A i \in 1..Len(Tail(q)) : Tail(q)[i] \in X
<1>1. /\ Head(q) \in S /\ Tail(q) \in Seq(S) /\ Len(Tail(q)) = Len(q) - 1
      /\ \A i \in 1..Len(Tail(q)) : Tail(q)[i] = q[i + 1]
  BY HeadTailProperties
<1>2. Head(q) = q[1] /\ Len(q) \in Nat \ {0}
  BY EmptySeq
<1>3. Tail(q) = << >> => Len(q) = 1
  <2>1. Len(<< >>) = 0
    BY EmptySeq
  <2>2. Tail(q) = << >> => Len(Tail(q)) = 0
    BY <2>1, Zenon
  <2> QED
    BY <1>1, <1>2, <2>2
<1>4. Tail(q) # << >> => Len(Tail(q)) \in 1..Len(Tail(q)) /\ Len(Tail(q)) + 1 = Len(q)
  BY <1>1, <1>2, EmptySeq
<1>5. \A i \in 1..Len(Tail(q)) : i + 1 \in 1..Len(q)
  BY <1>1, <1>2
<1> QED
  BY <1>1, <1>2, <1>3, <1>4, <1>5

\* Keep: the copy is there at once, and is the last of the writes.
LEMMA Keeps ==
    ASSUME TypeOK, NEW s \in Maybe, Keep(s)
    PROVE  /\ stored' = s /\ mirror' = mirror /\ writes' \in Seq(Maybe)
           /\ IF native THEN writes' # << >> /\ writes'[Len(writes')] = s
                        ELSE writes' = writes
           /\ \A X : s \in X /\ (\A i \in 1..Len(writes) : writes[i] \in X) =>
                  \A i \in 1..Len(writes') : writes'[i] \in X
<1>1. writes \in Seq(Maybe)
  BY DEF TypeOK
<1>2. CASE native
  <2>1. stored' = s /\ mirror' = mirror /\ writes' = Append(writes, s)
    BY <1>2 DEF Keep
  <2> QED
    BY <1>1, <1>2, <2>1, Appended
<1>3. CASE ~native
  BY <1>1, <1>3 DEF Keep
<1> QED
  BY <1>2, <1>3

Refresh == [pc: {"none", "mirror", "sent", "granted", "denied"},
            with: Maybe, waiting: SUBSET Waiters]

\* Joined: a refresh in flight goes on with one more waiter; a new one sends what is
\* stored.
LEMMA Joins ==
    ASSUME TypeOK, Tidy, NEW w \in Waiters, refresh' = Joined(w)
    PROVE  /\ refresh' \in Refresh
           /\ refresh'.waiting = refresh.waiting \cup {w}
           /\ IF refresh.pc = "none"
              THEN /\ refresh'.with = stored
                   /\ refresh'.pc = IF native /\ stored = NoSession THEN "mirror" ELSE "sent"
              ELSE refresh'.with = refresh.with /\ refresh'.pc = refresh.pc
<1>1. refresh \in Refresh /\ stored \in Maybe
  BY DEF TypeOK, Refresh
<1>2. CASE refresh.pc = "none"
  <2>1. refresh.waiting = {}
    BY <1>2 DEF Tidy, NoRefresh
  <2>2. refresh' = [pc |-> IF native /\ stored = NoSession THEN "mirror" ELSE "sent",
                    with |-> stored, waiting |-> {w}]
    BY <1>2 DEF Joined, Launched, Asked
  <2> QED
    BY <1>1, <1>2, <2>1, <2>2 DEF Refresh
<1>3. CASE refresh.pc # "none"
  <2>1. refresh' = [refresh EXCEPT !.waiting = @ \cup {w}]
    BY <1>3 DEF Joined
  <2> QED
    BY <1>1, <1>3, <2>1 DEF Refresh
<1> QED
  BY <1>2, <1>3

-----------------------------------------------------------------------------
(* Types. *)

CallType == [pc: {"idle", "sent", "waiting", "resent"}, with: Maybe]

WaitersWait == \A c \in Calls : call[c].pc = "waiting" <=> c \in refresh.waiting

LEMMA Names == "mount" \notin Calls /\ "timer" \notin Calls /\ "visible" \notin Calls
BY SessionAssumption

LEMMA TypeInit == Init => TypeOK
<1> SUFFICES ASSUME Init PROVE TypeOK
  OBVIOUS
<1>1. refresh = [pc |-> IF native THEN "mirror" ELSE "sent", with |-> NoSession,
                 waiting |-> {"mount"}]
  BY DEF Init, Launched, Asked
<1>2. refresh \in Refresh
  BY <1>1 DEF Refresh, Maybe, Waiters
<1>3. \A c \in Calls : call[c].pc # "waiting" /\ c \notin refresh.waiting
  BY <1>1, Names DEF Init, NoCall
<1>4. call \in [Calls -> CallType]
  BY DEF Init, NoCall, CallType, Maybe
<1>5. writes \in Seq(Maybe)
  BY EmptySeq DEF Init
<1> QED
  BY <1>2, <1>3, <1>4, <1>5 DEF Init, TypeOK, Refresh, CallType, NoExchange, Maybe

\* A waiter more, a page among them or not.
LEMMA AskType ==
    ASSUME TypeOK, Tidy, NEW w \in Waiters, Ask(w),
           UNCHANGED <<native, mode, access, stale, user, checked, device, server, exchange, abandoned>>,
           timer' \in {"off", "on", "retry"},
           call' = IF w \in Calls THEN [call EXCEPT ![w].pc = "waiting"] ELSE call
    PROVE  TypeOK'
<1>1. refresh' \in Refresh /\ refresh'.waiting = refresh.waiting \cup {w}
  BY Joins DEF Ask
<1>2. call \in [Calls -> CallType] /\ WaitersWait
  BY DEF TypeOK, CallType, WaitersWait
<1>3. call' \in [Calls -> CallType] /\ WaitersWait'
  <2>1. CASE w \in Calls
    <3>1. call' = [call EXCEPT ![w].pc = "waiting"]
      BY <2>1
    <3>2. /\ call'[w] = [call[w] EXCEPT !.pc = "waiting"]
          /\ \A c \in Calls : c # w => call'[c] = call[c]
      BY <1>2, <2>1, <3>1
    <3>3. call'[w] \in CallType /\ call'[w].pc = "waiting"
      BY <1>2, <2>1, <3>2 DEF CallType
    <3> QED
      BY <1>1, <1>2, <3>1, <3>2, <3>3 DEF WaitersWait
  <2>2. CASE w \notin Calls
    BY <1>1, <1>2, <2>2 DEF WaitersWait
  <2> QED
    BY <2>1, <2>2
<1> QED
  BY <1>1, <1>3 DEF TypeOK, Refresh, CallType, WaitersWait, device, server

\* The refresh has ended: its waiters go on.
LEMMA EndType ==
    ASSUME TypeOK, NEW v \in CallType, v.pc # "waiting",
           refresh' = NoRefresh,
           call' = [c \in Calls |-> IF c \in refresh.waiting THEN v ELSE call[c]]
    PROVE  /\ refresh' \in Refresh /\ call' \in [Calls -> CallType] /\ WaitersWait'
<1>1. refresh' \in Refresh /\ refresh'.waiting = {}
  BY DEF NoRefresh, Refresh, Maybe
<1>2. call \in [Calls -> CallType] /\ WaitersWait
  BY DEF TypeOK, CallType, WaitersWait
<1>3. \A c \in Calls : call'[c] \in CallType /\ call'[c].pc # "waiting"
  BY <1>2 DEF WaitersWait
<1> QED
  BY <1>1, <1>3 DEF WaitersWait

LEMMA GrantedType == ASSUME TypeOK, Granted PROVE TypeOK'
<1> DEFINE v == [pc |-> "resent", with |-> refresh.with]
<1>1. refresh.with \in Maybe /\ v \in CallType /\ v.pc # "waiting"
  BY DEF TypeOK, CallType
<1>2. refresh' = NoRefresh /\ call' = [c \in Calls |-> IF c \in refresh.waiting THEN v ELSE call[c]]
  BY DEF Granted, Resent
<1> HIDE DEF v
<1>3. refresh' \in Refresh /\ call' \in [Calls -> CallType] /\ WaitersWait'
  BY <1>1, <1>2, EndType
<1>4. stored' \in Maybe /\ mirror' = mirror /\ writes' \in Seq(Maybe)
  BY <1>1, Keeps DEF Granted
<1>5. access' \in Maybe /\ user' \in Maybe /\ timer' \in {"off", "on", "retry"} /\ checked' \in BOOLEAN
  BY <1>1 DEF Granted, TypeOK
<1> QED
  BY <1>3, <1>4, <1>5 DEF Granted, TypeOK, Refresh, CallType, WaitersWait, server

LEMMA DisappointedType ==
    ASSUME TypeOK, NEW denied \in BOOLEAN, NEW cleared \in BOOLEAN, Disappointed(denied, cleared)
    PROVE  TypeOK'
<1>1. NoCall \in CallType /\ NoCall.pc # "waiting"
  BY DEF NoCall, CallType, Maybe
<1>2. refresh' \in Refresh /\ call' \in [Calls -> CallType] /\ WaitersWait'
  BY <1>1, EndType DEF Disappointed, Failed
<1>3. stored' \in Maybe /\ mirror' = mirror /\ writes' \in Seq(Maybe)
  <2>1. NoSession \in Maybe
    BY DEF Maybe
  <2>2. CASE Keep(NoSession)
    BY <2>1, <2>2, Keeps
  <2>3. CASE /\ stored' = IF cleared /\ ~native THEN NoSession ELSE stored
             /\ UNCHANGED <<mirror, writes>>
    BY <2>1, <2>3 DEF TypeOK
  <2> QED
    BY <2>2, <2>3 DEF Disappointed
<1>4. access' \in Maybe /\ user' \in Maybe
  BY DEF Disappointed, TypeOK, Maybe
<1>5. timer' \in {"off", "on", "retry"} /\ checked' \in BOOLEAN
  BY DEF Disappointed, TypeOK
<1> QED
  BY <1>2, <1>3, <1>4, <1>5 DEF Disappointed, TypeOK, Refresh, CallType, WaitersWait, server

LEMMA FreshSession ==
    ASSUME TypeOK, signedIn # Sessions
    PROVE  LET s == CHOOSE s \in Sessions \ signedIn : TRUE IN s \in Sessions \ signedIn
BY DEF TypeOK

LEMMA TypeStep == ASSUME TypeOK, Known, Tidy, [Next]_vars PROVE TypeOK'
<1> USE DEF TypeOK, client, device, server
<1>1. CASE TimerFires
  BY <1>1, AskType, Names DEF TimerFires, Waiters
<1>2. CASE RetryFires
  BY <1>2 DEF RetryFires
<1>3. CASE BecomesVisible
  BY <1>3, AskType, Names DEF BecomesVisible, Waiters
<1>4. CASE ReadMirror
  <2>1. PICK found \in {mirror, NoSession} :
           /\ stored' = IF found = NoSession THEN stored ELSE found
           /\ refresh' = [refresh EXCEPT !.with = found,
                                         !.pc = IF found = NoSession THEN "denied" ELSE "sent"]
    BY <1>4 DEF ReadMirror
  <2>2. found \in Maybe
    BY <2>1 DEF Maybe
  <2>3. refresh' \in Refresh /\ refresh'.waiting = refresh.waiting
    BY <2>1, <2>2 DEF Refresh
  <2> QED
    BY <1>4, <2>1, <2>2, <2>3 DEF ReadMirror, Refresh
<1>5. CASE ServeRefresh
  <2>1. refresh' \in Refresh /\ refresh'.waiting = refresh.waiting
    BY <1>5 DEF ServeRefresh, Refresh
  <2> QED
    BY <1>5, <2>1 DEF ServeRefresh, Refresh
<1>6. CASE Granted
  BY <1>6, GrantedType
<1>7. CASE Denied
  BY <1>7, DisappointedType DEF Denied
<1>8. CASE Stumbled
  BY <1>8, DisappointedType DEF Stumbled
<1>9. CASE ServeLogin
  <2> DEFINE s == CHOOSE s \in Sessions \ signedIn : TRUE
  <2>1. s \in Sessions \ signedIn
    BY <1>9, FreshSession DEF ServeLogin
  <2>2. /\ signedIn' = signedIn \cup {s} /\ live' = live \cup {s}
        /\ forgetful' \in {forgetful, forgetful \cup {s}}
        /\ exchange' = [exchange EXCEPT !.with = s, !.served = TRUE]
    BY <1>9 DEF ServeLogin
  <2> HIDE DEF s
  <2>3. exchange' \in [op: {"none", "login", "logout"}, with: Maybe, served: BOOLEAN]
    BY <2>1, <2>2 DEF Maybe
  <2>4. live' \subseteq signedIn' /\ forgetful' \subseteq signedIn' /\ signedIn' \subseteq Sessions
    BY <2>1, <2>2
  <2> QED
    BY <1>9, <2>3, <2>4 DEF ServeLogin
<1>10. CASE LoggedIn
  <2>1. stored' = exchange.with /\ writes' \in Seq(Maybe) /\ mirror' = mirror
    BY <1>10, Keeps DEF LoggedIn
  <2> QED
    BY <1>10, <2>1 DEF LoggedIn, NoExchange, Maybe
<1>11. CASE LoginFails
  BY <1>11 DEF LoginFails, NoExchange, Maybe
<1>12. CASE ServeLogout
  <2>1. live' \subseteq signedIn
    BY <1>12 DEF ServeLogout
  <2> QED
    BY <1>12, <2>1 DEF ServeLogout
<1>13. CASE LoggedOut
  <2>1. NoSession \in Maybe
    BY DEF Maybe
  <2>2. stored' \in Maybe /\ writes' \in Seq(Maybe) /\ mirror' = mirror
    BY <1>13, <2>1, Keeps DEF LoggedOut
  <2> QED
    BY <1>13, <2>1, <2>2 DEF LoggedOut, NoExchange
<1>14. CASE WriteMirror
  BY <1>14, Shifted DEF WriteMirror
<1>15. CASE Expires
  BY <1>15 DEF Expires
<1>16. CASE Login
  BY <1>16 DEF Login, Begin, Maybe
<1>17. CASE Logout
  BY <1>17 DEF Logout, Begin
<1>18. CASE EndsAtServer
  <2>1. live' \subseteq signedIn
    BY <1>18 DEF EndsAtServer
  <2> QED
    BY <1>18, <2>1 DEF EndsAtServer
<1>19. CASE Reopen
  <2>1. stored' \in Maybe
    BY <1>19 DEF Reopen, Maybe
  <2>2. refresh' \in Refresh /\ refresh'.waiting = {"mount"}
    BY <1>19, <2>1 DEF Reopen, Launched, Asked, Refresh, Maybe, Waiters
  <2>3. call' \in [Calls -> CallType] /\ \A c \in Calls : call'[c].pc # "waiting"
    BY <1>19 DEF Reopen, NoCall, CallType, Maybe
  <2>4. writes' \in Seq(Maybe)
    BY <1>19, EmptySeq DEF Reopen
  <2> QED
    BY <1>19, <2>1, <2>2, <2>3, <2>4, Names DEF Reopen, Refresh, CallType, NoExchange, Maybe
<1>20. ASSUME NEW c \in Calls, Send(c) PROVE TypeOK'
  <2>1. call' \in [Calls -> CallType] /\ \A d \in Calls : call'[d].pc = "waiting" <=> call[d].pc = "waiting"
    BY <1>20 DEF Send, CallType, NoCall
  <2> QED
    BY <1>20, <2>1 DEF Send, CallType
<1>21. ASSUME NEW c \in Calls, Answered(c) PROVE TypeOK'
  <2>1. call' \in [Calls -> CallType] /\ \A d \in Calls : call'[d].pc = "waiting" <=> call[d].pc = "waiting"
    BY <1>21 DEF Answered, CallType, NoCall, Maybe
  <2> QED
    BY <1>21, <2>1 DEF Answered, CallType
<1>22. ASSUME NEW c \in Calls, Refused(c) PROVE TypeOK'
  BY <1>22, AskType DEF Refused, Waiters
<1>23. ASSUME NEW c \in Calls, GivenUp(c) PROVE TypeOK'
  <2>1. NoSession \in Maybe
    BY DEF Maybe
  <2>2. stored' \in Maybe /\ writes' \in Seq(Maybe) /\ mirror' = mirror
    BY <1>23, <2>1, Keeps DEF GivenUp
  <2>3. call' \in [Calls -> CallType] /\ \A d \in Calls : call'[d].pc = "waiting" <=> call[d].pc = "waiting"
    BY <1>23 DEF GivenUp, CallType, NoCall, Maybe
  <2>4. abandoned' \subseteq signedIn
    BY <1>23 DEF GivenUp, Known
  <2> QED
    BY <1>23, <2>1, <2>2, <2>3, <2>4 DEF GivenUp, CallType
<1>24. CASE UNCHANGED vars
  BY <1>24 DEF vars
<1> QED
  BY <1>1, <1>2, <1>3, <1>4, <1>5, <1>6, <1>7, <1>8, <1>9, <1>10, <1>11, <1>12, <1>13, <1>14,
     <1>15, <1>16, <1>17, <1>18, <1>19, <1>20, <1>21, <1>22, <1>23, <1>24
  DEF Next, Asks, Answers, Exchanges

-----------------------------------------------------------------------------
(* Soundness: the initial states, and the steps of the refresh. *)

LEMMA InvInit == Init => IInv
<1> SUFFICES ASSUME Init PROVE IInv
  OBVIOUS
<1>1. TypeOK
  BY TypeInit
<1>2. /\ refresh.pc = IF native THEN "mirror" ELSE "sent"
      /\ refresh.with = NoSession /\ refresh.waiting = {"mount"}
  BY DEF Init, Launched, Asked
<1>3. /\ exchange.op = "none" /\ exchange.with = NoSession
  BY DEF Init, NoExchange
<1>4. Known /\ Tidy
  BY <1>2, <1>3, EmptySeq DEF Init, Known, Tidy
<1>5. Turns /\ NotHalfSignedIn /\ Mirrored
  BY <1>2, <1>3 DEF Init, Turns, NotHalfSignedIn, Mirrored
<1>6. Checking /\ SignedOut /\ SignedIn /\ Passing
  BY <1>2, <1>3 DEF Init, Checking, SignedOut, SignedIn, Passing, Forgone
<1>7. Opened
  BY DEF Init, NoCall, Opened
<1> QED
  BY <1>1, <1>4, <1>5, <1>6, <1>7 DEF IInv, Sound

\* A step that leaves alone what the invariant speaks of.
LEMMA SameSound ==
    ASSUME Sound,
           UNCHANGED <<native, mode, live, signedIn, forgetful, access, user, checked, stored,
                       persistent, mirror, writes, refresh, exchange, abandoned>>
    PROVE  Sound'
<1>1. Known' /\ Tidy' /\ Turns' /\ NotHalfSignedIn'
  BY DEF Sound, Known, Tidy, Turns, InTurn, NotHalfSignedIn
<1>2. Mirrored' /\ Checking' /\ SignedOut' /\ SignedIn' /\ Passing'
  BY DEF Sound, Mirrored, Patient, Checking, Sought, SignedOut, SignedIn, Passing, Forgone
<1> QED
  BY <1>1, <1>2 DEF Sound

\* Somebody asks for a refresh.
LEMMA AskSound ==
    ASSUME IInv, NEW w \in Waiters, w # "mount", Ask(w),
           UNCHANGED <<native, mode, live, signedIn, forgetful, access, user, checked, stored,
                       persistent, mirror, writes, exchange, abandoned>>
    PROVE  Sound'
<1>1. /\ refresh'.waiting = refresh.waiting \cup {w}
      /\ refresh.pc = "none" =>
            /\ refresh'.with = stored
            /\ refresh'.pc = IF native /\ stored = NoSession THEN "mirror" ELSE "sent"
      /\ refresh.pc # "none" => refresh'.with = refresh.with /\ refresh'.pc = refresh.pc
  BY Joins DEF IInv, Sound, Ask
<1>2. InTurn => exchange = NoExchange
  BY DEF Ask
<1>3. refresh.pc = "none" => refresh.waiting = {}
  BY DEF IInv, Sound, Tidy, NoRefresh
<1>4. Patient => InTurn
  BY DEF Patient, InTurn
<1>5. Known' /\ Tidy'
  BY <1>1 DEF IInv, Sound, Known, Tidy
<1>6. Turns'
  BY <1>1, <1>2 DEF IInv, Sound, Turns, InTurn, NoExchange
<1>7. NotHalfSignedIn' /\ Passing'
  BY DEF IInv, Sound, NotHalfSignedIn, Passing, Patient
<1>8. Mirrored'
  BY <1>1 DEF IInv, Sound, Mirrored, Patient
<1>9. Patient /\ ~checked => refresh.pc # "none"
  BY <1>3 DEF IInv, Sound, Checking, Forgone
<1>10. Checking'
  BY <1>1, <1>9 DEF IInv, Sound, Checking, Sought, Patient, Forgone
<1>11. SignedOut' /\ SignedIn'
  BY <1>1 DEF IInv, Sound, SignedOut, SignedIn, Patient, Forgone
<1> QED
  BY <1>5, <1>6, <1>7, <1>8, <1>10, <1>11 DEF Sound

\* The preferences tell: what they have is what was looked for.
LEMMA ReadMirrorSound == ASSUME IInv, ReadMirror PROVE Sound'
<1>1. PICK found \in {mirror, NoSession} :
         /\ ~Shaky => found = mirror
         /\ stored' = IF found = NoSession THEN stored ELSE found
         /\ refresh' = [refresh EXCEPT !.with = found,
                                       !.pc = IF found = NoSession THEN "denied" ELSE "sent"]
  BY DEF ReadMirror
<1>2. /\ refresh.pc = "mirror" /\ native /\ refresh.with = NoSession
      /\ ~Shaky => writes = << >>
  BY DEF ReadMirror, IInv, Sound, Tidy
<1>3. UNCHANGED <<native, mode, live, signedIn, forgetful, access, user, checked,
                  persistent, mirror, writes, exchange, abandoned>>
  BY DEF ReadMirror, client, server
<1>4. /\ refresh'.with = found /\ refresh'.waiting = refresh.waiting
      /\ refresh'.pc = IF found = NoSession THEN "denied" ELSE "sent"
  BY <1>1 DEF IInv, TypeOK
<1>5. NoSession \notin live
  BY SessionAssumption DEF IInv, TypeOK
<1>6. Known'
  BY <1>1, <1>3, <1>4 DEF IInv, Sound, Known
<1>7. Tidy'
  BY <1>3, <1>4, <1>5 DEF IInv, Sound, Tidy
<1>8. InTurn => stored = NoSession /\ user = NoSession /\ stored' = found /\ exchange = NoExchange
  BY <1>1, <1>2 DEF IInv, Sound, Turns, NoRefresh
<1>9. Turns'
  BY <1>3, <1>4, <1>8 DEF IInv, Sound, Turns, InTurn
<1>10. NotHalfSignedIn' /\ Passing'
  BY <1>2, <1>3 DEF IInv, Sound, NotHalfSignedIn, Passing
<1>11. Patient => ~Shaky /\ InTurn
  BY DEF Patient, Shaky, InTurn
<1>12. Mirrored'
  BY <1>1, <1>2, <1>3, <1>8, <1>11 DEF IInv, Sound, Mirrored, Patient
<1>13. Checking'
  BY <1>1, <1>2, <1>3, <1>4, <1>11 DEF IInv, Sound, Checking, Sought, Patient, Forgone
<1>14. Patient /\ checked => found = NoSession
  BY <1>1, <1>2, <1>8, <1>11 DEF IInv, Sound, Mirrored
<1>15. SignedOut'
  BY <1>3, <1>4, <1>5, <1>8, <1>11, <1>14 DEF IInv, Sound, SignedOut, Patient, Forgone
<1>16. SignedIn'
  BY <1>3, <1>8, <1>11 DEF IInv, Sound, SignedIn, Patient, Forgone
<1> QED
  BY <1>6, <1>7, <1>9, <1>10, <1>12, <1>13, <1>15, <1>16 DEF Sound

\* A write reaches the preferences.
LEMMA WriteMirrorSound == ASSUME IInv, WriteMirror PROVE Sound'
<1>1. /\ writes # << >> /\ writes' = Tail(writes)
      /\ mirror' \in {Head(writes), mirror} /\ (~Shaky => mirror' = Head(writes))
      /\ UNCHANGED <<native, mode, live, signedIn, forgetful, access, user, checked, stored,
                     persistent, refresh, exchange, abandoned>>
  BY DEF WriteMirror, client, server
<1>2. /\ writes' # << >> => writes'[Len(writes')] = writes[Len(writes)]
      /\ writes' = << >> => Head(writes) = writes[Len(writes)]
      /\ \A X : (\A i \in 1..Len(writes) : writes[i] \in X) =>
            Head(writes) \in X /\ \A i \in 1..Len(writes') : writes'[i] \in X
  BY <1>1, Shifted DEF IInv, TypeOK
<1>3. Patient => ~Shaky
  BY DEF Patient, Shaky
<1>4. Known'
  <2> DEFINE X == signedIn \cup {NoSession}
  <2>1. \A i \in 1..Len(writes) : writes[i] \in X
    BY DEF IInv, Sound, Known
  <2>2. Head(writes) \in X /\ \A i \in 1..Len(writes') : writes'[i] \in X
    BY <1>2, <2>1
  <2> QED
    BY <1>1, <2>2 DEF IInv, Sound, Known
<1>5. Tidy' /\ NotHalfSignedIn' /\ Passing'
  BY <1>1 DEF IInv, Sound, Tidy, NotHalfSignedIn, Passing, Patient
<1>6. Turns'
  BY <1>1 DEF IInv, Sound, Turns, InTurn
<1>7. Mirrored'
  BY <1>1, <1>2, <1>3 DEF IInv, Sound, Mirrored, Patient
<1>8. Checking'
  BY <1>1 DEF IInv, Sound, Checking, Sought, Patient, Forgone
<1>9. SignedOut' /\ SignedIn'
  BY <1>1 DEF IInv, Sound, SignedOut, SignedIn, Patient, Forgone
<1> QED
  BY <1>4, <1>5, <1>6, <1>7, <1>8, <1>9 DEF Sound

LEMMA ServeRefreshSound == ASSUME IInv, ServeRefresh PROVE Sound'
<1>1. /\ refresh.pc = "sent" /\ refresh'.with = refresh.with /\ refresh'.waiting = refresh.waiting
      /\ refresh'.pc = IF refresh.with \in live THEN "granted" ELSE "denied"
      /\ UNCHANGED <<native, mode, live, signedIn, forgetful, access, user, checked, stored,
                     persistent, mirror, writes, exchange, abandoned>>
  BY DEF ServeRefresh, IInv, TypeOK, client, device, server
<1>2. NoSession \notin live
  BY SessionAssumption DEF IInv, TypeOK
<1>3. Known' /\ Tidy'
  BY <1>1, <1>2 DEF IInv, Sound, Known, Tidy
<1>4. InTurn => exchange = NoExchange
  BY <1>1 DEF IInv, Sound, Turns, NoRefresh
<1>5. Turns'
  BY <1>1, <1>4 DEF IInv, Sound, Turns, InTurn
<1>6. NotHalfSignedIn' /\ Passing' /\ Mirrored'
  BY <1>1 DEF IInv, Sound, NotHalfSignedIn, Passing, Patient, Mirrored
<1>7. Checking'
  BY <1>1 DEF IInv, Sound, Checking, Sought, Patient, Forgone
<1>8. SignedOut' /\ SignedIn'
  BY <1>1, <1>4 DEF IInv, Sound, SignedOut, SignedIn, Patient, InTurn, Forgone
<1> QED
  BY <1>3, <1>5, <1>6, <1>7, <1>8 DEF Sound

\* What is stored once a refresh has been granted is the session it was granted for.
LEMMA GrantedSound == ASSUME IInv, Granted PROVE Sound'
<1> DEFINE s == refresh.with
<1>1. /\ refresh.pc = "granted" /\ access' = s /\ persistent' = TRUE /\ refresh' = NoRefresh
      /\ IF refresh.waiting \cap {"mount", "timer", "visible"} # {}
         THEN user' = s /\ abandoned' = abandoned \ {s}
         ELSE user' = user /\ abandoned' = abandoned
      /\ checked' = (checked \/ "mount" \in refresh.waiting)
      /\ UNCHANGED <<native, mode, live, signedIn, forgetful, exchange>>
  BY DEF Granted, server
<1>2. /\ s # NoSession /\ s \in Maybe /\ s \in signedIn \cup {NoSession}
  BY <1>1 DEF IInv, Sound, Tidy, Known, TypeOK
<1>3. /\ stored' = s /\ mirror' = mirror
      /\ native => writes' # << >> /\ writes'[Len(writes')] = s
      /\ \A X : s \in X /\ (\A i \in 1..Len(writes) : writes[i] \in X) =>
            \A i \in 1..Len(writes') : writes'[i] \in X
  BY <1>2, Keeps DEF Granted, IInv
<1>4. refresh'.pc = "none" /\ refresh'.with = NoSession /\ refresh'.waiting = {}
  BY <1>1 DEF NoRefresh
<1>5. Known'
  <2> DEFINE X == signedIn \cup {NoSession}
  <2>1. \A i \in 1..Len(writes) : writes[i] \in X
    BY DEF IInv, Sound, Known
  <2>2. \A i \in 1..Len(writes') : writes'[i] \in X
    BY <1>2, <1>3, <2>1
  <2> QED
    BY <1>1, <1>2, <1>3, <1>4, <2>2 DEF IInv, Sound, Known
<1>6. Tidy'
  BY <1>1, <1>4 DEF IInv, Sound, Tidy
<1>7. InTurn => exchange = NoExchange /\ (user # NoSession => user = s)
  BY <1>1, <1>2 DEF IInv, Sound, Turns, NoRefresh
<1>8. user' # NoSession => access' # NoSession
  BY <1>1, <1>2
<1>9. Turns'
  BY <1>1, <1>3, <1>4, <1>7 DEF Turns, InTurn, NoExchange
<1>10. Mirrored' /\ Passing'
  BY <1>1, <1>3 DEF Mirrored, Passing
<1>11. Patient => InTurn /\ (~checked => "mount" \in refresh.waiting)
  BY DEF IInv, Sound, Checking, Patient, InTurn, Forgone
<1>12. Checking'
  BY <1>1, <1>11 DEF Checking, Patient, Forgone
<1>13. Patient /\ user' = NoSession => s \in abandoned /\ abandoned' = abandoned
  <2>1. CASE Patient /\ ~checked
    BY <1>1, <1>2, <1>11, <2>1
  <2>2. CASE Patient /\ checked /\ user = NoSession
    BY <1>1, <1>2, <2>2 DEF IInv, Sound, SignedOut
  <2>3. CASE Patient /\ user # NoSession
    BY <1>1, <1>2, <2>3
  <2> QED
    BY <2>1, <2>2, <2>3
<1>14. Patient => live \subseteq Forgone \cup {s}
  <2>1. CASE Patient /\ ~checked
    BY <1>1, <2>1 DEF IInv, Sound, Checking, Sought
  <2>2. CASE Patient /\ checked /\ user = NoSession
    <3>1. exchange.with = NoSession /\ NoSession \notin live
      BY <1>7, <1>11, <2>2, SessionAssumption DEF NoExchange, IInv, TypeOK
    <3> QED
      BY <2>2, <3>1 DEF IInv, Sound, SignedOut
  <2>3. CASE Patient /\ user # NoSession
    BY <1>7, <1>11, <2>3 DEF IInv, Sound, SignedIn
  <2> QED
    BY <2>1, <2>2, <2>3
<1>15. SignedOut'
  <2> SUFFICES ASSUME Patient, user' = NoSession PROVE SignedOut'
    BY <1>1 DEF SignedOut, Patient
  <2>1. /\ access' \in abandoned' /\ stored' \in abandoned' /\ live \subseteq Forgone'
    BY <1>1, <1>3, <1>13, <1>14 DEF Forgone
  <2>2. refresh'.with \notin live'
    BY <1>1, <1>4, SessionAssumption DEF IInv, TypeOK
  <2> QED
    BY <1>1, <1>4, <2>1, <2>2 DEF SignedOut
<1>16. SignedIn'
  <2> SUFFICES ASSUME Patient, user' # NoSession PROVE SignedIn'
    BY <1>1 DEF SignedIn, Patient
  <2>1. user' = s /\ exchange' = NoExchange
    BY <1>1, <1>7, <1>11
  <2>2. live' \subseteq Forgone' \cup {user'}
    BY <1>1, <1>14, <2>1 DEF Forgone
  <2> QED
    BY <1>3, <2>1, <2>2 DEF SignedIn, NoExchange
<1> QED
  BY <1>5, <1>6, <1>8, <1>9, <1>10, <1>12, <1>15, <1>16 DEF Sound, NotHalfSignedIn

\* A refresh that failed: refused, then the session it was for is dead, or by a hiccup,
\* which a patient behaviour does not have.
LEMMA DisappointedSound ==
    ASSUME IInv, NEW denied \in BOOLEAN, NEW cleared \in BOOLEAN, Disappointed(denied, cleared),
           IF denied THEN refresh.pc = "denied" /\ (cleared <=> refresh.with # NoSession)
                      ELSE Shaky /\ refresh.pc \in {"sent", "granted"}
    PROVE  Sound'
<1>1. /\ refresh' = NoRefresh /\ checked' = (checked \/ "mount" \in refresh.waiting)
      /\ UNCHANGED <<native, mode, persistent, live, signedIn, forgetful, exchange, abandoned>>
  BY DEF Disappointed, server
<1>2. refresh'.pc = "none" /\ refresh'.with = NoSession /\ refresh'.waiting = {}
  BY <1>1 DEF NoRefresh
<1>3. \/ access' = NoSession /\ user' = NoSession
      \/ UNCHANGED <<access, user>> /\ "mount" \notin refresh.waiting
  BY DEF Disappointed
<1>4. NoSession \in Maybe /\ NoSession \notin live
  BY SessionAssumption DEF Maybe, IInv, TypeOK
<1>5. \/ /\ Keep(NoSession) /\ native /\ denied /\ user' = NoSession
      \/ /\ stored' = IF cleared /\ ~native THEN NoSession ELSE stored
         /\ UNCHANGED <<mirror, writes>>
  BY DEF Disappointed
<1>6. ASSUME Keep(NoSession)
      PROVE  /\ stored' = NoSession /\ mirror' = mirror
             /\ native => writes' # << >> /\ writes'[Len(writes')] = NoSession
             /\ \A X : NoSession \in X /\ (\A i \in 1..Len(writes) : writes[i] \in X) =>
                   \A i \in 1..Len(writes') : writes'[i] \in X
  BY <1>4, <1>6, Keeps DEF IInv
<1>7. Known'
  <2> DEFINE X == signedIn \cup {NoSession}
  <2>1. \A i \in 1..Len(writes) : writes[i] \in X
    BY DEF IInv, Sound, Known
  <2>2. (\A i \in 1..Len(writes') : writes'[i] \in X) /\ mirror' = mirror /\ stored' \in {stored, NoSession}
    BY <1>5, <1>6, <2>1
  <2> QED
    BY <1>1, <1>2, <1>3, <2>2 DEF IInv, Sound, Known
<1>8. Tidy' /\ NotHalfSignedIn'
  BY <1>1, <1>2, <1>3 DEF IInv, Sound, Tidy, NotHalfSignedIn
<1>9. stored' \in {stored, NoSession} /\ (native => stored' = stored \/ user' = NoSession)
  BY <1>5, <1>6
<1>10. InTurn => /\ exchange = NoExchange
                 /\ refresh.with = stored \/ (stored = NoSession /\ user = NoSession)
  BY DEF IInv, Sound, Turns, NoRefresh
<1>11. Turns'
  BY <1>1, <1>2, <1>3, <1>9, <1>10 DEF IInv, Sound, Turns, InTurn, NoExchange
<1>12. refresh.pc # "mirror"
  OBVIOUS
<1>13. Mirrored'
  BY <1>1, <1>5, <1>6, <1>12 DEF IInv, Sound, Mirrored, Patient
<1>14. Patient => /\ denied /\ InTurn /\ checked' /\ refresh.pc = "denied"
                  /\ refresh.with \notin live /\ stored \notin live
                  /\ exchange.with = NoSession /\ exchange.op = "none"
  <2> SUFFICES ASSUME Patient
               PROVE  /\ denied /\ InTurn /\ checked' /\ refresh.pc = "denied"
                      /\ refresh.with \notin live /\ stored \notin live
                      /\ exchange.with = NoSession /\ exchange.op = "none"
    OBVIOUS
  <2>1. denied /\ InTurn /\ refresh.pc = "denied"
    BY DEF Patient, InTurn, Shaky
  <2>2. refresh.with \notin live
    BY <2>1 DEF IInv, Sound, Tidy
  <2>3. stored \notin live /\ exchange = NoExchange
    BY <1>4, <1>10, <2>1, <2>2
  <2>4. checked'
    BY <1>1 DEF IInv, Sound, Checking
  <2> QED
    BY <2>1, <2>2, <2>3, <2>4 DEF NoExchange
<1>15. Patient /\ ~checked => live \subseteq Forgone
  BY <1>10, <1>14 DEF IInv, Sound, Checking, Sought, Forgone
<1>16. Patient /\ user # NoSession => user \notin live /\ live \subseteq Forgone
  BY <1>14 DEF IInv, Sound, SignedIn, Forgone
<1>17. Patient /\ checked /\ user = NoSession => live \subseteq Forgone
  BY <1>4, <1>14 DEF IInv, Sound, SignedOut, TypeOK, Forgone
<1>18. Patient /\ user' = NoSession => access' \in abandoned \cup {NoSession}
  BY <1>3 DEF IInv, Sound, Checking, SignedOut, Forgone
<1>19. Checking'
  BY <1>1, <1>14 DEF Checking, Patient, Forgone
<1>20. SignedOut'
  BY <1>1, <1>2, <1>4, <1>9, <1>14, <1>15, <1>16, <1>17, <1>18 DEF SignedOut, Patient, Forgone
<1>21. SignedIn'
  BY <1>1, <1>3, <1>14, <1>16 DEF SignedIn, Patient, Forgone
<1>22. Passing'
  BY <1>1, <1>9 DEF IInv, Sound, Passing, Patient
<1> QED
  BY <1>7, <1>8, <1>11, <1>13, <1>19, <1>20, <1>21, <1>22 DEF Sound

-----------------------------------------------------------------------------
(* Soundness: signing in and out, and what happens around the client. *)

LEMMA BeginSound ==
    ASSUME IInv, NEW op \in {"login", "logout"}, NEW with \in Maybe, Begin(op, with),
           with \in signedIn \cup {NoSession},
           op = "login" => user = NoSession /\ with = NoSession,
           op = "logout" => user # NoSession /\ (InTurn => with = stored)
    PROVE  Sound'
<1>1. /\ exchange = NoExchange /\ (InTurn => refresh = NoRefresh)
      /\ exchange'.op = op /\ exchange'.with = with /\ exchange'.served = FALSE
      /\ UNCHANGED <<native, mode, live, signedIn, forgetful, access, user, checked, stored,
                     persistent, mirror, writes, refresh, abandoned>>
  BY DEF Begin, client, device, server
<1>2. Known' /\ Tidy'
  BY <1>1 DEF IInv, Sound, Known, Tidy
<1>3. Turns'
  BY <1>1 DEF IInv, Sound, Turns, InTurn
<1>4. NotHalfSignedIn' /\ Passing' /\ Mirrored'
  BY <1>1 DEF IInv, Sound, NotHalfSignedIn, Passing, Patient, Mirrored
<1>5. Checking'
  BY <1>1 DEF IInv, Sound, Checking, Sought, Patient, Forgone
<1>6. SignedOut' /\ SignedIn'
  BY <1>1 DEF IInv, Sound, SignedOut, SignedIn, Patient, InTurn, NoExchange, Forgone
<1> QED
  BY <1>2, <1>3, <1>4, <1>5, <1>6 DEF Sound

LEMMA LoginSound == ASSUME IInv, Login PROVE Sound'
BY BeginSound DEF Login, Maybe

LEMMA LogoutSound == ASSUME IInv, Logout PROVE Sound'
<1> DEFINE with == IF native /\ stored = NoSession THEN mirror ELSE stored
<1>1. user # NoSession /\ Begin("logout", with)
  BY DEF Logout
<1>2. with \in Maybe /\ with \in signedIn \cup {NoSession}
  BY DEF IInv, TypeOK, Sound, Known
<1>3. InTurn => with = stored
  BY <1>1 DEF IInv, Sound, Turns
<1> HIDE DEF with
<1> QED
  BY <1>1, <1>2, <1>3, BeginSound

\* A session that nobody has heard of.
LEMMA ServeLoginSound == ASSUME IInv, ServeLogin PROVE Sound'
<1> DEFINE s == CHOOSE s \in Sessions \ signedIn : TRUE
<1>1. s \in Sessions \ signedIn
  BY FreshSession DEF IInv, ServeLogin
<1>2. /\ exchange.op = "login" /\ signedIn' = signedIn \cup {s} /\ live' = live \cup {s}
      /\ forgetful' \in {forgetful, forgetful \cup {s}}
      /\ exchange' = [exchange EXCEPT !.with = s, !.served = TRUE]
  BY DEF ServeLogin
<1> HIDE DEF s
<1>3. UNCHANGED <<native, mode, access, user, checked, stored, persistent, mirror, writes, refresh, abandoned>>
  BY DEF ServeLogin, client, device
<1>4. exchange'.op = "login" /\ exchange'.with = s /\ exchange'.served = TRUE
  BY <1>2 DEF IInv, TypeOK
<1>5. s # NoSession /\ s \notin signedIn
  BY <1>1, SessionAssumption
<1>6. Known'
  BY <1>2, <1>3, <1>4 DEF IInv, Sound, Known
<1>7. Tidy'
  BY <1>2, <1>3, <1>4, <1>5 DEF IInv, Sound, Tidy, Known
<1>8. Turns'
  BY <1>2, <1>3, <1>4 DEF IInv, Sound, Turns, InTurn, NoExchange
<1>9. NotHalfSignedIn' /\ Mirrored'
  BY <1>3 DEF IInv, Sound, NotHalfSignedIn, Mirrored, Patient
<1>10. Passing'
  BY <1>2, <1>3 DEF IInv, Sound, Passing, Patient
<1>11. Patient => user = NoSession /\ refresh = NoRefresh
  BY <1>2 DEF IInv, Sound, Turns, Patient, InTurn, NoExchange
<1>12. Patient => checked
  BY <1>11 DEF IInv, Sound, Checking, NoRefresh, Forgone
<1>13. Checking' /\ SignedIn'
  BY <1>3, <1>11, <1>12 DEF Checking, SignedIn, Patient, Forgone
<1>14. SignedOut'
  <2> SUFFICES ASSUME Patient PROVE SignedOut'
    BY <1>3 DEF SignedOut, Patient, Forgone
  <2>1. /\ access \in abandoned \cup {NoSession} /\ (stored \in live => stored \in abandoned)
        /\ live \subseteq Forgone \cup {exchange.with}
    BY <1>11, <1>12 DEF IInv, Sound, SignedOut, Forgone
  <2>2. exchange.with = NoSession /\ NoSession \notin live
    BY SessionAssumption DEF ServeLogin, IInv, Sound, Tidy, TypeOK
  <2>3. stored # s
    BY <1>5 DEF IInv, Sound, Known
  <2>4. live' \subseteq Forgone' \cup {s} /\ (stored' \in live' => stored' \in abandoned')
    BY <1>2, <1>3, <2>1, <2>2, <2>3 DEF Forgone
  <2>5. refresh'.pc = "none" /\ refresh'.with = NoSession /\ NoSession \notin live'
    BY <1>2, <1>3, <1>5, <1>11, <2>2 DEF NoRefresh
  <2> QED
    BY <1>3, <1>4, <2>1, <2>4, <2>5 DEF SignedOut, Patient, Forgone
<1> QED
  BY <1>6, <1>7, <1>8, <1>9, <1>10, <1>13, <1>14 DEF Sound

LEMMA LoggedInSound == ASSUME IInv, LoggedIn PROVE Sound'
<1> DEFINE s == exchange.with
<1>1. /\ exchange.op = "login" /\ exchange.served
      /\ access' = s /\ user' = s /\ persistent' = (s \notin forgetful) /\ exchange' = NoExchange
      /\ UNCHANGED <<native, mode, live, signedIn, forgetful, checked, refresh, abandoned>>
  BY DEF LoggedIn, server
<1>2. s # NoSession /\ s \in Maybe /\ s \in signedIn \cup {NoSession}
  BY <1>1 DEF IInv, Sound, Tidy, Known, TypeOK
<1>3. /\ stored' = s /\ mirror' = mirror
      /\ native => writes' # << >> /\ writes'[Len(writes')] = s
      /\ \A X : s \in X /\ (\A i \in 1..Len(writes) : writes[i] \in X) =>
            \A i \in 1..Len(writes') : writes'[i] \in X
  BY <1>2, Keeps DEF LoggedIn, IInv
<1>4. exchange'.op = "none" /\ exchange'.with = NoSession
  BY <1>1 DEF NoExchange
<1>5. Known'
  <2> DEFINE X == signedIn \cup {NoSession}
  <2>1. \A i \in 1..Len(writes) : writes[i] \in X
    BY DEF IInv, Sound, Known
  <2>2. \A i \in 1..Len(writes') : writes'[i] \in X
    BY <1>2, <1>3, <2>1
  <2> QED
    BY <1>1, <1>2, <1>3, <1>4, <2>2 DEF IInv, Sound, Known
<1>6. Tidy' /\ NotHalfSignedIn'
  BY <1>1, <1>4 DEF IInv, Sound, Tidy, NotHalfSignedIn
<1>7. InTurn => refresh = NoRefresh /\ user = NoSession
  BY <1>1 DEF IInv, Sound, Turns, NoExchange
<1>8. Turns'
  BY <1>1, <1>2, <1>3, <1>4, <1>7 DEF Turns, InTurn, NoRefresh
<1>9. Mirrored' /\ Passing'
  BY <1>1, <1>3 DEF Mirrored, Passing
<1>10. Patient => InTurn
  BY DEF Patient, InTurn
<1>11. Patient => checked
  BY <1>7, <1>10 DEF IInv, Sound, Checking, NoRefresh, Forgone
<1>12. Patient => live \subseteq Forgone \cup {s}
  BY <1>7, <1>10, <1>11 DEF IInv, Sound, SignedOut, Forgone
<1>13. Checking' /\ SignedOut' /\ SignedIn'
  BY <1>1, <1>2, <1>3, <1>4, <1>11, <1>12 DEF Checking, SignedOut, SignedIn, Patient, Forgone
<1> QED
  BY <1>5, <1>6, <1>8, <1>9, <1>13 DEF Sound

LEMMA LoginFailsSound == ASSUME IInv, LoginFails PROVE Sound'
<1>1. /\ exchange.op = "login" /\ exchange.with = NoSession
      /\ exchange' = NoExchange /\ exchange'.op = "none" /\ exchange'.with = NoSession
      /\ UNCHANGED <<native, mode, live, signedIn, forgetful, access, user, checked, stored,
                     persistent, mirror, writes, refresh, abandoned>>
  BY DEF LoginFails, NoExchange, client, device, server, IInv, Sound, Tidy
<1>2. Known' /\ Tidy'
  BY <1>1 DEF IInv, Sound, Known, Tidy
<1>3. Turns'
  BY <1>1 DEF IInv, Sound, Turns, InTurn
<1>4. NotHalfSignedIn' /\ Passing' /\ Mirrored'
  BY <1>1 DEF IInv, Sound, NotHalfSignedIn, Passing, Patient, Mirrored
<1>5. Checking'
  BY <1>1 DEF IInv, Sound, Checking, Sought, Patient, Forgone
<1>6. SignedOut' /\ SignedIn'
  BY <1>1 DEF IInv, Sound, SignedOut, SignedIn, Patient, Forgone
<1> QED
  BY <1>2, <1>3, <1>4, <1>5, <1>6 DEF Sound

\* The server ends sessions, asked to or not.
LEMMA EndsSound ==
    ASSUME IInv, live' \subseteq live,
           UNCHANGED <<native, mode, signedIn, forgetful, access, user, checked, stored,
                       persistent, mirror, writes, refresh, abandoned>>,
           UNCHANGED exchange
           \/ /\ exchange' = [exchange EXCEPT !.served = TRUE] /\ exchange.op = "logout"
              /\ live' = live \ {exchange.with}
    PROVE  Sound'
<1>1. /\ exchange'.op = exchange.op /\ exchange'.with = exchange.with
      /\ \/ exchange' = exchange
         \/ exchange.op = "logout" /\ live' = live \ {exchange.with}
  BY DEF IInv, TypeOK
<1>2. exchange = NoExchange => exchange' = exchange
  BY DEF NoExchange
<1>3. Known' /\ Tidy'
  BY <1>1 DEF IInv, Sound, Known, Tidy
<1>4. Turns'
  BY <1>1, <1>2 DEF IInv, Sound, Turns, InTurn
<1>5. NotHalfSignedIn' /\ Passing' /\ Mirrored'
  BY DEF IInv, Sound, NotHalfSignedIn, Passing, Patient, Mirrored
<1>6. Checking'
  BY DEF IInv, Sound, Checking, Sought, Patient, Forgone
<1>7. SignedOut' /\ SignedIn'
  BY <1>1 DEF IInv, Sound, SignedOut, SignedIn, Patient, Forgone
<1> QED
  BY <1>3, <1>4, <1>5, <1>6, <1>7 DEF Sound

LEMMA LoggedOutSound == ASSUME IInv, LoggedOut PROVE Sound'
<1>1. /\ exchange.op = "logout" /\ (exchange.served \/ Shaky)
      /\ access' = NoSession /\ user' = NoSession /\ exchange' = NoExchange
      /\ UNCHANGED <<native, mode, live, signedIn, forgetful, checked, persistent, refresh,
                     abandoned>>
  BY DEF LoggedOut, server
<1>2. \/ Keep(NoSession)
      \/ Shaky /\ ~native /\ UNCHANGED <<stored, mirror, writes>>
  BY DEF LoggedOut
<1>3. NoSession \in Maybe /\ NoSession \notin live
  BY SessionAssumption DEF Maybe, IInv, TypeOK
<1>4. ASSUME Keep(NoSession)
      PROVE  /\ stored' = NoSession /\ mirror' = mirror
             /\ native => writes' # << >> /\ writes'[Len(writes')] = NoSession
             /\ \A X : NoSession \in X /\ (\A i \in 1..Len(writes) : writes[i] \in X) =>
                   \A i \in 1..Len(writes') : writes'[i] \in X
  BY <1>3, <1>4, Keeps DEF IInv
<1>5. exchange'.op = "none" /\ exchange'.with = NoSession
  BY <1>1 DEF NoExchange
<1>6. Known'
  <2> DEFINE X == signedIn \cup {NoSession}
  <2>1. \A i \in 1..Len(writes) : writes[i] \in X
    BY DEF IInv, Sound, Known
  <2>2. (\A i \in 1..Len(writes') : writes'[i] \in X) /\ mirror' = mirror /\ stored' \in {stored, NoSession}
    BY <1>2, <1>4, <2>1
  <2> QED
    BY <1>1, <1>5, <2>2 DEF IInv, Sound, Known
<1>7. Tidy' /\ NotHalfSignedIn'
  BY <1>1, <1>5 DEF IInv, Sound, Tidy, NotHalfSignedIn
<1>8. InTurn => refresh = NoRefresh
  BY <1>1 DEF IInv, Sound, Turns, NoExchange
<1>9. Turns'
  BY <1>1, <1>5, <1>8 DEF Turns, InTurn, NoRefresh
<1>10. Patient => InTurn /\ ~Shaky /\ Keep(NoSession) /\ exchange.served
  BY <1>1, <1>2 DEF Patient, InTurn, Shaky
<1>11. Mirrored' /\ Passing'
  BY <1>1, <1>4, <1>10 DEF Mirrored, Passing, Patient
<1>12. Patient => checked
  BY <1>1, <1>8, <1>10 DEF IInv, Sound, Checking, SignedOut, NoRefresh, Forgone
<1>13. Patient => live \subseteq Forgone
  <2>1. exchange.served => exchange.with \notin live
    BY <1>1 DEF IInv, Sound, Tidy
  <2>2. CASE user = NoSession
    BY <1>10, <1>12, <2>1, <2>2 DEF IInv, Sound, SignedOut
  <2>3. CASE user # NoSession
    BY <1>1, <1>10, <2>3 DEF IInv, Sound, SignedIn
  <2> QED
    BY <2>2, <2>3
<1>14. Checking' /\ SignedIn'
  BY <1>1, <1>12 DEF Checking, SignedIn, Patient, Forgone
<1>15. SignedOut'
  BY <1>1, <1>3, <1>4, <1>5, <1>8, <1>10, <1>13 DEF SignedOut, Patient, NoRefresh, Forgone
<1> QED
  BY <1>6, <1>7, <1>9, <1>11, <1>14, <1>15 DEF Sound

\* The agent is closed and opened: it looks for the session that it had.
LEMMA ReopenSound == ASSUME IInv, Reopen PROVE Sound'
<1>1. /\ access' = NoSession /\ user' = NoSession /\ checked' = FALSE /\ writes' = << >>
      /\ exchange' = NoExchange /\ exchange'.op = "none" /\ exchange'.with = NoSession
      /\ UNCHANGED <<native, mode, persistent, mirror, live, signedIn, forgetful, abandoned>>
  BY DEF Reopen, NoExchange, server
<1>2. stored' \in {stored, NoSession}
  BY DEF Reopen
<1>3. /\ refresh'.pc = IF native /\ stored' = NoSession THEN "mirror" ELSE "sent"
      /\ refresh'.with = stored' /\ refresh'.waiting = {"mount"}
  BY DEF Reopen, Launched, Asked
<1>4. Known'
  <2>1. \A i \in 1..Len(writes') : writes'[i] \in signedIn \cup {NoSession}
    BY <1>1, EmptySeq
  <2> QED
    BY <1>1, <1>2, <1>3, <2>1 DEF IInv, Sound, Known
<1>5. Tidy' /\ NotHalfSignedIn'
  BY <1>1, <1>3 DEF Tidy, NotHalfSignedIn
<1>6. Turns'
  BY <1>1, <1>3 DEF Turns, InTurn
<1>7. Patient => refresh = NoRefresh /\ exchange = NoExchange /\ writes = << >>
  BY DEF Reopen, Patient, Shaky, Quiet
<1>8. Patient => checked
  BY <1>7 DEF IInv, Sound, Checking, NoRefresh, Forgone
<1>9. Patient /\ native => mirror = stored
  BY <1>7, <1>8 DEF IInv, Sound, Mirrored
<1>10. Mirrored'
  BY <1>1, <1>2, <1>3, <1>9 DEF Mirrored, Patient
<1>11. Patient => live \subseteq Forgone \cup {stored}
  <2>1. NoSession \notin live
    BY SessionAssumption DEF IInv, TypeOK
  <2>2. CASE Patient /\ user = NoSession
    BY <1>7, <1>8, <2>1, <2>2 DEF IInv, Sound, SignedOut, NoExchange, Forgone
  <2>3. CASE Patient /\ user # NoSession
    BY <2>3 DEF IInv, Sound, SignedIn, Forgone
  <2> QED
    BY <2>2, <2>3
<1>12. Patient => live \subseteq Forgone \cup {Sought'}
  <2>1. CASE native
    BY <1>1, <1>2, <1>3, <1>9, <1>11, <2>1 DEF Sought
  <2>2. CASE ~native /\ persistent
    BY <1>3, <1>11, <2>2 DEF Sought, Reopen
  <2>3. CASE ~native /\ ~persistent
    <3>1. Patient => stored \in forgetful \cup {NoSession}
      BY <2>3 DEF IInv, Sound, Passing
    <3>2. NoSession \notin live
      BY SessionAssumption DEF IInv, TypeOK
    <3> QED
      BY <1>11, <3>1, <3>2 DEF Forgone
  <2> QED
    BY <2>1, <2>2, <2>3
<1>13. Checking'
  BY <1>1, <1>3, <1>12 DEF Checking, Patient, Forgone
<1>14. SignedOut' /\ SignedIn'
  BY <1>1 DEF SignedOut, SignedIn, Forgone
<1>15. Passing'
  BY <1>1, <1>2 DEF IInv, Sound, Passing, Patient
<1> QED
  BY <1>4, <1>5, <1>6, <1>10, <1>13, <1>14, <1>15 DEF Sound

\* The page's answer to a call that was sent again costs the session: the app forgets
\* its token, and what is still live of it is on record.
LEMMA GivenUpSound == ASSUME IInv, NEW c \in Calls, GivenUp(c) PROVE Sound'
<1>1. /\ access' = NoSession /\ user' = NoSession
      /\ abandoned' = IF Patient THEN (abandoned \cup {user}) \ {NoSession} ELSE abandoned
      /\ UNCHANGED <<native, mode, checked, persistent, live, signedIn, forgetful, refresh, exchange>>
  BY DEF GivenUp, server
<1>2. IF native THEN Keep(NoSession) ELSE UNCHANGED <<stored, mirror, writes>>
  BY DEF GivenUp
<1>3. NoSession \in Maybe /\ NoSession \notin live
  BY SessionAssumption DEF Maybe, IInv, TypeOK
<1>4. native => /\ stored' = NoSession /\ mirror' = mirror
                /\ writes' # << >> /\ writes'[Len(writes')] = NoSession
                /\ \A X : NoSession \in X /\ (\A i \in 1..Len(writes) : writes[i] \in X) =>
                      \A i \in 1..Len(writes') : writes'[i] \in X
  BY <1>2, <1>3, Keeps DEF IInv
<1>5. Known'
  <2> DEFINE X == signedIn \cup {NoSession}
  <2>1. \A i \in 1..Len(writes) : writes[i] \in X
    BY DEF IInv, Sound, Known
  <2>2. /\ \A i \in 1..Len(writes') : writes'[i] \in X
        /\ mirror' = mirror /\ stored' \in {stored, NoSession}
    BY <1>2, <1>4, <2>1
  <2> QED
    BY <1>1, <2>2 DEF IInv, Sound, Known
<1>6. Tidy' /\ NotHalfSignedIn'
  BY <1>1 DEF IInv, Sound, Tidy, NotHalfSignedIn
<1>7. native => stored' = NoSession /\ (InTurn => stored \in {user, NoSession} \/ user = NoSession)
  BY <1>4 DEF IInv, Sound, Turns
<1>8. ~native => stored' = stored
  BY <1>2
<1>9. Turns'
  BY <1>1, <1>7, <1>8 DEF IInv, Sound, Turns, InTurn
<1>10. checked \/ ~Patient
  BY DEF GivenUp, IInv, Opened, Sound, Checking
<1>11. Mirrored'
  BY <1>1, <1>4 DEF Mirrored, Patient
<1>12. Passing'
  BY <1>1, <1>7, <1>8 DEF IInv, Sound, Passing, Patient
<1>13. Checking' /\ SignedIn'
  BY <1>1, <1>10 DEF Checking, SignedIn, Patient
<1>14. SignedOut'
  <2> SUFFICES ASSUME Patient, checked PROVE SignedOut'
    BY <1>1 DEF SignedOut, Patient
  <2>1. abandoned \subseteq abandoned' /\ user \in abandoned' \cup {NoSession}
    BY <1>1, SessionAssumption DEF IInv, TypeOK
  <2>2. stored' \in {stored, NoSession}
    BY <1>7, <1>8
  <2>3. InTurn
    BY DEF Patient, InTurn
  <2>4. CASE user = NoSession
    BY <1>1, <1>3, <2>1, <2>2, <2>4 DEF IInv, Sound, SignedOut, Forgone
  <2>5. CASE user # NoSession
    <3>1. stored \in {user, NoSession} /\ refresh.with \in {stored, NoSession}
      BY <2>3, <2>5 DEF IInv, Sound, Turns, Tidy, NoRefresh
    <3>2. refresh.pc = "granted" => refresh.with \in abandoned'
      BY <2>1, <2>5, <3>1 DEF IInv, Sound, Tidy
    <3>3. live' \subseteq Forgone' \cup {exchange'.with}
      BY <1>1, <2>1, <2>5 DEF IInv, Sound, SignedIn, Forgone
    <3> QED
      BY <1>1, <1>3, <2>1, <2>2, <2>5, <3>1, <3>2, <3>3 DEF SignedOut
  <2> QED
    BY <2>4, <2>5
<1> QED
  BY <1>5, <1>6, <1>9, <1>11, <1>12, <1>13, <1>14 DEF Sound

\* A call is sent again when a refresh has been granted, and with that the first check
\* is over.
LEMMA OpenedStep == ASSUME IInv, [Next]_vars PROVE Opened'
<1> USE DEF IInv, TypeOK, Opened
<1>1. ASSUME NEW w \in Waiters, w # "mount", Ask(w),
             \A c \in Calls : call'[c].pc = "resent" => call[c].pc = "resent"
      PROVE  Opened'
  <2>1. refresh'.waiting = refresh.waiting \cup {w}
    BY <1>1, Joins DEF Ask, Sound
  <2> QED
    BY <1>1, <2>1
<1>2. CASE TimerFires \/ BecomesVisible
  BY <1>1, <1>2, Names DEF TimerFires, BecomesVisible, Waiters
<1>3. CASE ReadMirror \/ ServeRefresh
  BY <1>3 DEF ReadMirror, ServeRefresh
<1>4. CASE Granted \/ Denied \/ Stumbled
  BY <1>4 DEF Granted, Denied, Stumbled, Disappointed, NoRefresh
<1>5. CASE Reopen
  BY <1>5 DEF Reopen, NoCall
<1>6. ASSUME NEW c \in Calls, Send(c) \/ Answered(c) \/ GivenUp(c) PROVE Opened'
  BY <1>6 DEF Send, Answered, GivenUp, NoCall
<1>7. ASSUME NEW c \in Calls, Refused(c) PROVE Opened'
  BY <1>1, <1>7, Names DEF Refused, Waiters
<1>8. CASE UNCHANGED <<refresh, call>>
  BY <1>8
<1> QED
  BY <1>2, <1>3, <1>4, <1>5, <1>6, <1>7, <1>8
  DEF Next, Asks, Answers, Exchanges, RetryFires, ServeLogin, LoggedIn, LoginFails, ServeLogout,
      LoggedOut, WriteMirror, Expires, Login, Logout, Begin, EndsAtServer, vars

LEMMA InvStep == IInv /\ [Next]_vars => IInv'
<1> SUFFICES ASSUME IInv, [Next]_vars PROVE Sound'
  BY TypeStep, OpenedStep DEF IInv, Sound
<1>1. CASE TimerFires
  BY <1>1, AskSound, Names DEF TimerFires, Waiters, device, server
<1>2. CASE RetryFires
  BY <1>2, SameSound DEF RetryFires, IInv, device, server
<1>3. CASE BecomesVisible
  BY <1>3, AskSound, Names DEF BecomesVisible, Waiters, client, device, server
<1>4. CASE ReadMirror
  BY <1>4, ReadMirrorSound
<1>5. CASE ServeRefresh
  BY <1>5, ServeRefreshSound
<1>6. CASE Granted
  BY <1>6, GrantedSound
<1>7. CASE Denied
  BY <1>7, DisappointedSound DEF Denied
<1>8. CASE Stumbled
  BY <1>8, DisappointedSound DEF Stumbled
<1>9. CASE ServeLogin
  BY <1>9, ServeLoginSound
<1>10. CASE LoggedIn
  BY <1>10, LoggedInSound
<1>11. CASE LoginFails
  BY <1>11, LoginFailsSound
<1>12. CASE ServeLogout
  BY <1>12, EndsSound DEF ServeLogout, client, device
<1>13. CASE LoggedOut
  BY <1>13, LoggedOutSound
<1>14. CASE WriteMirror
  BY <1>14, WriteMirrorSound
<1>15. CASE Expires
  BY <1>15, SameSound DEF Expires, IInv, device, server
<1>16. CASE Login
  BY <1>16, LoginSound
<1>17. CASE Logout
  BY <1>17, LogoutSound
<1>18. CASE EndsAtServer
  <2>1. live' \subseteq live
    BY <1>18 DEF EndsAtServer
  <2> QED
    BY <1>18, <2>1, EndsSound DEF EndsAtServer, client, device
<1>19. CASE Reopen
  BY <1>19, ReopenSound
<1>20. ASSUME NEW c \in Calls, Send(c) \/ Answered(c) PROVE Sound'
  BY <1>20, SameSound DEF Send, Answered, IInv, client, device, server
<1>21. ASSUME NEW c \in Calls, Refused(c) PROVE Sound'
  BY <1>21, AskSound, Names DEF Refused, Waiters, client, device, server
<1>22. ASSUME NEW c \in Calls, GivenUp(c) PROVE Sound'
  BY <1>22, GivenUpSound
<1>23. CASE UNCHANGED vars
  BY <1>23, SameSound DEF vars, IInv, client, device, server
<1> QED
  BY <1>1, <1>2, <1>3, <1>4, <1>5, <1>6, <1>7, <1>8, <1>9, <1>10, <1>11, <1>12, <1>13, <1>14,
     <1>15, <1>16, <1>17, <1>18, <1>19, <1>20, <1>21, <1>22, <1>23
  DEF Next, Asks, Answers, Exchanges

LEMMA InvHolds == Spec => []IInv
BY InvInit, InvStep, PTL DEF Spec

-----------------------------------------------------------------------------
(* Theorems. *)

\* The state of the client and of its two stores keeps its types, whatever calls,
\* refreshes and bridge timeouts of client.ts and nativeSession.ts come in what order.
THEOREM TypeCorrect == Spec => []TypeOK
<1>1. IInv => TypeOK
  BY DEF IInv
<1> QED
  BY InvHolds, <1>1, PTL

\* The store, the access token of client.ts, the token that is kept and its copy on
\* the device agree on who is signed in (authStore.ts, nativeSession.ts).
THEOREM IdentityIsOne == Spec => []OneIdentity
<1> SUFFICES ASSUME IInv PROVE OneIdentity
  BY InvHolds, PTL
<1>1. TypeOK /\ NotHalfSignedIn
  BY DEF IInv, Sound
<1>2. SameIdentity
  BY DEF IInv, Sound, Turns, SameIdentity
<1>3. MirrorFollows
  BY DEF IInv, Sound, Mirrored, MirrorFollows
<1> QED
  BY <1>1, <1>2, <1>3 DEF OneIdentity

\* In a patient behaviour, where nothing fails or overlaps, signed out means out: neither
\* a token that is kept nor a remembered session is one that the server would still
\* refresh (clearSession, logout), but for the sessions that the client dropped by itself
\* for the answer to a call sent again (client.ts:201).
THEOREM SignedOutMeansOut == Spec => []SignedOutLeavesNothing
<1> SUFFICES ASSUME IInv PROVE SignedOutLeavesNothing
  BY InvHolds, PTL
<1> SUFFICES ASSUME Patient, Quiet, checked, user = NoSession
             PROVE  /\ access \in abandoned \cup {NoSession}
                    /\ stored \notin live \ abandoned
                    /\ live \subseteq forgetful \cup abandoned
  BY DEF SignedOutLeavesNothing
<1>1. exchange.with = NoSession /\ NoSession \notin live
  BY SessionAssumption DEF Quiet, NoExchange, IInv, TypeOK
<1> QED
  BY <1>1 DEF IInv, Sound, SignedOut, Forgone

\* As long as signing in and out takes turns with refreshing, a user who was signed in and
\* is not any more has signed out, closed the agent, lost the session at the server, lost
\* the cookie to a hiccup of the rotation, or had a call fail that was sent again
\* (client.ts).
THEOREM NobodySignedOutSilently == Spec => NoSilentSignOut
<1> DEFINE Reason == \/ exchange.op = "logout" \/ user \notin live \/ ~checked'
                     \/ ~native /\ refresh.with = NoSession
                     \/ \E c \in Calls : call[c].pc = "resent" /\ call'[c] = NoCall
           Explained == InTurn /\ user # NoSession /\ user' # user => Reason
<1>1. ASSUME IInv, [Next]_vars PROVE Explained
  <2> SUFFICES ASSUME InTurn, user # NoSession, user' # user PROVE Reason
    OBVIOUS
  <2>t. /\ refresh = NoRefresh \/ exchange = NoExchange
        /\ refresh.pc # "none" => refresh.with = stored
        /\ "mount" \notin refresh.waiting /\ exchange.op # "login"
        /\ stored \in {user, NoSession} /\ (native => stored = user)
    BY <1>1 DEF IInv, Sound, Turns
  <2>1. CASE Granted
    <3>1. refresh.pc = "granted" /\ refresh.with # NoSession /\ user' \in {refresh.with, user}
      BY <1>1, <2>1 DEF Granted, IInv, Sound, Tidy
    <3> QED
      BY <2>t, <3>1
  <2>2. CASE Denied
    <3>1. refresh.pc = "denied" /\ refresh.with \notin live
      BY <1>1, <2>2 DEF Denied, IInv, Sound, Tidy
    <3> QED
      BY <2>t, <3>1
  <2>3. CASE Stumbled
    BY <2>t, <2>3 DEF Stumbled, Disappointed
  <2>4. CASE LoggedIn
    BY <2>t, <2>4 DEF LoggedIn
  <2>5. CASE LoggedOut
    BY <2>5 DEF LoggedOut
  <2>6. CASE Reopen
    BY <2>6 DEF Reopen
  <2>7. ASSUME NEW c \in Calls, GivenUp(c) PROVE Reason
    BY <1>1, <2>7 DEF GivenUp, IInv, TypeOK
  <2>8. CASE UNCHANGED user
    BY <2>8
  <2> QED
    BY <1>1, <2>1, <2>2, <2>3, <2>4, <2>5, <2>6, <2>7, <2>8
    DEF Next, Asks, Answers, Exchanges, TimerFires, RetryFires, BecomesVisible, ReadMirror,
        ServeRefresh, ServeLogin, LoginFails, ServeLogout, WriteMirror, Expires, Login, Logout,
        Begin, EndsAtServer, Send, Answered, Refused, client, vars
<1>2. [][Explained]_vars <=> NoSilentSignOut
  BY PTL DEF NoSilentSignOut
<1> QED
  BY InvHolds, <1>1, <1>2, PTL DEF Spec

-----------------------------------------------------------------------------
(* The user's account (Account): types and codes whatever overlaps and fails, *)
(* and for the user who does one thing at a time what a registration, a reset *)
(* and the preferences come to. *)

\* The requests, each kind with the steps it takes.
RegisterReqs ==
    [op : {"register"}, step : {"find", "found", "create", "claim", "ok", "no", "unfit"},
     choice : Choices \cup Newcomers, heard : BOOLEAN]
ForgotReqs == [op : {"forgot"}, step : {"row", "ok"}, heard : BOOLEAN]
ResetReqs == [op : {"reset"}, step : {"find", "row", "ok", "no"}, code : Nat, heard : BOOLEAN]
LoadReqs == [op : {"load"}, step : {"row", "ok"}, val : Preferences, heard : BOOLEAN]
SaveReqs == [op : {"save"}, step : {"row", "user", "ok"}, patch : Patches, heard : BOOLEAN]
Reqs == RegisterReqs \cup ForgotReqs \cup ResetReqs \cup LoadReqs \cup SaveReqs

ReqsTyped == req \in [Slots -> Reqs \cup {Idle}]

RowsTyped ==
    /\ registered \in BOOLEAN
    /\ member \in Institutions \cup founded \cup {None}
    /\ founded \subseteq Newcomers /\ claimed \subseteq founded

Forms == [kind : {"individual", "representative"}, choice : Choices, text : Texts,
          list : SUBSET Institutions, sending : BOOLEAN]

Timers == {NoTimer} \cup {Search(x) : x \in Texts} \cup {Patch(p) : p \in Patches}

PageTyped ==
    /\ page \in {"register", "home", "settings"}
    /\ form \in Forms /\ refused \in Choices \cup {TooLong} /\ asked \in Seq(Texts)
    /\ due \in Timers
    /\ shown \in Preferences /\ loaded \in BOOLEAN
    /\ status \in {"idle", "loading", "saved", "error"}
    /\ knob \in Themes /\ local \in Themes /\ wish \in Preferences

SettingsTyped == setting \in Preferences /\ userTheme \in Themes

\* The choice of a registration that is to be written is an institution that is there,
\* or none.
RequestOK(s) ==
    /\ At(s, "register", "find") => req[s].choice \in Choices
    /\ At(s, "register", "create") =>
          req[s].choice \in founded \cup Institutions \cup {None, Independent}
    /\ At(s, "register", "claim") => req[s].choice \in founded
    /\ At(s, "save", "user") => req[s].patch[1] = "theme"

AccountTyped ==
    /\ manner \in Manners /\ acts \in 0..MaxActs
    /\ ReqsTyped /\ RowsTyped /\ PageTyped /\ SettingsTyped
    /\ \A s \in Slots : RequestOK(s)

-----------------------------------------------------------------------------
(* Requests and timers tell what they are. *)

LEMMA IdleIs == Idle \notin Reqs /\ Idle.op = "none"
BY DEF Idle, Reqs, RegisterReqs, ForgotReqs, ResetReqs, LoadReqs, SaveReqs

\* A request that is not idle is one of five kinds, and tells which.
LEMMA Kinds ==
    ASSUME NEW r \in Reqs
    PROVE  /\ r.heard \in BOOLEAN /\ r.step \in Steps
           /\ r.op = "register" => r \in RegisterReqs
           /\ r.op = "forgot" => r \in ForgotReqs
           /\ r.op = "reset" => r \in ResetReqs
           /\ r.op = "load" => r \in LoadReqs
           /\ r.op = "save" => r \in SaveReqs
BY DEF Reqs, RegisterReqs, ForgotReqs, ResetReqs, LoadReqs, SaveReqs, Steps

\* No longer heard, a request is what it was.
LEMMA Unheard ==
    ASSUME NEW r \in Reqs
    PROVE  LET q == [r EXCEPT !.heard = FALSE]
           IN  /\ q \in Reqs /\ q.op = r.op /\ q.step = r.step
               /\ r.op = "register" => q.choice = r.choice
               /\ r.op = "reset" => q.code = r.code
               /\ r.op = "load" => q.val = r.val
               /\ r.op = "save" => q.patch = r.patch
<1>1. CASE r \in RegisterReqs
  BY <1>1 DEF Reqs, RegisterReqs
<1>2. CASE r \in ForgotReqs
  BY <1>2 DEF Reqs, ForgotReqs
<1>3. CASE r \in ResetReqs
  BY <1>3 DEF Reqs, ResetReqs
<1>4. CASE r \in LoadReqs
  BY <1>4 DEF Reqs, LoadReqs
<1>5. CASE r \in SaveReqs
  BY <1>5 DEF Reqs, SaveReqs
<1> QED
  BY <1>1, <1>2, <1>3, <1>4, <1>5 DEF Reqs

\* A request that goes on is what it was, but for its step.
LEMMA Onward ==
    ASSUME NEW r \in Reqs, NEW step
    PROVE  LET q == [r EXCEPT !.step = step]
           IN  /\ q.op = r.op /\ q.step = step /\ q.heard = r.heard
               /\ r.op = "register" => q.choice = r.choice
               /\ r.op = "reset" => q.code = r.code
               /\ r.op = "load" => q.val = r.val
               /\ r.op = "save" => q.patch = r.patch
               /\ r.op = "register" /\ step \in {"find", "found", "create", "claim", "ok", "no", "unfit"} =>
                     q \in Reqs
               /\ r.op = "forgot" /\ step \in {"row", "ok"} => q \in Reqs
               /\ r.op = "reset" /\ step \in {"find", "row", "ok", "no"} => q \in Reqs
               /\ r.op = "load" /\ step \in {"row", "ok"} => q \in Reqs
               /\ r.op = "save" /\ step \in {"row", "user", "ok"} => q \in Reqs
<1>1. CASE r \in RegisterReqs
  BY <1>1 DEF Reqs, RegisterReqs
<1>2. CASE r \in ForgotReqs
  BY <1>2 DEF Reqs, ForgotReqs
<1>3. CASE r \in ResetReqs
  BY <1>3 DEF Reqs, ResetReqs
<1>4. CASE r \in LoadReqs
  BY <1>4 DEF Reqs, LoadReqs
<1>5. CASE r \in SaveReqs
  BY <1>5 DEF Reqs, SaveReqs
<1> QED
  BY <1>1, <1>2, <1>3, <1>4, <1>5 DEF Reqs

\* What a patch does to the preferences.
LEMMA Patched ==
    ASSUME NEW v \in Preferences, NEW p \in Patches
    PROVE  LET w == [v EXCEPT ![p[1]] = p[2]]
           IN  /\ w \in Preferences
               /\ p[1] \in {"theme", "email"}
               /\ w.theme = IF p[1] = "theme" THEN p[2] ELSE v.theme
               /\ w.email = IF p[1] = "email" THEN p[2] ELSE v.email
               /\ p[1] = "theme" => p[2] \in Themes
               /\ p[1] = "email" => p[2] \in BOOLEAN
<1>1. CASE p \in {"theme"} \X Themes
  <2>1. PICK t \in Themes : p = <<"theme", t>>
    BY <1>1
  <2>2. p[1] = "theme" /\ p[2] = t
    BY <2>1
  <2>3. [v EXCEPT ![p[1]] = p[2]] = [v EXCEPT !.theme = t]
    BY <2>2
  <2> QED
    BY <2>2, <2>3 DEF Preferences
<1>2. CASE p \in {"email"} \X BOOLEAN
  <2>1. PICK t \in BOOLEAN : p = <<"email", t>>
    BY <1>2
  <2>2. p[1] = "email" /\ p[2] = t
    BY <2>1
  <2>3. [v EXCEPT ![p[1]] = p[2]] = [v EXCEPT !.email = t]
    BY <2>2
  <2> QED
    BY <2>2, <2>3 DEF Preferences
<1> QED
  BY <1>1, <1>2 DEF Patches

\* The timers.
LEMMA TimerIs ==
    ASSUME NEW d \in Timers
    PROVE  /\ d = NoTimer <=> d.sends = "nothing"
           /\ d.sends = "search" => d.text \in Texts /\ d = Search(d.text)
           /\ d.sends = "patch" => d.patch \in Patches /\ d = Patch(d.patch)
BY DEF Timers, NoTimer, Search, Patch

-----------------------------------------------------------------------------
(* How an action changes the requests. *)

\* The request of s stays as it is, or its page gives up waiting for it.
Unmoved(s) ==
    \/ req'[s] = req[s]
    \/ req[s] \in Reqs /\ req'[s] = [req[s] EXCEPT !.heard = FALSE]

\* Only requests of the kind f are begun, carried on or answered.
Within(f) ==
    \A s \in Slots : \/ Unmoved(s)
                     \/ /\ req[s] = Idle \/ req[s].op = f
                        /\ req'[s] = Idle \/ req'[s].op = f

\* Where a request is.
LEMMA AtIs ==
    ASSUME ReqsTyped, NEW s \in Slots, NEW op, NEW step
    PROVE  At(s, op, step) <=> req[s] \in Reqs /\ req[s].op = op /\ req[s].step = step
BY IdleIs DEF ReqsTyped, At

\* One request changes, and stays of its kind.
LEMMA ChangeIs ==
    ASSUME ReqsTyped, NEW s \in Slots, NEW r \in Reqs \cup {Idle}, req' = [req EXCEPT ![s] = r],
           NEW f, req[s] = Idle \/ req[s].op = f, r = Idle \/ r.op = f
    PROVE  ReqsTyped' /\ Within(f) /\ req'[s] = r /\ \A t \in Slots : t # s => req'[t] = req[t]
BY DEF ReqsTyped, Within, Unmoved

\* A request begins where there was none.
LEMMA BeginIs ==
    ASSUME ReqsTyped, NEW r \in Reqs, BeginRequest(r)
    PROVE  /\ ReqsTyped' /\ Within(r.op)
           /\ \E s \in Slots : /\ req[s] = Idle /\ req'[s] = r
                               /\ \A t \in Slots : t # s => req'[t] = req[t]
<1>1. PICK s \in Slots : req[s] = Idle /\ req' = [req EXCEPT ![s] = r]
  BY DEF BeginRequest
<1> QED
  BY <1>1, ChangeIs

\* A request takes a step.
LEMMA GotoIs ==
    ASSUME ReqsTyped, NEW s \in Slots, NEW step, req[s] \in Reqs, Goto(s, step),
           [req[s] EXCEPT !.step = step] \in Reqs
    PROVE  /\ ReqsTyped' /\ Within(req[s].op) /\ req'[s] = [req[s] EXCEPT !.step = step]
           /\ \A t \in Slots : t # s => req'[t] = req[t]
<1> DEFINE r == [req[s] EXCEPT !.step = step]
<1>1. req' = [req EXCEPT ![s] = r]
  BY DEF Goto
<1>2. r.op = req[s].op
  BY Onward
<1> HIDE DEF r
<1>3. r \in Reqs
  BY DEF r
<1>4. ReqsTyped' /\ Within(req[s].op) /\ req'[s] = r /\ \A t \in Slots : t # s => req'[t] = req[t]
  BY <1>1, <1>2, <1>3, ChangeIs
<1> QED
  BY <1>4 DEF r

\* An answer: nothing is left of the request.
LEMMA AnswerIs ==
    ASSUME ReqsTyped, NEW s \in Slots, req[s] \in Reqs, req' = [req EXCEPT ![s] = Idle]
    PROVE  /\ ReqsTyped' /\ Within(req[s].op) /\ req'[s] = Idle
           /\ \A t \in Slots : t # s => req'[t] = req[t]
BY ChangeIs

\* Nothing happens to the requests.
LEMMA QuietIs ==
    ASSUME ReqsTyped, UNCHANGED req, NEW f
    PROVE  ReqsTyped' /\ Within(f)
BY DEF ReqsTyped, Within, Unmoved

\* Registrations keep their choice when others are at work.
LEMMA RequestFrame ==
    ASSUME ReqsTyped, ReqsTyped', \A s \in Slots : RequestOK(s), founded \subseteq founded',
           NEW f, Within(f), f \notin {"register", "save"}
    PROVE  \A s \in Slots : RequestOK(s)'
<1> SUFFICES ASSUME NEW s \in Slots PROVE RequestOK(s)'
  OBVIOUS
<1>0. \A op, step : At(s, op, step)' <=> req'[s] \in Reqs /\ req'[s].op = op /\ req'[s].step = step
  BY IdleIs DEF ReqsTyped, At
<1>1. CASE req'[s] = req[s]
  BY <1>1 DEF RequestOK, At
<1>2. CASE req[s] \in Reqs /\ req'[s] = [req[s] EXCEPT !.heard = FALSE]
  BY <1>0, <1>2, AtIs, Unheard DEF RequestOK
<1>3. CASE req'[s] = Idle \/ req'[s].op = f
  BY <1>0, <1>3, IdleIs DEF RequestOK
<1> QED
  BY <1>1, <1>2, <1>3 DEF Within, Unmoved

\* ... and when one other is.
LEMMA RequestOne ==
    ASSUME ReqsTyped, \A s \in Slots : RequestOK(s), founded \subseteq founded',
           NEW s \in Slots, \A t \in Slots : t # s => req'[t] = req[t], RequestOK(s)'
    PROVE  \A t \in Slots : RequestOK(t)'
<1> SUFFICES ASSUME NEW t \in Slots, t # s PROVE RequestOK(t)'
  OBVIOUS
<1>1. req'[t] = req[t] /\ RequestOK(t)
  OBVIOUS
<1> QED
  BY <1>1 DEF RequestOK, At

-----------------------------------------------------------------------------
(* Every step keeps the types. *)

LEMMA RowsFrame == ASSUME RowsTyped, UNCHANGED rows PROVE RowsTyped'
BY DEF RowsTyped, rows

LEMMA SettingsFrame == ASSUME SettingsTyped, UNCHANGED settings PROVE SettingsTyped'
BY DEF SettingsTyped, settings

LEMMA PageFrame ==
    ASSUME PageTyped, UNCHANGED <<page, registering, due, looks, wish>>
    PROVE  PageTyped'
BY DEF PageTyped, registering, looks

\* The parts make the whole.
LEMMA TypedFrom ==
    ASSUME AccountTyped, Act \/ Unasked, ReqsTyped', RowsTyped', PageTyped', SettingsTyped',
           \A s \in Slots : RequestOK(s)'
    PROVE  AccountTyped'
<1>1. manner' = manner /\ acts' \in 0..MaxActs
  <2>1. acts \in 0..MaxActs /\ MaxActs \in Nat
    BY AccountAssumption DEF AccountTyped
  <2>2. CASE Act
    <3>1. acts < MaxActs /\ acts' = acts + 1 /\ manner' = manner
      BY <2>2 DEF Act
    <3> QED
      BY <2>1, <3>1
  <2>3. CASE Unasked
    BY <2>1, <2>3 DEF Unasked
  <2> QED
    BY <2>2, <2>3
<1> QED
  BY <1>1 DEF AccountTyped

\* What the server does for other requests than registrations.
LEMMA ServedTyped ==
    ASSUME AccountTyped, Unasked, ReqsTyped', UNCHANGED rows, SettingsTyped',
           UNCHANGED <<page, registering, due, looks, wish>>,
           NEW f, Within(f), f \notin {"register", "save"}
    PROVE  AccountTyped'
<1>1. founded \subseteq founded'
  BY DEF rows
<1> QED
  BY <1>1, RequestFrame, RowsFrame, PageFrame, TypedFrom DEF AccountTyped

\* Turned away, with nothing written.
LEMMA TurnedAwayTyped ==
    ASSUME AccountTyped, NEW s \in Slots, TurnedAway(s)
    PROVE  AccountTyped' /\ Within("register")
<1>1. PICK step \in {"unfit", "no"} : Goto(s, step)
  BY DEF TurnedAway
<1>2. req[s] \in Reqs /\ req[s].op = "register"
  BY AtIs DEF TurnedAway, AccountTyped
<1>3. [req[s] EXCEPT !.step = step] \in Reqs
  BY <1>2, Onward
<1>4. Unasked /\ UNCHANGED <<rows, settings>> /\ UNCHANGED <<page, registering, due, looks, wish>>
  BY DEF TurnedAway
<1>5. /\ ReqsTyped' /\ Within("register") /\ req'[s] = [req[s] EXCEPT !.step = step]
      /\ \A t \in Slots : t # s => req'[t] = req[t]
  BY <1>1, <1>2, <1>3, GotoIs DEF AccountTyped
<1>6. req'[s].step = step /\ req'[s].op = "register"
  BY <1>2, <1>5, Onward
<1>7. RequestOK(s)'
  BY <1>6 DEF RequestOK, At
<1>8. \A t \in Slots : RequestOK(t)'
  BY <1>4, <1>5, <1>7, RequestOne DEF AccountTyped, rows
<1> QED
  BY <1>4, <1>5, <1>8, RowsFrame, SettingsFrame, PageFrame, TypedFrom DEF AccountTyped

\* The statements of a registration: nothing is written that is not there.
LEMMA RegisterFindTyped ==
    ASSUME AccountTyped, NEW s \in Slots, RegisterFind(s)
    PROVE  AccountTyped' /\ Within("register")
<1> DEFINE step == IF registered THEN "no" ELSE IF req[s].choice = New THEN "found" ELSE "create"
<1>1. /\ req[s] \in Reqs /\ req[s].op = "register" /\ req[s].step = "find"
      /\ req[s].choice \in Choices
  BY AtIs DEF RegisterFind, AccountTyped, RequestOK
<1>2. [req[s] EXCEPT !.step = step] \in Reqs
  BY <1>1, Onward
<1>3. /\ Goto(s, step) /\ Unasked /\ UNCHANGED <<rows, settings>>
      /\ UNCHANGED <<page, registering, due, looks, wish>>
  BY DEF RegisterFind
<1>4. step = "create" => req[s].choice # New
  OBVIOUS
<1> HIDE DEF step
<1>5. /\ ReqsTyped' /\ Within("register") /\ req'[s] = [req[s] EXCEPT !.step = step]
      /\ \A t \in Slots : t # s => req'[t] = req[t]
  BY <1>1, <1>2, <1>3, GotoIs DEF AccountTyped
<1>6. req'[s].choice = req[s].choice /\ req'[s].step = step
  BY <1>1, <1>5, Onward
<1>7. RequestOK(s)'
  <2>1. step \in {"no", "found", "create"}
    BY DEF step
  <2>2. step = "create" => req[s].choice \in Institutions \cup {None, Independent}
    BY <1>1, <1>4 DEF Choices
  <2> QED
    BY <1>6, <2>1, <2>2 DEF RequestOK, At
<1>8. \A t \in Slots : RequestOK(t)'
  BY <1>3, <1>5, <1>7, RequestOne DEF AccountTyped, rows
<1> QED
  BY <1>3, <1>5, <1>8, RowsFrame, SettingsFrame, PageFrame, TypedFrom DEF AccountTyped

LEMMA FoundTyped ==
    ASSUME AccountTyped, NEW s \in Slots, Found(s)
    PROVE  AccountTyped' /\ Within("register")
<1>1. req[s] \in RegisterReqs
  BY AtIs, Kinds DEF Found, AccountTyped
<1>2. PICK n \in Newcomers \ founded :
          /\ founded' = founded \cup {n}
          /\ req' = [req EXCEPT ![s].step = "create", ![s].choice = n]
  BY DEF Found
<1> DEFINE r == [req[s] EXCEPT !.step = "create", !.choice = n]
<1>3. r \in RegisterReqs /\ r.step = "create" /\ r.choice = n
  BY <1>1 DEF RegisterReqs
<1>4. req' = [req EXCEPT ![s] = r]
  BY <1>2 DEF AccountTyped, ReqsTyped
<1> HIDE DEF r
<1>5. /\ ReqsTyped /\ r \in Reqs \cup {Idle}
      /\ req[s] = Idle \/ req[s].op = "register"
      /\ r = Idle \/ r.op = "register"
  BY <1>1, <1>3 DEF RegisterReqs, Reqs, AccountTyped
<1>6. /\ ReqsTyped' /\ Within("register") /\ req'[s] = r
      /\ \A t \in Slots : t # s => req'[t] = req[t]
  BY <1>4, <1>5, ChangeIs
<1>7. RequestOK(s)'
  BY <1>2, <1>3, <1>6 DEF RequestOK, At
<1>8. \A t \in Slots : RequestOK(t)'
  BY <1>2, <1>6, <1>7, RequestOne DEF AccountTyped
<1>9. RowsTyped'
  BY <1>2 DEF Found, AccountTyped, RowsTyped
<1>10. /\ Unasked /\ UNCHANGED settings
       /\ UNCHANGED <<page, registering, due, looks, wish>>
  BY DEF Found
<1> QED
  BY <1>6, <1>8, <1>9, <1>10, SettingsFrame, PageFrame, TypedFrom DEF AccountTyped

LEMMA CreateUserTyped ==
    ASSUME AccountTyped, NEW s \in Slots, CreateUser(s)
    PROVE  AccountTyped' /\ Within("register")
<1> DEFINE c == req[s].choice
           step == IF registered \/ ~KnownInstitution(c) THEN "no"
                   ELSE IF c \in founded THEN "claim" ELSE "ok"
<1>1. /\ req[s] \in Reqs /\ req[s].op = "register"
      /\ c \in founded \cup Institutions \cup {None, Independent}
  BY AtIs DEF CreateUser, AccountTyped, RequestOK
<1>2. [req[s] EXCEPT !.step = step] \in Reqs
  BY <1>1, Onward
<1>3. /\ Goto(s, step) /\ Unasked /\ UNCHANGED <<settings, founded, claimed>>
      /\ UNCHANGED <<page, registering, due, looks, wish>>
      /\ \/ UNCHANGED <<registered, member>>
         \/ registered' = TRUE /\ member' = c /\ KnownInstitution(c)
  BY DEF CreateUser
<1>4. step = "claim" => c \in founded
  OBVIOUS
<1>10. step \in {"no", "claim", "ok"}
  OBVIOUS
<1> HIDE DEF step
<1>5. /\ ReqsTyped' /\ Within("register") /\ req'[s] = [req[s] EXCEPT !.step = step]
      /\ \A t \in Slots : t # s => req'[t] = req[t]
  BY <1>1, <1>2, <1>3, GotoIs DEF AccountTyped
<1>6. req'[s].choice = c /\ req'[s].step = step
  BY <1>1, <1>5, Onward
<1>7. RequestOK(s)'
  BY <1>3, <1>4, <1>10, <1>6 DEF RequestOK, At
<1>8. \A t \in Slots : RequestOK(t)'
  BY <1>3, <1>5, <1>7, RequestOne DEF AccountTyped
<1>9. RowsTyped'
  BY <1>1, <1>3 DEF AccountTyped, RowsTyped, KnownInstitution
<1> QED
  BY <1>3, <1>5, <1>8, <1>9, SettingsFrame, PageFrame, TypedFrom DEF AccountTyped

LEMMA ClaimTyped ==
    ASSUME AccountTyped, NEW s \in Slots, Claim(s)
    PROVE  AccountTyped' /\ Within("register")
<1>1. /\ req[s] \in Reqs /\ req[s].op = "register" /\ req[s].choice \in founded
  BY AtIs DEF Claim, AccountTyped, RequestOK
<1>2. [req[s] EXCEPT !.step = "ok"] \in Reqs
  BY <1>1, Onward
<1>3. /\ Goto(s, "ok") /\ Unasked /\ UNCHANGED <<settings, founded, registered, member>>
      /\ UNCHANGED <<page, registering, due, looks, wish>>
      /\ claimed' = claimed \cup {req[s].choice}
  BY DEF Claim
<1>5. /\ ReqsTyped' /\ Within("register") /\ req'[s] = [req[s] EXCEPT !.step = "ok"]
      /\ \A t \in Slots : t # s => req'[t] = req[t]
  BY <1>1, <1>2, <1>3, GotoIs DEF AccountTyped
<1>6. req'[s].step = "ok"
  BY <1>1, <1>5, Onward
<1>7. RequestOK(s)'
  BY <1>6 DEF RequestOK, At
<1>8. \A t \in Slots : RequestOK(t)'
  BY <1>3, <1>5, <1>7, RequestOne DEF AccountTyped
<1>9. RowsTyped'
  BY <1>1, <1>3 DEF AccountTyped, RowsTyped
<1> QED
  BY <1>3, <1>5, <1>8, <1>9, SettingsFrame, PageFrame, TypedFrom DEF AccountTyped

\* What begins is allowed to begin, and what is over can do no harm.
LEMMA BegunOK ==
    ASSUME AccountTyped, NEW r \in Reqs, BeginRequest(r), founded' = founded,
           r.op = "register" => r.step = "find" /\ r.choice \in Choices,
           r.op = "save" => r.step = "row"
    PROVE  ReqsTyped' /\ Within(r.op) /\ \A s \in Slots : RequestOK(s)'
<1>1. PICK s \in Slots : /\ ReqsTyped' /\ Within(r.op)
                         /\ req'[s] = r /\ \A t \in Slots : t # s => req'[t] = req[t]
  BY BeginIs DEF AccountTyped
<1>2. RequestOK(s)'
  BY <1>1 DEF RequestOK, At
<1> QED
  BY <1>1, <1>2, RequestOne DEF AccountTyped

LEMMA AnsweredOK ==
    ASSUME AccountTyped, NEW s \in Slots, req[s] \in Reqs, req' = [req EXCEPT ![s] = Idle],
           founded' = founded
    PROVE  /\ ReqsTyped' /\ Within(req[s].op) /\ \A t \in Slots : RequestOK(t)'
           /\ req'[s] = Idle /\ \A t \in Slots : t # s => req'[t] = req[t]
<1>1. /\ ReqsTyped' /\ Within(req[s].op) /\ req'[s] = Idle
      /\ \A t \in Slots : t # s => req'[t] = req[t]
  BY AnswerIs DEF AccountTyped
<1>2. RequestOK(s)'
  BY <1>1 DEF RequestOK, At
<1> QED
  BY <1>1, <1>2, RequestOne DEF AccountTyped

LEMMA QuietOK ==
    ASSUME AccountTyped, UNCHANGED req, founded' = founded
    PROVE  ReqsTyped' /\ (\A f : Within(f)) /\ \A s \in Slots : RequestOK(s)'
<1>1. ReqsTyped' /\ \A f : Within(f)
  BY QuietIs DEF AccountTyped
<1>2. \A s \in Slots : RequestOK(s)'
  BY DEF AccountTyped, RequestOK, At
<1> QED
  BY <1>1, <1>2

\* Codes and preferences at the server.
LEMMA IssueCodeTyped ==
    ASSUME AccountTyped, NEW s \in Slots, IssueCode(s)
    PROVE  AccountTyped' /\ Within("forgot")
<1>1. /\ req[s] \in Reqs /\ req[s].op = "forgot" /\ ReqsTyped /\ SettingsTyped
  BY AtIs DEF IssueCode, AccountTyped
<1>2. [req[s] EXCEPT !.step = "ok"] \in Reqs
  BY <1>1, Onward
<1>3. /\ Goto(s, "ok") /\ Unasked /\ UNCHANGED <<rows, settings>>
      /\ UNCHANGED <<page, registering, due, looks, wish>>
  BY DEF IssueCode
<1>4. ReqsTyped' /\ Within("forgot")
  BY <1>1, <1>2, <1>3, GotoIs
<1> QED
  BY <1>1, <1>3, <1>4, ServedTyped, SettingsFrame

LEMMA ResetFindTyped ==
    ASSUME AccountTyped, NEW s \in Slots, ResetFind(s)
    PROVE  AccountTyped' /\ Within("reset")
<1> DEFINE step == IF liveCode = req[s].code THEN "row" ELSE "no"
<1>1. /\ req[s] \in Reqs /\ req[s].op = "reset" /\ ReqsTyped /\ SettingsTyped
  BY AtIs DEF ResetFind, AccountTyped
<1>2. [req[s] EXCEPT !.step = step] \in Reqs
  BY <1>1, Onward
<1>3. /\ Goto(s, step) /\ Unasked /\ UNCHANGED <<rows, settings>>
      /\ UNCHANGED <<page, registering, due, looks, wish>>
  BY DEF ResetFind
<1> HIDE DEF step
<1>4. ReqsTyped' /\ Within("reset")
  BY <1>1, <1>2, <1>3, GotoIs
<1> QED
  BY <1>1, <1>3, <1>4, ServedTyped, SettingsFrame

LEMMA ResetWriteTyped ==
    ASSUME AccountTyped, NEW s \in Slots, ResetWrite(s)
    PROVE  AccountTyped' /\ Within("reset")
<1>1. /\ req[s] \in Reqs /\ req[s].op = "reset" /\ ReqsTyped /\ SettingsTyped
  BY AtIs DEF ResetWrite, AccountTyped
<1>2. [req[s] EXCEPT !.step = "ok"] \in Reqs
  BY <1>1, Onward
<1>3. /\ Goto(s, "ok") /\ Unasked /\ UNCHANGED <<rows, settings>>
      /\ UNCHANGED <<page, registering, due, looks, wish>>
  BY DEF ResetWrite
<1>4. ReqsTyped' /\ Within("reset")
  BY <1>1, <1>2, <1>3, GotoIs
<1> QED
  BY <1>1, <1>3, <1>4, ServedTyped, SettingsFrame

LEMMA ToldTyped ==
    ASSUME AccountTyped, NEW s \in Slots, Told(s)
    PROVE  AccountTyped' /\ Within(req[s].op) /\ req[s].op \in {"forgot", "reset"}
<1>1. /\ req[s] \in Reqs /\ req[s].op \in {"forgot", "reset"} /\ ReqsTyped /\ SettingsTyped
  BY DEF Told, AccountTyped, ReqsTyped
<1>3. /\ req' = [req EXCEPT ![s] = Idle] /\ Unasked /\ UNCHANGED <<rows, settings>>
      /\ UNCHANGED <<page, registering, due, looks, wish>>
  BY DEF Told
<1>4. ReqsTyped' /\ Within(req[s].op)
  BY <1>1, <1>3, AnswerIs
<1> QED
  BY <1>1, <1>3, <1>4, ServedTyped, SettingsFrame

LEMMA ReadSettingTyped ==
    ASSUME AccountTyped, NEW s \in Slots, ReadSetting(s)
    PROVE  /\ AccountTyped' /\ Within("load")
           /\ req'[s].op = "load" /\ req'[s].step = "ok" /\ req'[s].val = setting
           /\ \A t \in Slots : t # s => req'[t] = req[t]
<1> DEFINE r == [req[s] EXCEPT !.step = "ok", !.val = setting]
<1>1. /\ req[s] \in LoadReqs /\ ReqsTyped /\ SettingsTyped
  BY AtIs, Kinds DEF ReadSetting, AccountTyped
<1>2. r \in LoadReqs /\ r.op = "load" /\ r.step = "ok" /\ r.val = setting
  BY <1>1 DEF LoadReqs, SettingsTyped
<1>3. /\ req' = [req EXCEPT ![s] = r] /\ Unasked /\ UNCHANGED <<rows, settings>>
      /\ UNCHANGED <<page, registering, due, looks, wish>>
  BY <1>1 DEF ReadSetting, ReqsTyped
<1> HIDE DEF r
<1>4. /\ r \in Reqs \cup {Idle}
      /\ req[s] = Idle \/ req[s].op = "load"
      /\ r = Idle \/ r.op = "load"
  BY <1>1, <1>2 DEF Reqs, LoadReqs
<1>5. ReqsTyped' /\ Within("load") /\ req'[s] = r /\ \A t \in Slots : t # s => req'[t] = req[t]
  <2>1. ReqsTyped /\ req' = [req EXCEPT ![s] = r]
    BY <1>1, <1>3
  <2> QED
    BY <1>4, <2>1, ChangeIs
<1> QED
  BY <1>1, <1>2, <1>3, <1>4, <1>5, ServedTyped, SettingsFrame

LEMMA SaveRowTyped ==
    ASSUME AccountTyped, NEW s \in Slots, SaveRow(s)
    PROVE  AccountTyped' /\ Within("save")
<1> DEFINE p == req[s].patch
           step == IF p[1] = "theme" THEN "user" ELSE "ok"
<1>1. /\ req[s] \in Reqs /\ req[s].op = "save" /\ ReqsTyped /\ SettingsTyped
  BY AtIs DEF SaveRow, AccountTyped
<1>2. p \in Patches
  BY <1>1, Kinds DEF SaveReqs
<1>3. [req[s] EXCEPT !.step = step] \in Reqs
  BY <1>1, Onward
<1>4. /\ Goto(s, step) /\ Unasked /\ UNCHANGED <<rows, userTheme>>
      /\ setting' = [setting EXCEPT ![p[1]] = p[2]]
      /\ UNCHANGED <<page, registering, due, looks, wish>>
  BY DEF SaveRow
<1>5. step = "user" => p[1] = "theme"
  OBVIOUS
<1> HIDE DEF p, step
<1>6. SettingsTyped'
  BY <1>1, <1>2, <1>4, Patched DEF SettingsTyped
<1>7. /\ ReqsTyped' /\ Within("save") /\ req'[s] = [req[s] EXCEPT !.step = step]
      /\ \A t \in Slots : t # s => req'[t] = req[t]
  BY <1>1, <1>3, <1>4, GotoIs
<1>8. req'[s].op = "save" /\ req'[s].step = step /\ req'[s].patch = p
  BY <1>1, <1>7, Onward DEF p
<1>9. RequestOK(s)'
  BY <1>5, <1>8 DEF RequestOK, At
<1>10. founded' = founded
  BY <1>4 DEF rows
<1>11. \A t \in Slots : RequestOK(t)'
  BY <1>7, <1>9, <1>10, RequestOne DEF AccountTyped
<1> QED
  BY <1>4, <1>6, <1>7, <1>11, RowsFrame, PageFrame, TypedFrom DEF AccountTyped

LEMMA SaveUserTyped ==
    ASSUME AccountTyped, NEW s \in Slots, SaveUser(s)
    PROVE  AccountTyped' /\ Within("save")
<1>1. /\ req[s] \in Reqs /\ req[s].op = "save" /\ ReqsTyped /\ SettingsTyped
      /\ req[s].patch[1] = "theme"
  BY AtIs DEF SaveUser, AccountTyped, RequestOK
<1>2. req[s].patch \in Patches /\ req[s].patch[2] \in Themes
  <2>1. req[s].patch \in Patches
    BY <1>1, Kinds DEF SaveReqs
  <2> QED
    BY <1>1, <2>1 DEF Patches
<1>3. [req[s] EXCEPT !.step = "ok"] \in Reqs
  BY <1>1, Onward
<1>4. /\ Goto(s, "ok") /\ Unasked /\ UNCHANGED <<rows, setting>>
      /\ userTheme' = req[s].patch[2]
      /\ UNCHANGED <<page, registering, due, looks, wish>>
  BY DEF SaveUser
<1>6. SettingsTyped'
  BY <1>1, <1>2, <1>4 DEF SettingsTyped
<1>7. /\ ReqsTyped' /\ Within("save") /\ req'[s] = [req[s] EXCEPT !.step = "ok"]
      /\ \A t \in Slots : t # s => req'[t] = req[t]
  BY <1>1, <1>3, <1>4, GotoIs
<1>8. req'[s].op = "save" /\ req'[s].step = "ok"
  BY <1>1, <1>7, Onward
<1>9. RequestOK(s)'
  BY <1>8 DEF RequestOK, At
<1>10. founded' = founded
  BY <1>4 DEF rows
<1>11. \A t \in Slots : RequestOK(t)'
  BY <1>7, <1>9, <1>10, RequestOne DEF AccountTyped
<1> QED
  BY <1>4, <1>6, <1>7, <1>11, RowsFrame, PageFrame, TypedFrom DEF AccountTyped
-----------------------------------------------------------------------------
(* The invariants beyond the types. *)

Writing(n) == {s \in Slots : At(s, "reset", "row") /\ req[s].code = n}

\* A code whose passwords are set or about to be set was live at one time, and
\* all who set a password with it had found it by then.
CodesSound ==
    /\ codes \in Seq(Nat) /\ liveCode \in 0..Len(codes)
    /\ liveCode # 0 => codes[liveCode] = 0 /\ liveCode = Len(codes)
    /\ \A s \in Slots : req[s] # Idle /\ req[s].op = "reset" => req[s].code \in 1..Len(codes)
    /\ \A n \in 1..Len(codes) : codes[n] + Cardinality(Writing(n)) <= Cardinality(Slots)

\* The user who does one thing at a time waits for one thing at a time.
Alone ==
    /\ \A s, t \in Slots : req[s] # Idle /\ req[t] # Idle => s = t
    /\ due # NoTimer \/ asked # <<>> => \A s \in Slots : req[s] = Idle
    /\ due = NoTimer \/ asked = <<>>
    /\ Len(asked) <= 1

CodesOnce ==
    /\ \A n \in 1..Len(codes) : codes[n] <= 1
    /\ \A s \in Slots :
          At(s, "reset", "row") => codes[req[s].code] = 0 /\ req[s].code = Len(codes)

RefusalsJust ==
    /\ refused # None => refused \in {Independent, TooLong} \/ registered
    /\ \A s \in Slots :
          /\ At(s, "register", "find") => req[s].choice = form.choice
          /\ At(s, "register", "create") /\ req[s].choice = Independent => form.choice = Independent
          /\ At(s, "register", "no") => registered \/ form.choice = Independent

\* What was founded is the user's, or is about to be.
FoundedFor(n) ==
    \/ /\ registered /\ member = n
       /\ n \in claimed \/ \E s \in Slots : At(s, "register", "claim") /\ req[s].choice = n
    \/ /\ ~registered
       /\ \E s \in Slots : At(s, "register", "create") /\ req[s].choice = n

FoundedWhole ==
    /\ \A n \in founded : FoundedFor(n)
    /\ \A s \in Slots : At(s, "register", "found") \/ At(s, "register", "create") => ~registered

Written(p) == wish = [setting EXCEPT ![p[1]] = p[2]] /\ userTheme = setting.theme
Agreed == setting = wish /\ userTheme = setting.theme

WishesKept ==
    /\ Patching => Written(due.patch)
    /\ \A s \in Slots :
          /\ At(s, "save", "row") => Written(req[s].patch)
          /\ At(s, "save", "user") => setting = wish /\ req[s].patch[2] = setting.theme
          /\ At(s, "load", "ok") => req[s].val = setting
    /\ \/ Patching \/ Agreed
       \/ \E s \in Slots : At(s, "save", "row") \/ At(s, "save", "user")
    /\ page = "settings" /\ loaded => local = wish.theme

CalmParts == Alone /\ CodesOnce /\ RefusalsJust /\ FoundedWhole /\ WishesKept
CalmSound == manner = "calm" => CalmParts

AccountSound == AccountTyped /\ CodesSound /\ CalmSound

\* What the page does by itself, and not to its requests.
LEMMA PageOnly ==
    ASSUME AccountTyped, Act \/ Unasked, UNCHANGED <<rows, settings, req>>, PageTyped'
    PROVE  AccountTyped' /\ \A f : Within(f)
<1>1. founded' = founded
  BY DEF rows
<1> QED
  BY <1>1, QuietOK, RowsFrame, SettingsFrame, TypedFrom DEF AccountTyped

LEMMA ChooseKindTyped ==
    ASSUME AccountTyped, NEW k \in {"individual", "representative"}, ChooseKind(k)
    PROVE  AccountTyped' /\ \A f : Within(f)
<1>1. "" \in Texts
  BY AccountAssumption DEF Texts
<1>2. form' \in Forms
  BY DEF ChooseKind, AccountTyped, PageTyped, Forms, Choices
<1>3. due' \in Timers
  BY <1>1 DEF ChooseKind, AccountTyped, PageTyped, Timers
<1>4. PageTyped'
  BY <1>2, <1>3 DEF ChooseKind, AccountTyped, PageTyped, looks
<1> QED
  BY <1>4, PageOnly DEF ChooseKind

LEMMA WriteTextTyped ==
    ASSUME AccountTyped, NEW x \in Texts, WriteText(x)
    PROVE  AccountTyped' /\ \A f : Within(f)
<1>2. form' \in Forms
  BY DEF WriteText, AccountTyped, PageTyped, Forms
<1>3. due' \in Timers
  BY DEF WriteText, Timers
<1>4. PageTyped'
  BY <1>2, <1>3 DEF WriteText, AccountTyped, PageTyped, looks
<1> QED
  BY <1>4, PageOnly DEF WriteText

LEMMA PickTyped ==
    ASSUME AccountTyped, NEW c \in Choices, Pick(c)
    PROVE  AccountTyped' /\ \A f : Within(f)
<1>2. form' \in Forms
  BY DEF Pick, AccountTyped, PageTyped, Forms
<1>4. PageTyped'
  BY <1>2 DEF Pick, AccountTyped, PageTyped, looks
<1> QED
  BY <1>4, PageOnly DEF Pick

LEMMA SearchFiresTyped ==
    ASSUME AccountTyped, SearchFires
    PROVE  AccountTyped' /\ \A f : Within(f)
<1>1. due.text \in Texts
  BY TimerIs DEF SearchFires, AccountTyped, PageTyped, Searches
<1>2. asked' \in Seq(Texts)
  BY <1>1 DEF SearchFires, AccountTyped, PageTyped
<1>3. due' \in Timers
  BY DEF SearchFires, Timers
<1>4. PageTyped'
  BY <1>2, <1>3 DEF SearchFires, AccountTyped, PageTyped, looks
<1> QED
  BY <1>4, PageOnly DEF SearchFires

LEMMA SearchAnsweredTyped ==
    ASSUME AccountTyped, NEW n \in DOMAIN asked, SearchAnswered(n)
    PROVE  /\ AccountTyped' /\ \A f : Within(f)
           /\ form'.choice = form.choice
           /\ Len(asked) <= 1 => asked' = <<>>
<1>1. asked \in Seq(Texts) /\ n \in 1..Len(asked) /\ Len(asked) \in Nat /\ form \in Forms
  BY DEF AccountTyped, PageTyped
<1>2. /\ asked' \in [1..(Len(asked) - 1) -> Texts]
      /\ asked' = [i \in 1..(Len(asked) - 1) |-> asked[IF i < n THEN i ELSE i + 1]]
  <2>1. \A i \in 1..(Len(asked) - 1) : (IF i < n THEN i ELSE i + 1) \in 1..Len(asked)
    BY <1>1
  <2>2. \A j \in 1..Len(asked) : asked[j] \in Texts
    BY <1>1
  <2> QED
    BY <2>1, <2>2 DEF SearchAnswered
<1>3. asked' \in Seq(Texts)
  <2>1. Len(asked) - 1 \in Nat
    BY <1>1
  <2> QED
    BY <1>2, <2>1, SeqDef
<1>4. Len(asked) <= 1 => asked' = <<>>
  <2>1. SUFFICES ASSUME Len(asked) <= 1 PROVE asked' = <<>>
    OBVIOUS
  <2>2. Len(asked) - 1 = 0
    <3>1. n \in 1..Len(asked) /\ Len(asked) \in Nat
      BY <1>1
    <3> QED
      BY <2>1, <3>1
  <2>3. DOMAIN asked' = 1..0
    BY <1>2, <2>2
  <2> QED
    BY <1>3, <2>3, EmptySeq
<1>5. PICK l \in {Finds[asked[n]]} \cup (IF manner = "rough" THEN {{}} ELSE {}) :
         form' = IF page = "register" THEN [form EXCEPT !.list = l] ELSE form
  BY DEF SearchAnswered
<1>6. l \subseteq Institutions
  <2>1. asked[n] \in DOMAIN Finds
    BY <1>1 DEF Texts
  <2> QED
    BY <1>5, <2>1, AccountAssumption
<1>7. form' \in Forms /\ form'.choice = form.choice
  BY <1>1, <1>5, <1>6 DEF Forms
<1>8. PageTyped'
  BY <1>3, <1>7 DEF SearchAnswered, AccountTyped, PageTyped, looks
<1> QED
  BY <1>4, <1>7, <1>8, PageOnly DEF SearchAnswered

LEMMA ChooseTyped ==
    ASSUME AccountTyped, NEW p \in Patches, Choose(p)
    PROVE  AccountTyped' /\ \A f : Within(f)
<1>1. /\ shown \in Preferences /\ wish \in Preferences /\ p[1] = "theme" => p[2] \in Themes
      /\ [shown EXCEPT ![p[1]] = p[2]] \in Preferences
      /\ [wish EXCEPT ![p[1]] = p[2]] \in Preferences
  BY Patched DEF AccountTyped, PageTyped
<1>2. shown' \in Preferences /\ wish' \in Preferences /\ local' \in Themes
  BY <1>1 DEF Choose, AccountTyped, PageTyped
<1>3. due' \in Timers /\ status' \in {"idle", "loading", "saved", "error"}
  BY DEF Choose, AccountTyped, PageTyped, Timers
<1>4. PageTyped'
  BY <1>2, <1>3 DEF Choose, AccountTyped, PageTyped, registering
<1> QED
  BY <1>4, PageOnly DEF Choose

-----------------------------------------------------------------------------
\* What begins a request.
LEMMA BegunTyped ==
    ASSUME AccountTyped, Act \/ Unasked, UNCHANGED <<rows, settings>>, PageTyped',
           NEW r \in Reqs, BeginRequest(r),
           r.op = "register" => r.step = "find" /\ r.choice \in Choices,
           r.op = "save" => r.step = "row"
    PROVE  AccountTyped' /\ Within(r.op)
<1>1. founded' = founded
  BY DEF rows
<1> QED
  BY <1>1, BegunOK, RowsFrame, SettingsFrame, TypedFrom DEF AccountTyped

LEMMA SubmitTyped ==
    ASSUME AccountTyped, Submit
    PROVE  AccountTyped' /\ Within("register")
<1> DEFINE r == [op |-> "register", step |-> "find", choice |-> form.choice, heard |-> TRUE]
<1>1. form \in Forms /\ form.choice \in Choices
  BY DEF AccountTyped, PageTyped, Forms
<1>2. r \in Reqs /\ r.op = "register" /\ r.step = "find" /\ r.choice = form.choice
  BY <1>1 DEF Reqs, RegisterReqs
<1>3. BeginRequest(r)
  BY DEF Submit, Chosen
<1>4. form' \in Forms
  BY <1>1 DEF Submit, Forms
<1>5. PageTyped'
  BY <1>4 DEF Submit, AccountTyped, PageTyped, looks
<1> HIDE DEF r
<1> QED
  BY <1>1, <1>2, <1>3, <1>5, BegunTyped DEF Submit

LEMMA ForgotTyped ==
    ASSUME AccountTyped, Forgot
    PROVE  AccountTyped' /\ Within("forgot")
<1> DEFINE r == [op |-> "forgot", step |-> "row", heard |-> FALSE]
<1>1. r \in Reqs /\ r.op = "forgot"
  BY DEF Reqs, ForgotReqs
<1>2. BeginRequest(r) /\ Act /\ UNCHANGED <<rows, settings>>
      /\ UNCHANGED <<page, registering, due, looks, wish>>
  BY DEF Forgot
<1> HIDE DEF r
<1>3. PageTyped'
  BY <1>2, PageFrame DEF AccountTyped
<1> QED
  BY <1>1, <1>2, <1>3, BegunTyped

LEMMA ResetTyped ==
    ASSUME AccountTyped, CodesSound, NEW n \in DOMAIN codes, Reset(n)
    PROVE  AccountTyped' /\ Within("reset")
<1> DEFINE r == [op |-> "reset", step |-> "find", code |-> n, heard |-> FALSE]
<1>0. n \in Nat
  BY DEF CodesSound
<1>1. r \in Reqs /\ r.op = "reset"
  BY <1>0 DEF Reqs, ResetReqs
<1>2. BeginRequest(r) /\ Act /\ UNCHANGED <<rows, settings>>
      /\ UNCHANGED <<page, registering, due, looks, wish>>
  BY DEF Reset
<1> HIDE DEF r
<1>3. PageTyped'
  BY <1>2, PageFrame DEF AccountTyped
<1> QED
  BY <1>1, <1>2, <1>3, BegunTyped

LEMMA OpenSettingsTyped ==
    ASSUME AccountTyped, OpenSettings
    PROVE  AccountTyped' /\ Within("load")
<1> DEFINE r == [op |-> "load", step |-> "row", val |-> setting, heard |-> TRUE]
<1>1. r \in Reqs /\ r.op = "load"
  BY DEF Reqs, LoadReqs, AccountTyped, SettingsTyped
<1>2. BeginRequest(r)
  BY DEF OpenSettings
<1>3. PageTyped'
  BY DEF OpenSettings, AccountTyped, PageTyped, registering, Preferences
<1> HIDE DEF r
<1> QED
  BY <1>1, <1>2, <1>3, BegunTyped DEF OpenSettings

LEMMA PatchFiresTyped ==
    ASSUME AccountTyped, PatchFires
    PROVE  AccountTyped' /\ Within("save") /\ due.patch \in Patches
<1>1. due.patch \in Patches
  BY TimerIs DEF PatchFires, AccountTyped, PageTyped, Patching
<1> DEFINE r == Save(due.patch, TRUE)
<1>2. r \in Reqs /\ r.op = "save" /\ r.step = "row"
  BY <1>1 DEF Reqs, SaveReqs, Save
<1>3. BeginRequest(r)
  BY DEF PatchFires
<1>4. PageTyped'
  BY DEF PatchFires, AccountTyped, PageTyped, registering, looks, Timers
<1> HIDE DEF r
<1> QED
  BY <1>1, <1>2, <1>3, <1>4, BegunTyped DEF PatchFires

LEMMA OtherTheme == \A t \in Themes : Other(t) \in Themes
BY DEF Other, Themes

LEMMA ToggleTyped ==
    ASSUME AccountTyped, Toggle
    PROVE  AccountTyped' /\ Within("save") /\ knob' \in Themes /\ <<"theme", knob'>> \in Patches
<1>1. knob' \in Themes
  BY OtherTheme DEF Toggle, AccountTyped, PageTyped
<1>2. <<"theme", knob'>> \in Patches
  BY <1>1 DEF Patches
<1> DEFINE r == Save(<<"theme", knob'>>, FALSE)
<1>3. r \in Reqs /\ r.op = "save" /\ r.step = "row"
  BY <1>2 DEF Reqs, SaveReqs, Save
<1>4. BeginRequest(r)
  BY DEF Toggle
<1>5. PageTyped'
  BY <1>1 DEF Toggle, AccountTyped, PageTyped, registering, Preferences
<1> HIDE DEF r
<1> QED
  BY <1>1, <1>2, <1>3, <1>4, <1>5, BegunTyped DEF Toggle

\* What ends a request.
LEMMA EndedTyped ==
    ASSUME AccountTyped, Unasked, UNCHANGED <<rows, settings>>, PageTyped',
           NEW s \in Slots, req[s] \in Reqs, req' = [req EXCEPT ![s] = Idle]
    PROVE  AccountTyped' /\ Within(req[s].op)
<1>1. founded' = founded
  BY DEF rows
<1> QED
  BY <1>1, AnsweredOK, RowsFrame, SettingsFrame, TypedFrom DEF AccountTyped

\* The form as it is opened.
LEMMA BlankForm == Blank \in Forms
<1>1. "" \in Texts
  BY AccountAssumption DEF Texts
<1> QED
  BY <1>1 DEF Blank, Forms, Choices

LEMMA WelcomeTyped ==
    ASSUME AccountTyped, NEW s \in Slots, Welcome(s)
    PROVE  AccountTyped' /\ Within("register")
<1>1. req[s] \in Reqs /\ req[s].op = "register" /\ req' = [req EXCEPT ![s] = Idle]
  BY AtIs DEF Welcome, AccountTyped
<1>2. form' \in Forms /\ due' \in Timers
  BY BlankForm DEF Welcome, AccountTyped, PageTyped, Timers
<1>3. PageTyped'
  BY <1>2 DEF Welcome, AccountTyped, PageTyped
<1>4. Unasked /\ UNCHANGED <<rows, settings>>
  BY DEF Welcome
<1> QED
  BY <1>1, <1>3, <1>4, EndedTyped

LEMMA RegistrationRefusedTyped ==
    ASSUME AccountTyped, NEW s \in Slots, RegistrationRefused(s)
    PROVE  AccountTyped' /\ Within("register")
<1>1. req[s] \in Reqs /\ req[s].op = "register" /\ req' = [req EXCEPT ![s] = Idle]
  BY AtIs DEF RegistrationRefused, AccountTyped
<1>2. form' \in Forms /\ refused' \in Choices \cup {TooLong}
  BY DEF RegistrationRefused, AccountTyped, PageTyped, Forms
<1>3. PageTyped'
  BY <1>2 DEF RegistrationRefused, AccountTyped, PageTyped, looks
<1>4. Unasked /\ UNCHANGED <<rows, settings>>
  BY DEF RegistrationRefused
<1> QED
  BY <1>1, <1>3, <1>4, EndedTyped

\* The request is what it was, and nobody waits for it.
LEMMA GivesUpTyped ==
    ASSUME AccountTyped, NEW s \in Slots, GivesUp(s)
    PROVE  AccountTyped' /\ \A f : Within(f)
<1> DEFINE r == [req[s] EXCEPT !.heard = FALSE]
<1>1. /\ ReqsTyped /\ req[s] \in Reqs /\ req[s].op = "register" /\ req' = [req EXCEPT ![s] = r]
      /\ \A t \in Slots : RequestOK(t)
  BY DEF GivesUp, AccountTyped, ReqsTyped
<1>2. r \in Reqs /\ r.op = "register"
  BY <1>1, Unheard
<1>3. /\ ReqsTyped' /\ req'[s] = r /\ \A t \in Slots : t # s => req'[t] = req[t]
  <2> HIDE DEF r
  <2>1. req \in [Slots -> Reqs \cup {Idle}] /\ req' = [req EXCEPT ![s] = r] /\ r \in Reqs
    BY <1>1, <1>2 DEF ReqsTyped
  <2> QED
    BY <2>1 DEF ReqsTyped
<1>4. \A f : Within(f)
  BY <1>1, <1>3 DEF Within, Unmoved
<1>5. PageTyped'
  <2>1. form' \in Forms
    BY DEF GivesUp, AccountTyped, PageTyped, Forms
  <2> QED
    BY <2>1 DEF GivesUp, AccountTyped, PageTyped, looks
<1>6. Unasked /\ UNCHANGED <<rows, settings>> /\ founded' = founded
  BY DEF GivesUp, rows
<1>7. \A t \in Slots : RequestOK(t)'
  BY <1>1, <1>3, <1>4, <1>6, RequestFrame
<1> QED
  BY <1>3, <1>4, <1>5, <1>6, <1>7, TypedFrom, RowsFrame, SettingsFrame DEF AccountTyped

LEMMA SignInTyped ==
    ASSUME AccountTyped, SignIn
    PROVE  AccountTyped' /\ \A f : Within(f)
<1>1. form' \in Forms /\ due' \in Timers
  BY BlankForm DEF SignIn, AccountTyped, PageTyped, Timers
<1>2. PageTyped'
  BY <1>1 DEF SignIn, AccountTyped, PageTyped
<1> QED
  BY <1>2, PageOnly DEF SignIn

\* What the page is given to start with is some preferences.
LEMMA InitializedTyped ==
    ASSUME PageTyped, NEW v \in Preferences,
           Initialized(v) \/ UNCHANGED <<shown, loaded, local, due, status>>,
           UNCHANGED <<page, registering, knob, wish>>
    PROVE  PageTyped'
<1>1. CASE Initialized(v)
  <2>1. <<"email", v.email>> \in Patches /\ v.theme \in Themes
    BY DEF Preferences, Patches
  <2>2. due' \in Timers
    BY <1>1, <2>1 DEF Initialized, Timers
  <2> QED
    BY <1>1, <2>1, <2>2 DEF Initialized, PageTyped, registering
<1>2. CASE UNCHANGED <<shown, loaded, local, due, status>>
  BY <1>2 DEF PageTyped, registering
<1> QED
  BY <1>1, <1>2

LEMMA LoadedTyped ==
    ASSUME AccountTyped, NEW s \in Slots, Loaded(s)
    PROVE  AccountTyped' /\ Within("load")
<1>1. /\ req[s] \in Reqs /\ req[s].op = "load" /\ req' = [req EXCEPT ![s] = Idle]
      /\ req[s] \in LoadReqs
  BY AtIs, Kinds DEF Loaded, AccountTyped
<1>2. req[s].val \in Preferences
  BY <1>1 DEF LoadReqs
<1>3. PageTyped'
  BY <1>2, InitializedTyped DEF Loaded, AccountTyped
<1>4. Unasked /\ UNCHANGED <<rows, settings>>
  BY DEF Loaded
<1> QED
  BY <1>1, <1>3, <1>4, EndedTyped

LEMMA LoadFailsTyped ==
    ASSUME AccountTyped, NEW s \in Slots, LoadFails(s)
    PROVE  AccountTyped' /\ Within("load")
<1>1. /\ req[s] \in Reqs /\ req[s].op = "load" /\ req' = [req EXCEPT ![s] = Idle]
  BY DEF LoadFails, AccountTyped, ReqsTyped
<1>2. shown \in Preferences
  BY DEF AccountTyped, PageTyped
<1>3. PageTyped'
  BY <1>2, InitializedTyped DEF LoadFails, AccountTyped
<1>4. Unasked /\ UNCHANGED <<rows, settings>>
  BY DEF LoadFails
<1> QED
  BY <1>1, <1>3, <1>4, EndedTyped

LEMMA SavedTyped ==
    ASSUME AccountTyped, NEW s \in Slots, Saved(s)
    PROVE  AccountTyped' /\ Within("save")
<1>1. req[s] \in Reqs /\ req[s].op = "save" /\ req' = [req EXCEPT ![s] = Idle]
  BY DEF Saved, AccountTyped, ReqsTyped
<1>2. status' \in {"idle", "loading", "saved", "error"}
  BY DEF Saved, AccountTyped, PageTyped
<1>3. PageTyped'
  BY <1>2 DEF Saved, AccountTyped, PageTyped, registering
<1>4. Unasked /\ UNCHANGED <<rows, settings>>
  BY DEF Saved
<1> QED
  BY <1>1, <1>3, <1>4, EndedTyped

LEMMA LeaveTyped ==
    ASSUME AccountTyped, Leave
    PROVE  AccountTyped' /\ \A f : Within(f)
<1>1. /\ ReqsTyped /\ \A t \in Slots : RequestOK(t)
      /\ req' = [s \in Slots |-> IF req[s] = Idle THEN Idle ELSE [req[s] EXCEPT !.heard = FALSE]]
  BY DEF Leave, AccountTyped
<1>2. \A s \in Slots : Unmoved(s)
  BY <1>1 DEF ReqsTyped, Unmoved
<1>3. ReqsTyped'
  <2>1. \A r \in Reqs : [r EXCEPT !.heard = FALSE] \in Reqs
    BY Unheard
  <2> QED
    BY <1>1, <2>1 DEF ReqsTyped
<1>4. \A f : Within(f)
  BY <1>2 DEF Within
<1>5. PageTyped'
  BY DEF Leave, AccountTyped, PageTyped, registering, Timers
<1>6. Act /\ UNCHANGED <<rows, settings>> /\ founded' = founded
  BY DEF Leave, rows
<1>7. \A t \in Slots : RequestOK(t)'
  <2>1. Within("load") /\ founded \subseteq founded'
    BY <1>4, <1>6
  <2> QED
    BY <1>1, <1>3, <2>1, RequestFrame
<1> QED
  BY <1>3, <1>4, <1>5, <1>6, <1>7, TypedFrom, RowsFrame, SettingsFrame DEF AccountTyped

LEMMA CodeExpiresTyped ==
    ASSUME AccountTyped, CodeExpires
    PROVE  AccountTyped' /\ \A f : Within(f)
<1>1. /\ Unasked /\ UNCHANGED <<rows, settings, req>>
      /\ UNCHANGED <<page, registering, due, looks, wish>>
  BY DEF CodeExpires, Unasked
<1>2. PageTyped'
  BY <1>1, PageFrame DEF AccountTyped
<1> QED
  BY <1>1, <1>2, PageOnly

\* At the start ...
LEMMA InitTyped == AccountInit => AccountTyped
<1> SUFFICES ASSUME AccountInit PROVE AccountTyped
  OBVIOUS
<1>1. setting \in Preferences /\ refused \in Choices /\ due \in Timers
  BY DEF AccountInit, Preferences, Themes, Choices, Timers
<1>2. PageTyped
  <2>1. page = "register" /\ form = Blank /\ asked = <<>> /\ wish = setting /\ shown = setting
    BY DEF AccountInit
  <2>2. loaded = FALSE /\ status = "idle" /\ local \in Themes /\ knob = local
    BY DEF AccountInit
  <2>3. <<>> \in Seq(Texts)
    OBVIOUS
  <2> QED
    BY <1>1, <2>1, <2>2, <2>3, BlankForm DEF PageTyped
<1>3. RowsTyped /\ SettingsTyped
  BY <1>1 DEF AccountInit, RowsTyped, SettingsTyped, Themes
<1>4. ReqsTyped /\ \A s \in Slots : RequestOK(s)
  BY DEF AccountInit, ReqsTyped, RequestOK, At
<1>5. acts \in 0..MaxActs /\ manner \in Manners
  <2>1. acts = 0 /\ manner \in Manners
    BY DEF AccountInit
  <2>2. MaxActs \in Nat
    BY AccountAssumption
  <2> QED
    BY <2>1, <2>2
<1> QED
  BY <1>2, <1>3, <1>4, <1>5 DEF AccountTyped

\* ... and when nothing happens.
LEMMA StutterTyped ==
    ASSUME AccountTyped, UNCHANGED accountVars
    PROVE  AccountTyped' /\ \A f : Within(f)
<1>1. /\ Unasked /\ UNCHANGED <<rows, settings, req>>
      /\ UNCHANGED <<page, registering, due, looks, wish>>
  BY DEF accountVars, Unasked
<1>2. PageTyped'
  BY <1>1, PageFrame DEF AccountTyped
<1> QED
  BY <1>1, <1>2, PageOnly

-----------------------------------------------------------------------------
(* What a request of another kind can do to one of this kind: nothing. *)

Of(s, kind) == req[s] # Idle /\ req[s].op = kind

\* What other requests do leaves a request as it was, but for who waits for it.
LEMMA KindFrame ==
    ASSUME ReqsTyped, ReqsTyped', NEW f, Within(f), NEW kind, kind # f, NEW s \in Slots
    PROVE  /\ Of(s, kind)' <=> Of(s, kind)
           /\ \A step : At(s, kind, step)' <=> At(s, kind, step)
           /\ Of(s, "register") /\ kind = "register" => req'[s].choice = req[s].choice
           /\ Of(s, "reset") /\ kind = "reset" => req'[s].code = req[s].code
           /\ Of(s, "load") /\ kind = "load" => req'[s].val = req[s].val
           /\ Of(s, "save") /\ kind = "save" => req'[s].patch = req[s].patch
<1>1. CASE req'[s] = req[s]
  BY <1>1 DEF Of, At
<1>2. CASE req[s] \in Reqs /\ req'[s] = [req[s] EXCEPT !.heard = FALSE]
  <2>1. req[s] # Idle /\ req'[s] # Idle
    BY <1>2, Unheard, IdleIs
  <2> QED
    BY <1>2, <2>1, Unheard DEF Of, At
<1>3. CASE (req[s] = Idle \/ req[s].op = f) /\ (req'[s] = Idle \/ req'[s].op = f)
  BY <1>3 DEF Of, At
<1> QED
  BY <1>1, <1>2, <1>3 DEF Within, Unmoved

\* A request that is somewhere is of some kind.
LEMMA AtOf == \A s \in Slots : \A op, step : At(s, op, step) => Of(s, op) /\ req[s] # Idle
BY DEF At, Of

-----------------------------------------------------------------------------
(* Codes. *)

\* Other requests set no password.
LEMMA WritingFrame ==
    ASSUME ReqsTyped, ReqsTyped', NEW f, Within(f), f # "reset", NEW n
    PROVE  Writing(n)' = Writing(n)
<1>1. \A s \in Slots : /\ At(s, "reset", "row")' <=> At(s, "reset", "row")
                       /\ At(s, "reset", "row") => req'[s].code = req[s].code
  BY KindFrame, AtOf
<1> QED
  BY <1>1 DEF Writing

LEMMA CodesFrame ==
    ASSUME ReqsTyped, ReqsTyped', NEW f, Within(f), f # "reset", CodesSound, UNCHANGED password
    PROVE  CodesSound'
<1>1. \A n : Writing(n)' = Writing(n)
  BY WritingFrame
<1>2. \A s \in Slots : /\ Of(s, "reset")' <=> Of(s, "reset")
                       /\ Of(s, "reset") => req'[s].code = req[s].code
  BY KindFrame
<1> QED
  BY <1>1, <1>2 DEF CodesSound, password, Of

\* Those who set a password are not more than the slots.
LEMMA WritingFinite ==
    ASSUME NEW n
    PROVE  /\ IsFiniteSet(Writing(n)) /\ Cardinality(Writing(n)) \in Nat
           /\ Cardinality(Slots) \in Nat /\ Cardinality(Writing(n)) <= Cardinality(Slots)
           /\ Cardinality(Writing(n)') \in Nat /\ Cardinality(Writing(n)') <= Cardinality(Slots)
<1>1. Writing(n) \subseteq Slots /\ Writing(n)' \subseteq Slots
  BY DEF Writing
<1> QED
  BY <1>1, AccountAssumption, FS_Subset, FS_CardinalityType

\* A code that was just sent has set no password.
LEMMA IssueCodeCodes ==
    ASSUME AccountTyped, CodesSound, NEW s \in Slots, IssueCode(s)
    PROVE  CodesSound'
<1>1. ReqsTyped /\ ReqsTyped' /\ Within("forgot")
  BY IssueCodeTyped DEF AccountTyped
<1>2. /\ codes' = Append(codes, 0) /\ liveCode' = Len(codes') /\ codes \in Seq(Nat)
      /\ Len(codes) \in Nat
  BY DEF IssueCode, CodesSound
<1>3. /\ codes' \in Seq(Nat) /\ Len(codes') = Len(codes) + 1 /\ codes'[Len(codes) + 1] = 0
      /\ \A n \in 1..Len(codes) : codes'[n] = codes[n]
  BY <1>2
<1>4. \A t \in Slots : /\ Of(t, "reset")' <=> Of(t, "reset")
                       /\ Of(t, "reset") => req'[t].code = req[t].code
  BY <1>1, KindFrame
<1>5. \A n : Writing(n)' = Writing(n)
  BY <1>1, WritingFrame
<1>6. ASSUME NEW n \in 1..Len(codes')
      PROVE  codes'[n] + Cardinality(Writing(n)') <= Cardinality(Slots)
  <2>1. CASE n \in 1..Len(codes)
    BY <1>3, <1>5, <2>1 DEF CodesSound
  <2>2. CASE n = Len(codes) + 1
    <3>1. codes'[n] = 0
      BY <1>3, <2>2
    <3> HIDE <2>2
    <3> QED
      BY <3>1, WritingFinite
  <2> QED
    BY <1>2, <1>3, <2>1, <2>2
<1>7. \A t \in Slots : Of(t, "reset")' => req'[t].code \in 1..Len(codes')
  <2>1. \A t \in Slots : Of(t, "reset") => req[t].code \in 1..Len(codes)
    BY DEF CodesSound, Of
  <2>2. 1..Len(codes) \subseteq 1..Len(codes')
    BY <1>2, <1>3
  <2> QED
    BY <1>4, <2>1, <2>2
<1>8. liveCode' \in 0..Len(codes') /\ codes'[liveCode'] = 0 /\ liveCode' = Len(codes')
  BY <1>2, <1>3
<1> QED
  BY <1>3, <1>6, <1>7, <1>8 DEF CodesSound, Of

\* Only the request of s changes, and it is a reset's.
LEMMA ResetOne ==
    ASSUME ReqsTyped, ReqsTyped', CodesSound, NEW s \in Slots,
           \A t \in Slots : t # s => req'[t] = req[t],
           Of(s, "reset")' => req'[s].code \in 1..Len(codes)
    PROVE  /\ \A t \in Slots : Of(t, "reset")' => req'[t].code \in 1..Len(codes)
           /\ \A n, t : t # s => (t \in Writing(n)' <=> t \in Writing(n))
<1>1. \A t \in Slots : t # s => (Of(t, "reset")' <=> Of(t, "reset"))
  BY DEF Of
<1>2. \A t \in Slots : t # s => (At(t, "reset", "row")' <=> At(t, "reset", "row"))
  BY DEF At
<1> QED
  BY <1>1, <1>2 DEF CodesSound, Of, Writing

\* A request that is not writing, before or after, takes nothing from the codes.
LEMMA ResetQuiet ==
    ASSUME ReqsTyped, ReqsTyped', CodesSound, UNCHANGED password, NEW s \in Slots,
           \A t \in Slots : t # s => req'[t] = req[t],
           ~At(s, "reset", "row"), ~At(s, "reset", "row")',
           Of(s, "reset")' => req'[s].code \in 1..Len(codes)
    PROVE  CodesSound'
<1>1. /\ \A t \in Slots : Of(t, "reset")' => req'[t].code \in 1..Len(codes)
      /\ \A n, t : t # s => (t \in Writing(n)' <=> t \in Writing(n))
  BY ResetOne
<1>2. \A n : s \notin Writing(n) /\ s \notin Writing(n)'
  BY DEF Writing
<1>3. \A n : Writing(n)' = Writing(n)
  BY <1>1, <1>2
<1> QED
  BY <1>1, <1>3 DEF CodesSound, password, Of

\* Codes that are tried are codes that were sent.
LEMMA ResetCodes ==
    ASSUME AccountTyped, CodesSound, NEW n \in DOMAIN codes, Reset(n)
    PROVE  CodesSound'
<1> DEFINE r == [op |-> "reset", step |-> "find", code |-> n, heard |-> FALSE]
<1>0. n \in 1..Len(codes) /\ n \in Nat
  BY DEF CodesSound
<1>1. r \in Reqs /\ r.op = "reset" /\ r.step = "find" /\ r.code = n
  BY <1>0 DEF Reqs, ResetReqs
<1>2. BeginRequest(r) /\ UNCHANGED password /\ ReqsTyped
  BY DEF Reset, AccountTyped
<1> HIDE DEF r
<1>3. ReqsTyped' /\ \E s \in Slots : /\ req[s] = Idle /\ req'[s] = r
                                     /\ \A t \in Slots : t # s => req'[t] = req[t]
  BY <1>1, <1>2, BeginIs
<1>4. PICK s \in Slots : req[s] = Idle /\ req'[s] = r /\ \A t \in Slots : t # s => req'[t] = req[t]
  BY <1>3
<1>5. ~At(s, "reset", "row") /\ ~At(s, "reset", "row")'
  BY <1>1, <1>4 DEF At
<1> QED
  BY <1>0, <1>1, <1>2, <1>3, <1>4, <1>5, ResetQuiet

\* A reset is over.
LEMMA ToldCodes ==
    ASSUME AccountTyped, CodesSound, NEW s \in Slots, Told(s)
    PROVE  CodesSound'
<1>1. /\ req[s] \in Reqs /\ req[s].step \in {"ok", "no"} /\ ReqsTyped
      /\ req' = [req EXCEPT ![s] = Idle] /\ UNCHANGED password
  BY DEF Told, AccountTyped, ReqsTyped
<1>2. ReqsTyped' /\ req'[s] = Idle /\ \A t \in Slots : t # s => req'[t] = req[t]
  BY <1>1, AnswerIs
<1>3. ~At(s, "reset", "row") /\ ~At(s, "reset", "row")' /\ ~Of(s, "reset")'
  BY <1>1, <1>2 DEF At, Of
<1> QED
  BY <1>1, <1>2, <1>3, ResetQuiet

\* How a request of a reset goes on.
LEMMA ResetGoes ==
    ASSUME AccountTyped, CodesSound, NEW s \in Slots, NEW step \in {"find", "row", "ok", "no"},
           Of(s, "reset"), Goto(s, step)
    PROVE  /\ ReqsTyped /\ ReqsTyped' /\ \A t \in Slots : t # s => req'[t] = req[t]
           /\ req[s].code \in 1..Len(codes) /\ req'[s].code = req[s].code
           /\ Of(s, "reset")' /\ (At(s, "reset", "row")' <=> step = "row")
<1>1. ReqsTyped /\ req[s] \in Reqs /\ req[s].op = "reset" /\ req[s].code \in 1..Len(codes)
  BY DEF AccountTyped, ReqsTyped, CodesSound, Of
<1>2. [req[s] EXCEPT !.step = step] \in Reqs
  BY <1>1, Onward
<1>3. /\ ReqsTyped' /\ req'[s] = [req[s] EXCEPT !.step = step]
      /\ \A t \in Slots : t # s => req'[t] = req[t]
  BY <1>1, <1>2, GotoIs
<1>4. req'[s].op = "reset" /\ req'[s].step = step /\ req'[s].code = req[s].code /\ req'[s] # Idle
  BY <1>1, <1>2, <1>3, Onward, IdleIs
<1> QED
  BY <1>1, <1>3, <1>4 DEF Of, At

\* Who finds the live code finds one that has set no password.
LEMMA ResetFindCodes ==
    ASSUME AccountTyped, CodesSound, NEW s \in Slots, ResetFind(s)
    PROVE  CodesSound'
<1> DEFINE c == req[s].code
           step == IF liveCode = c THEN "row" ELSE "no"
<1>1. /\ Goto(s, step) /\ UNCHANGED password /\ Of(s, "reset") /\ ~At(s, "reset", "row")
      /\ step \in {"row", "no"} /\ (step = "row" => liveCode = c)
  BY DEF ResetFind, At, Of
<1> HIDE DEF step
<1>2. /\ ReqsTyped /\ ReqsTyped' /\ \A t \in Slots : t # s => req'[t] = req[t]
      /\ c \in 1..Len(codes) /\ req'[s].code = c
      /\ At(s, "reset", "row")' <=> step = "row"
  BY <1>1, ResetGoes
<1>3. CASE step = "no"
  BY <1>1, <1>2, <1>3, ResetQuiet
<1>4. CASE step = "row"
  <2>1. /\ \A t \in Slots : Of(t, "reset")' => req'[t].code \in 1..Len(codes)
        /\ \A n, t : t # s => (t \in Writing(n)' <=> t \in Writing(n))
    BY <1>2, ResetOne
  <2>2. ASSUME NEW n \in 1..Len(codes)
        PROVE  codes[n] + Cardinality(Writing(n)') <= Cardinality(Slots)
    <3>1. CASE n = c
      <4>1. codes[n] = 0
        BY <1>1, <1>2, <1>4, <3>1 DEF CodesSound
      <4> QED
        BY <4>1, WritingFinite
    <3>2. CASE n # c
      <4>1. s \notin Writing(n) /\ s \notin Writing(n)'
        BY <1>1, <1>2, <3>2 DEF Writing
      <4>2. Writing(n)' = Writing(n)
        BY <2>1, <4>1
      <4> QED
        BY <4>2 DEF CodesSound
    <3> QED
      BY <3>1, <3>2
  <2> QED
    BY <1>1, <2>1, <2>2 DEF CodesSound, password, Of
<1> QED
  BY <1>1, <1>3, <1>4

\* One password is set, by one of those who were about to.
LEMMA ResetWriteCodes ==
    ASSUME AccountTyped, CodesSound, NEW s \in Slots, ResetWrite(s)
    PROVE  CodesSound'
<1> DEFINE c == req[s].code
<1>1. /\ Goto(s, "ok") /\ Of(s, "reset") /\ At(s, "reset", "row")
      /\ codes' = [codes EXCEPT ![c] = @ + 1] /\ liveCode' = 0 /\ codes \in Seq(Nat)
  BY DEF ResetWrite, At, Of, CodesSound
<1>2. /\ ReqsTyped /\ ReqsTyped' /\ \A t \in Slots : t # s => req'[t] = req[t]
      /\ c \in 1..Len(codes) /\ req'[s].code = c
      /\ ~At(s, "reset", "row")'
  BY <1>1, ResetGoes
<1>3. /\ \A t \in Slots : Of(t, "reset")' => req'[t].code \in 1..Len(codes)
      /\ \A n, t : t # s => (t \in Writing(n)' <=> t \in Writing(n))
  BY <1>2, ResetOne
<1>4. /\ codes' \in Seq(Nat) /\ Len(codes') = Len(codes) /\ codes'[c] = codes[c] + 1
      /\ \A n \in 1..Len(codes) : codes[n] \in Nat /\ (n # c => codes'[n] = codes[n])
  BY <1>1, <1>2
<1>5. ASSUME NEW n \in 1..Len(codes)
      PROVE  codes'[n] + Cardinality(Writing(n)') <= Cardinality(Slots)
  <2>0. codes[n] + Cardinality(Writing(n)) <= Cardinality(Slots)
    BY DEF CodesSound
  <2>3. s \notin Writing(n)'
    BY <1>2 DEF Writing
  <2>1. CASE n = c
    <3>0. s \in Writing(n)
      BY <1>1, <2>1 DEF Writing
    <3>1. Writing(n)' = Writing(n) \ {s}
      <4>1. \A t : t \in Writing(n)' <=> t \in Writing(n) \ {s}
        BY <1>3, <2>3
      <4> QED
        BY <4>1
    <3>2. Cardinality(Writing(n)') = Cardinality(Writing(n)) - 1
      BY <3>0, <3>1, WritingFinite, FS_RemoveElement
    <3>3. /\ codes'[n] = codes[n] + 1 /\ codes[n] \in Nat /\ Cardinality(Writing(n)) \in Nat
          /\ Cardinality(Slots) \in Nat
      BY <1>4, <2>1, WritingFinite
    <3> QED
      BY <2>0, <3>2, <3>3
  <2>2. CASE n # c
    <3>1. s \notin Writing(n)
      BY <2>2 DEF Writing
    <3>2. Writing(n)' = Writing(n)
      <4>1. \A t : t \in Writing(n)' <=> t \in Writing(n)
        BY <1>3, <2>3, <3>1
      <4> QED
        BY <4>1
    <3> QED
      BY <1>4, <2>0, <2>2, <3>2
  <2> QED
    BY <2>1, <2>2
<1>6. liveCode' = 0 /\ liveCode' \in 0..Len(codes')
  BY <1>1, <1>4
<1> QED
  BY <1>3, <1>4, <1>5, <1>6 DEF CodesSound, Of

\* A code that has expired is live no more.
LEMMA CodeExpiresCodes ==
    ASSUME CodesSound, CodeExpires
    PROVE  CodesSound'
<1>1. UNCHANGED <<req, codes>> /\ liveCode' = 0 /\ Len(codes) \in Nat
  BY DEF CodeExpires, CodesSound
<1>2. \A n : Writing(n)' = Writing(n)
  BY <1>1 DEF Writing, At
<1>3. 0 \in 0..Len(codes)
  BY <1>1
<1> QED
  BY <1>1, <1>2, <1>3 DEF CodesSound

LEMMA InitCodes == AccountInit => CodesSound
<1> SUFFICES ASSUME AccountInit PROVE CodesSound
  OBVIOUS
<1>1. codes = <<>> /\ liveCode = 0 /\ \A s \in Slots : req[s] = Idle
  BY DEF AccountInit
<1> QED
  BY <1>1 DEF CodesSound

-----------------------------------------------------------------------------
(* In calm: what each kind of request leaves alone. *)

LEMMA CodesOnceFrame ==
    ASSUME ReqsTyped, ReqsTyped', NEW f, Within(f), f # "reset", CodesOnce, UNCHANGED codes
    PROVE  CodesOnce'
<1>1. \A s \in Slots : /\ At(s, "reset", "row")' <=> At(s, "reset", "row")
                       /\ At(s, "reset", "row") => req'[s].code = req[s].code
  BY KindFrame, AtOf
<1> QED
  BY <1>1 DEF CodesOnce

LEMMA RefusalsFrame ==
    ASSUME ReqsTyped, ReqsTyped', NEW f, Within(f), f # "register", RefusalsJust,
           UNCHANGED <<registered, refused>>, form'.choice = form.choice
    PROVE  RefusalsJust'
<1>1. \A s \in Slots : \A step : /\ At(s, "register", step)' <=> At(s, "register", step)
                                 /\ At(s, "register", step) => req'[s].choice = req[s].choice
  BY KindFrame, AtOf
<1> QED
  BY <1>1 DEF RefusalsJust

LEMMA RefusalsIdle ==
    ASSUME RefusalsJust, UNCHANGED <<registered, refused, req>>, \A s \in Slots : req[s] = Idle
    PROVE  RefusalsJust'
<1>1. \A s \in Slots : \A step : ~At(s, "register", step)'
  BY DEF At
<1> QED
  BY <1>1 DEF RefusalsJust

LEMMA FoundedFrame ==
    ASSUME ReqsTyped, ReqsTyped', NEW f, Within(f), f # "register", FoundedWhole, UNCHANGED rows
    PROVE  FoundedWhole'
<1>1. \A s \in Slots : \A step : /\ At(s, "register", step)' <=> At(s, "register", step)
                                 /\ At(s, "register", step) => req'[s].choice = req[s].choice
  BY KindFrame, AtOf
<1>2. \A n : FoundedFor(n) => FoundedFor(n)'
  BY <1>1 DEF FoundedFor, rows
<1> QED
  BY <1>1, <1>2 DEF FoundedWhole, rows

LEMMA WishesFrame ==
    ASSUME ReqsTyped, ReqsTyped', NEW f, Within(f), f \notin {"load", "save"}, WishesKept,
           UNCHANGED settings, UNCHANGED wish, UNCHANGED due \/ (~Patching /\ ~Patching'),
           page' = "settings" => UNCHANGED <<page, loaded, local>>
    PROVE  WishesKept'
<1>1. \A s \in Slots : \A step : /\ At(s, "save", step)' <=> At(s, "save", step)
                                 /\ At(s, "save", step) => req'[s].patch = req[s].patch
  BY KindFrame, AtOf
<1>2. \A s \in Slots : \A step : /\ At(s, "load", step)' <=> At(s, "load", step)
                                 /\ At(s, "load", step) => req'[s].val = req[s].val
  BY KindFrame, AtOf
<1>3. /\ \A p : Written(p) => Written(p)'
      /\ Agreed => Agreed'
      /\ setting' = setting /\ wish' = wish
  BY DEF Written, Agreed, settings
<1>4. /\ Patching' => Patching /\ due'.patch = due.patch
      /\ Patching => Patching'
  BY DEF Patching
<1>5. Patching' => Written(due.patch)'
  BY <1>3, <1>4 DEF WishesKept
<1>6. ASSUME NEW s \in Slots
      PROVE  /\ At(s, "save", "row")' => Written(req[s].patch)'
             /\ At(s, "save", "user")' => (setting = wish /\ req[s].patch[2] = setting.theme)'
             /\ At(s, "load", "ok")' => (req[s].val = setting)'
  <2>1. /\ At(s, "save", "row") => Written(req[s].patch)
        /\ At(s, "save", "user") => setting = wish /\ req[s].patch[2] = setting.theme
        /\ At(s, "load", "ok") => req[s].val = setting
    BY DEF WishesKept
  <2>2. At(s, "save", "row")' => Written(req[s].patch)'
    <3>1. SUFFICES ASSUME At(s, "save", "row")' PROVE Written(req[s].patch)'
      OBVIOUS
    <3>2. Written(req[s].patch) /\ req'[s].patch = req[s].patch
      BY <1>1, <2>1, <3>1
    <3> QED
      BY <3>2 DEF Written, settings
  <2>3. At(s, "save", "user")' => (setting = wish /\ req[s].patch[2] = setting.theme)'
    BY <1>1, <1>3, <2>1
  <2>4. At(s, "load", "ok")' => (req[s].val = setting)'
    BY <1>2, <1>3, <2>1
  <2> QED
    BY <2>2, <2>3, <2>4
<1>7. \/ Patching' \/ Agreed'
      \/ \E s \in Slots : At(s, "save", "row")' \/ At(s, "save", "user")'
  BY <1>1, <1>3, <1>4 DEF WishesKept
<1>8. page' = "settings" /\ loaded' => local' = wish'.theme
  BY DEF WishesKept
<1> QED
  BY <1>5, <1>6, <1>7, <1>8 DEF WishesKept

-----------------------------------------------------------------------------
(* ... and that nobody else is at work. *)

AllIdle == \A s \in Slots : req[s] = Idle

\* The one that is at work goes on, or is done.
LEMMA AloneGoesOn ==
    ASSUME Alone, NEW s \in Slots, req[s] # Idle, \A t \in Slots : t # s => req'[t] = req[t],
           UNCHANGED <<asked, due>>
    PROVE  Alone'
<1>1. \A t \in Slots : t # s => req'[t] = Idle
  BY DEF Alone
<1>2. due = NoTimer /\ asked = <<>>
  BY DEF Alone
<1> QED
  BY <1>1, <1>2 DEF Alone

\* The one that was at work is done, and a timer runs.
LEMMA AloneEnds ==
    ASSUME Alone, NEW s \in Slots, req[s] # Idle, \A t \in Slots : t # s => req'[t] = req[t],
           req'[s] = Idle, UNCHANGED asked
    PROVE  Alone' /\ AllIdle'
<1>1. \A t \in Slots : req'[t] = Idle
  BY DEF Alone
<1>2. asked = <<>>
  BY DEF Alone
<1> QED
  BY <1>1, <1>2 DEF Alone, AllIdle

LEMMA AloneBegins ==
    ASSUME Alone, ReqsTyped, AllIdle, NEW r \in Reqs, BeginRequest(r),
           asked = <<>>, UNCHANGED asked, due' = NoTimer
    PROVE  Alone'
<1>1. PICK s \in Slots : \A t \in Slots : t # s => req'[t] = req[t]
  BY BeginIs
<1> QED
  BY <1>1 DEF Alone, AllIdle

LEMMA AloneIdle ==
    ASSUME Alone, AllIdle, UNCHANGED req, due' = NoTimer \/ asked' = <<>>, Len(asked') <= 1
    PROVE  Alone'
BY DEF Alone, AllIdle

\* In calm the user acts when everything has settled.
LEMMA CalmAct ==
    ASSUME manner = "calm", Act
    PROVE  /\ AllIdle /\ due = NoTimer /\ asked = <<>> /\ manner' = manner
           /\ page = "settings" => loaded
BY DEF Act, Settled, AllIdle

\* When no patch is due.
LEMMA NotPatching ==
    /\ due = NoTimer => ~Patching
    /\ due' = NoTimer => ~Patching'
    /\ \A x : (due = Search(x) => ~Patching) /\ (due' = Search(x) => ~Patching')
    /\ Searches => ~Patching
BY DEF NoTimer, Search, Patching, Searches

\* Registrations leave the codes and the preferences alone ...
LEMMA RegistersLeave ==
    ASSUME ReqsTyped, ReqsTyped', CodesOnce, WishesKept, Within("register"),
           UNCHANGED <<password, settings, wish>>, UNCHANGED due,
           page' = "settings" => UNCHANGED <<page, loaded, local>>
    PROVE  CodesOnce' /\ WishesKept'
BY CodesOnceFrame, WishesFrame DEF password

\* ... resets the registrations and the preferences ...
LEMMA ResetsLeave ==
    ASSUME ReqsTyped, ReqsTyped', CalmParts, NEW f \in {"forgot", "reset"}, Within(f),
           UNCHANGED <<rows, settings, page, registering, due, looks, wish>>
    PROVE  RefusalsJust' /\ FoundedWhole' /\ WishesKept'
<1>1. UNCHANGED <<registered, refused, form, loaded, local>>
  BY DEF rows, registering, looks
<1> QED
  BY <1>1, RefusalsFrame, FoundedFrame, WishesFrame DEF CalmParts

\* ... and preferences the codes and the registrations.
LEMMA SettingsLeave ==
    ASSUME ReqsTyped, ReqsTyped', CalmParts, NEW f \in {"load", "save"}, Within(f),
           UNCHANGED <<rows, password, registering>>
    PROVE  CodesOnce' /\ RefusalsJust' /\ FoundedWhole'
<1>1. UNCHANGED <<registered, refused, form, codes>>
  BY DEF rows, registering, password
<1> QED
  BY <1>1, CodesOnceFrame, RefusalsFrame, FoundedFrame DEF CalmParts

\* Where a request is after its step.
LEMMA GoesOn ==
    ASSUME ReqsTyped, NEW s \in Slots, req[s] # Idle, NEW step, Goto(s, step)
    PROVE  /\ \A op, at : At(s, op, at)' <=> req[s].op = op /\ at = step
           /\ req[s].op = "register" => req'[s].choice = req[s].choice
           /\ req[s].op = "reset" => req'[s].code = req[s].code
           /\ req[s].op = "load" => req'[s].val = req[s].val
           /\ req[s].op = "save" => req'[s].patch = req[s].patch
           /\ \A t \in Slots : t # s => req'[t] = req[t]
<1> DEFINE r == [req[s] EXCEPT !.step = step]
<1>1. req[s] \in Reqs
  BY DEF ReqsTyped
<1>2. /\ r.op = req[s].op /\ r.step = step
      /\ req[s].op = "register" => r.choice = req[s].choice
      /\ req[s].op = "reset" => r.code = req[s].code
      /\ req[s].op = "load" => r.val = req[s].val
      /\ req[s].op = "save" => r.patch = req[s].patch
  BY <1>1, Onward
<1>3. req'[s] = r /\ \A t \in Slots : t # s => req'[t] = req[t]
  BY DEF Goto, ReqsTyped
<1>4. req[s].op # "none" /\ Idle.op = "none"
  BY <1>1, IdleIs DEF Reqs, RegisterReqs, ForgotReqs, ResetReqs, LoadReqs, SaveReqs
<1> HIDE DEF r
<1>5. req'[s] # Idle
  BY <1>2, <1>3, <1>4
<1> QED
  BY <1>2, <1>3, <1>5 DEF At

\* While s is at work the others are idle, before and after.
LEMMA OthersIdle ==
    ASSUME Alone, NEW s \in Slots, req[s] # Idle, \A t \in Slots : t # s => req'[t] = req[t]
    PROVE  /\ due = NoTimer /\ asked = <<>>
           /\ \A t \in Slots : t # s => \A op, at : ~At(t, op, at) /\ ~At(t, op, at)'
BY DEF Alone, At

-----------------------------------------------------------------------------
(* Registrations. *)

\* What is shown of a registration's step when only it is at work.
LEMMA RefusalsOf ==
    ASSUME NEW s \in Slots, \A t \in Slots : t # s => \A op, at : ~At(t, op, at)',
           (refused # None => refused \in {Independent, TooLong} \/ registered)',
           At(s, "register", "find")' => (req[s].choice = form.choice)',
           At(s, "register", "create")' =>
              (req[s].choice = Independent => form.choice = Independent)',
           At(s, "register", "no")' => (registered \/ form.choice = Independent)'
    PROVE  RefusalsJust'
BY DEF RefusalsJust

\* Whoever has an account is refused; the form's choice is what goes on.
LEMMA RegisterFindCalm ==
    ASSUME AccountTyped, CalmParts, NEW s \in Slots, RegisterFind(s)
    PROVE  CalmParts'
<1> DEFINE step == IF registered THEN "no" ELSE IF req[s].choice = New THEN "found" ELSE "create"
<1>1. /\ At(s, "register", "find") /\ req[s] # Idle /\ req[s].op = "register" /\ Goto(s, step)
      /\ UNCHANGED <<rows, password, settings, page, registering, due, looks, wish>>
  BY DEF RegisterFind, At
<1>2. ReqsTyped /\ ReqsTyped' /\ Within("register")
  BY RegisterFindTyped DEF AccountTyped
<1>3. /\ step = "no" => registered
      /\ step \in {"found", "create"} => ~registered
      /\ step \in {"no", "found", "create"}
  OBVIOUS
<1> HIDE DEF step
<1>4. /\ \A op, at : At(s, op, at)' <=> op = "register" /\ at = step
      /\ req'[s].choice = req[s].choice /\ \A t \in Slots : t # s => req'[t] = req[t]
  BY <1>1, <1>2, GoesOn
<1>5. /\ due = NoTimer /\ asked = <<>>
      /\ \A t \in Slots : t # s => \A op, at : ~At(t, op, at) /\ ~At(t, op, at)'
  BY <1>1, <1>4, OthersIdle DEF CalmParts
<1>6. UNCHANGED <<registered, member, founded, claimed, form, asked, refused, loaded, local, page,
                  due, wish, settings, password>>
  BY <1>1 DEF rows, registering, looks
<1>7. Alone'
  BY <1>1, <1>4, <1>6, AloneGoesOn DEF CalmParts
<1>8. CodesOnce' /\ WishesKept'
  BY <1>2, <1>6, RegistersLeave DEF CalmParts
<1>9. RefusalsJust'
  <2>1. req[s].choice = form.choice /\ (refused # None => refused \in {Independent, TooLong} \/ registered)
    BY <1>1 DEF CalmParts, RefusalsJust
  <2> QED
    BY <1>3, <1>4, <1>5, <1>6, <2>1, RefusalsOf
<1>10. FoundedWhole'
  <2>1. ASSUME NEW n \in founded PROVE FoundedFor(n)'
    <3>1. registered /\ member = n /\ n \in claimed
      BY <1>1, <1>5 DEF CalmParts, FoundedWhole, FoundedFor, At
    <3> QED
      BY <1>6, <3>1 DEF FoundedFor
  <2> QED
    BY <1>3, <1>4, <1>5, <1>6, <2>1 DEF FoundedWhole
<1> QED
  BY <1>7, <1>8, <1>9, <1>10 DEF CalmParts

\* A form that was too long.
LEMMA TurnedAwayCalm ==
    ASSUME AccountTyped, CalmParts, manner = "calm", NEW s \in Slots, TurnedAway(s)
    PROVE  CalmParts'
<1>1. /\ At(s, "register", "find") /\ req[s] # Idle /\ req[s].op = "register" /\ Goto(s, "unfit")
      /\ UNCHANGED <<rows, password, settings, page, registering, due, looks, wish>>
  BY DEF TurnedAway, At
<1>2. ReqsTyped /\ ReqsTyped' /\ Within("register")
  BY TurnedAwayTyped DEF AccountTyped
<1>3. /\ \A op, at : At(s, op, at)' <=> op = "register" /\ at = "unfit"
      /\ \A t \in Slots : t # s => req'[t] = req[t]
  BY <1>1, <1>2, GoesOn
<1>4. \A t \in Slots : t # s => \A op, at : ~At(t, op, at) /\ ~At(t, op, at)'
  BY <1>1, <1>3, OthersIdle DEF CalmParts
<1>5. UNCHANGED <<registered, member, founded, claimed, form, asked, refused, loaded, local, page,
                  due, wish, settings, password>>
  BY <1>1 DEF rows, registering, looks
<1>6. Alone'
  BY <1>1, <1>3, <1>5, AloneGoesOn DEF CalmParts
<1>7. CodesOnce' /\ WishesKept'
  BY <1>2, <1>5, RegistersLeave DEF CalmParts
<1>8. RefusalsJust'
  BY <1>3, <1>4, <1>5, RefusalsOf DEF CalmParts, RefusalsJust
<1>9. FoundedWhole'
  <2>1. ASSUME NEW n \in founded PROVE FoundedFor(n)'
    <3>1. registered /\ member = n /\ n \in claimed
      BY <1>1, <1>4 DEF CalmParts, FoundedWhole, FoundedFor, At
    <3> QED
      BY <1>5, <3>1 DEF FoundedFor
  <2> QED
    BY <1>3, <1>4, <1>5, <2>1 DEF FoundedWhole
<1> QED
  BY <1>6, <1>7, <1>8, <1>9 DEF CalmParts

\* The first institution that is founded, for who has no account yet.
LEMMA FoundCalm ==
    ASSUME AccountTyped, CalmParts, NEW s \in Slots, Found(s)
    PROVE  CalmParts'
<1>1. /\ At(s, "register", "found") /\ req[s] # Idle /\ req[s].op = "register"
      /\ UNCHANGED <<registered, member, claimed, password, settings, page, registering, due, looks,
                     wish>>
  BY DEF Found, At
<1>2. ReqsTyped /\ ReqsTyped' /\ Within("register")
  BY FoundTyped DEF AccountTyped
<1>3. PICK n \in Newcomers \ founded :
          /\ founded' = founded \cup {n}
          /\ req' = [req EXCEPT ![s].step = "create", ![s].choice = n]
  BY DEF Found
<1>4. /\ req'[s] = [req[s] EXCEPT !.step = "create", !.choice = n]
      /\ \A t \in Slots : t # s => req'[t] = req[t]
  BY <1>2, <1>3 DEF ReqsTyped
<1>5. req[s] \in RegisterReqs
  BY <1>1, <1>2, Kinds DEF ReqsTyped
<1>6. req'[s].op = "register" /\ req'[s].step = "create" /\ req'[s].choice = n
  BY <1>4, <1>5 DEF RegisterReqs
<1>7. At(s, "register", "create")' /\ \A op, at : At(s, op, at)' => op = "register" /\ at = "create"
  BY <1>6, IdleIs DEF At
<1>8. /\ due = NoTimer /\ asked = <<>>
      /\ \A t \in Slots : t # s => \A op, at : ~At(t, op, at) /\ ~At(t, op, at)'
  BY <1>1, <1>4, OthersIdle DEF CalmParts
<1>9. UNCHANGED <<registered, member, claimed, form, asked, refused, loaded, local, page,
                  due, wish, settings, password>>
  BY <1>1 DEF registering, looks
<1>10. ~registered /\ n # Independent /\ (refused # None => refused \in {Independent, TooLong} \/ registered)
  BY <1>1, <1>3, AccountAssumption DEF CalmParts, FoundedWhole, RefusalsJust, Independent
<1>11. Alone'
  BY <1>1, <1>4, <1>9, AloneGoesOn DEF CalmParts
<1>12. CodesOnce' /\ WishesKept'
  BY <1>2, <1>9, RegistersLeave DEF CalmParts
<1>13. RefusalsJust'
  BY <1>6, <1>7, <1>8, <1>9, <1>10, RefusalsOf
<1>14. FoundedWhole'
  <2>1. founded = {}
    BY <1>1, <1>8, <1>10 DEF CalmParts, FoundedWhole, FoundedFor, At
  <2>2. FoundedFor(n)'
    BY <1>6, <1>7, <1>9, <1>10 DEF FoundedFor
  <2> QED
    BY <1>3, <1>8, <1>9, <1>10, <2>1, <2>2 DEF FoundedWhole
<1> QED
  BY <1>11, <1>12, <1>13, <1>14 DEF CalmParts

\* The account of the institution that was founded, or a refusal and none was founded.
LEMMA CreateUserCalm ==
    ASSUME AccountTyped, CalmParts, NEW s \in Slots, CreateUser(s)
    PROVE  CalmParts'
<1> DEFINE c == req[s].choice
           step == IF c = Independent THEN "no" ELSE IF c \in founded THEN "claim" ELSE "ok"
<1>1. /\ At(s, "register", "create") /\ req[s] # Idle /\ req[s].op = "register"
      /\ UNCHANGED <<founded, claimed, password, settings, page, registering, due, looks, wish>>
  BY DEF CreateUser, At
<1>2. ReqsTyped /\ ReqsTyped' /\ Within("register") /\ RowsTyped
  BY CreateUserTyped DEF AccountTyped
<1>3. ~registered /\ (c = Independent => form.choice = Independent)
  BY <1>1 DEF CalmParts, FoundedWhole, RefusalsJust
<1>4. /\ Goto(s, step)
      /\ step = "no" => UNCHANGED <<registered, member>>
      /\ step # "no" => registered' = TRUE /\ member' = c
  BY <1>3 DEF CreateUser, KnownInstitution
<1>5. /\ step = "no" <=> c = Independent
      /\ step = "claim" => c \in founded
      /\ c \in founded /\ c # Independent => step = "claim"
      /\ step \in {"no", "claim", "ok"}
  OBVIOUS
<1> HIDE DEF step
<1>6. /\ \A op, at : At(s, op, at)' <=> op = "register" /\ at = step
      /\ req'[s].choice = c /\ \A t \in Slots : t # s => req'[t] = req[t]
  BY <1>1, <1>2, <1>4, GoesOn
<1>7. /\ due = NoTimer /\ asked = <<>>
      /\ \A t \in Slots : t # s => \A op, at : ~At(t, op, at) /\ ~At(t, op, at)'
  BY <1>1, <1>6, OthersIdle DEF CalmParts
<1>8. UNCHANGED <<founded, claimed, form, asked, refused, loaded, local, page, due, wish, settings,
                  password>>
  BY <1>1 DEF registering, looks
<1>9. Alone'
  BY <1>1, <1>6, <1>8, AloneGoesOn DEF CalmParts
<1>10. CodesOnce' /\ WishesKept'
  BY <1>2, <1>8, RegistersLeave DEF CalmParts
<1>11. RefusalsJust'
  <2>1. refused # None => refused \in {Independent, TooLong}
    BY <1>3 DEF CalmParts, RefusalsJust
  <2> QED
    BY <1>3, <1>5, <1>6, <1>7, <1>8, <2>1, RefusalsOf
<1>12. FoundedWhole'
  <2>1. ASSUME NEW n \in founded PROVE FoundedFor(n)'
    <3>1. c = n
      BY <1>3, <1>7 DEF CalmParts, FoundedWhole, FoundedFor, At
    <3>2. c # Independent
      BY <1>2, <3>1, AccountAssumption DEF RowsTyped, Independent
    <3>3. At(s, "register", "claim")' /\ registered' /\ member' = n
      BY <1>4, <1>5, <1>6, <3>1, <3>2
    <3> QED
      BY <1>6, <3>1, <3>3 DEF FoundedFor
  <2> QED
    BY <1>5, <1>6, <1>7, <1>8, <2>1 DEF FoundedWhole
<1> QED
  BY <1>9, <1>10, <1>11, <1>12 DEF CalmParts

\* The institution gets its owner.
LEMMA ClaimCalm ==
    ASSUME AccountTyped, CalmParts, NEW s \in Slots, Claim(s)
    PROVE  CalmParts'
<1>1. /\ At(s, "register", "claim") /\ req[s] # Idle /\ req[s].op = "register" /\ Goto(s, "ok")
      /\ claimed' = claimed \cup {req[s].choice}
      /\ UNCHANGED <<registered, member, founded, password, settings, page, registering, due, looks,
                     wish>>
  BY DEF Claim, At
<1>2. ReqsTyped /\ ReqsTyped' /\ Within("register")
  BY ClaimTyped DEF AccountTyped
<1>4. /\ \A op, at : At(s, op, at)' <=> op = "register" /\ at = "ok"
      /\ \A t \in Slots : t # s => req'[t] = req[t]
  BY <1>1, <1>2, GoesOn
<1>5. /\ due = NoTimer /\ asked = <<>>
      /\ \A t \in Slots : t # s => \A op, at : ~At(t, op, at) /\ ~At(t, op, at)'
  BY <1>1, <1>4, OthersIdle DEF CalmParts
<1>6. UNCHANGED <<registered, member, founded, form, asked, refused, loaded, local, page,
                  due, wish, settings, password>>
  BY <1>1 DEF registering, looks
<1>7. Alone'
  BY <1>1, <1>4, <1>6, AloneGoesOn DEF CalmParts
<1>8. CodesOnce' /\ WishesKept'
  BY <1>2, <1>6, RegistersLeave DEF CalmParts
<1>9. RefusalsJust'
  BY <1>4, <1>5, <1>6, RefusalsOf DEF CalmParts, RefusalsJust
<1>10. FoundedWhole'
  <2>1. ASSUME NEW n \in founded PROVE FoundedFor(n)'
    <3>1. registered /\ member = n /\ (n \in claimed \/ req[s].choice = n)
      BY <1>1, <1>5 DEF CalmParts, FoundedWhole, FoundedFor, At
    <3> QED
      BY <1>1, <1>6, <3>1 DEF FoundedFor
  <2> QED
    BY <1>4, <1>5, <1>6, <2>1 DEF FoundedWhole
<1> QED
  BY <1>7, <1>8, <1>9, <1>10 DEF CalmParts

\* A registration that was answered.
LEMMA AnsweredCalm ==
    ASSUME AccountTyped, AccountTyped', CalmParts, NEW s \in Slots, Within("register"),
           \E at \in {"ok", "no", "unfit"} : At(s, "register", at), req' = [req EXCEPT ![s] = Idle],
           UNCHANGED <<rows, password, settings, wish, asked, due>>,
           page' = "settings" => UNCHANGED <<page, loaded, local>>,
           refused' # refused => registered' \/ refused' \in {Independent, TooLong}
    PROVE  CalmParts'
<1>1. ReqsTyped /\ ReqsTyped' /\ req[s] \in Reqs /\ req[s] # Idle
  BY DEF AccountTyped, ReqsTyped, At
<1>2. req'[s] = Idle /\ \A t \in Slots : t # s => req'[t] = req[t]
  BY <1>1, AnswerIs
<1>3. \A t \in Slots : t # s => \A op, at : ~At(t, op, at) /\ ~At(t, op, at)'
  BY <1>1, <1>2, OthersIdle DEF CalmParts
<1>4. \A op, at : ~At(s, op, at)'
  BY <1>2 DEF At
<1>5. Alone'
  BY <1>1, <1>2, AloneGoesOn DEF CalmParts
<1>6. CodesOnce' /\ WishesKept'
  BY <1>1, RegistersLeave DEF CalmParts
<1>7. RefusalsJust'
  BY <1>3, <1>4, RefusalsOf DEF CalmParts, RefusalsJust, rows
<1>8. FoundedWhole'
  <2>1. ASSUME NEW n \in founded PROVE FoundedFor(n)'
    <3>1. registered /\ member = n /\ n \in claimed
      BY <1>3 DEF CalmParts, FoundedWhole, FoundedFor, At
    <3> QED
      BY <3>1 DEF FoundedFor, rows
  <2> QED
    BY <1>3, <1>4, <2>1 DEF FoundedWhole, rows
<1> QED
  BY <1>5, <1>6, <1>7, <1>8 DEF CalmParts

LEMMA WelcomeCalm ==
    ASSUME AccountTyped, CalmParts, NEW s \in Slots, Welcome(s)
    PROVE  CalmParts'
<1>1. AccountTyped' /\ Within("register")
  BY WelcomeTyped
<1>2. /\ At(s, "register", "ok") /\ req' = [req EXCEPT ![s] = Idle]
      /\ UNCHANGED <<rows, password, settings, wish, asked, refused, loaded, local>>
      /\ page' = "settings" => UNCHANGED page
      /\ due' \in {due, NoTimer}
  BY DEF Welcome
<1>3. due = NoTimer
  BY <1>2 DEF CalmParts, Alone, At
<1>4. /\ UNCHANGED <<rows, password, settings, wish, asked, due>>
      /\ page' = "settings" => UNCHANGED <<page, loaded, local>>
      /\ refused' = refused
  BY <1>2, <1>3
<1> QED
  BY <1>1, <1>2, <1>4, AnsweredCalm

LEMMA RegistrationRefusedCalm ==
    ASSUME AccountTyped, CalmParts, NEW s \in Slots, RegistrationRefused(s)
    PROVE  CalmParts'
<1>1. AccountTyped' /\ Within("register")
  BY RegistrationRefusedTyped
<1>2. /\ At(s, "register", "no") \/ At(s, "register", "unfit")
      /\ req' = [req EXCEPT ![s] = Idle]
      /\ UNCHANGED <<rows, password, settings, page, wish, asked, due, looks>>
      /\ refused' \in {refused, TooLong} \/ (refused' = form.choice /\ At(s, "register", "no"))
  BY DEF RegistrationRefused, At
<1>3. At(s, "register", "no") => registered \/ form.choice = Independent
  BY DEF CalmParts, RefusalsJust
<1>4. /\ UNCHANGED <<rows, password, settings, wish, asked, due>>
      /\ page' = "settings" => UNCHANGED <<page, loaded, local>>
      /\ refused' # refused => registered' \/ refused' \in {Independent, TooLong}
  BY <1>2, <1>3 DEF looks, rows
<1> QED
  BY <1>1, <1>2, <1>4, AnsweredCalm

\* What the form has chosen is sent.
LEMMA SubmitCalm ==
    ASSUME AccountTyped, CalmParts, manner = "calm", Submit
    PROVE  CalmParts'
<1> DEFINE r == [op |-> "register", step |-> "find", choice |-> form.choice, heard |-> TRUE]
<1>1. AccountTyped' /\ Within("register") /\ ReqsTyped /\ ReqsTyped' /\ form \in Forms
  BY SubmitTyped DEF AccountTyped, PageTyped
<1>2. /\ AllIdle /\ due = NoTimer /\ asked = <<>> /\ BeginRequest(r)
      /\ form' = [form EXCEPT !.sending = TRUE]
      /\ UNCHANGED <<rows, password, settings, page, asked, refused, due, looks, wish>>
  BY CalmAct DEF Submit, Chosen
<1>3. r \in Reqs /\ r.op = "register" /\ r.step = "find" /\ r.choice = form.choice
  BY <1>1 DEF Forms, Reqs, RegisterReqs
<1>4. form'.choice = form.choice
  BY <1>1, <1>2 DEF Forms
<1> HIDE DEF r
<1>5. PICK s \in Slots : req'[s] = r /\ \A t \in Slots : t # s => req'[t] = req[t]
  BY <1>1, <1>2, <1>3, BeginIs
<1>6. /\ \A op, at : At(s, op, at)' => op = "register" /\ at = "find"
      /\ \A t \in Slots : t # s => \A op, at : ~At(t, op, at)'
      /\ \A t \in Slots : \A op, at : ~At(t, op, at)
  BY <1>2, <1>3, <1>5 DEF AllIdle, At
<1>7. UNCHANGED <<registered, member, founded, claimed, loaded, local>>
  BY <1>2 DEF rows, looks
<1>8. Alone'
  BY <1>1, <1>2, <1>3, AloneBegins DEF CalmParts
<1>9. CodesOnce' /\ WishesKept'
  BY <1>1, <1>2, <1>7, RegistersLeave DEF CalmParts
<1>10. RefusalsJust'
  BY <1>2, <1>3, <1>4, <1>5, <1>6, <1>7, RefusalsOf DEF CalmParts, RefusalsJust
<1>11. FoundedWhole'
  <2>1. ASSUME NEW n \in founded PROVE FoundedFor(n)'
    <3>1. registered /\ member = n /\ n \in claimed
      BY <1>6 DEF CalmParts, FoundedWhole, FoundedFor
    <3> QED
      BY <1>7, <3>1 DEF FoundedFor
  <2> QED
    BY <1>6, <1>7, <2>1 DEF FoundedWhole
<1> QED
  BY <1>8, <1>9, <1>10, <1>11 DEF CalmParts

-----------------------------------------------------------------------------
(* Codes. *)

LEMMA ForgotCalm ==
    ASSUME AccountTyped, CalmParts, manner = "calm", Forgot
    PROVE  CalmParts'
<1> DEFINE r == [op |-> "forgot", step |-> "row", heard |-> FALSE]
<1>1. ReqsTyped /\ ReqsTyped' /\ Within("forgot")
  BY ForgotTyped DEF AccountTyped
<1>2. /\ AllIdle /\ due = NoTimer /\ asked = <<>> /\ BeginRequest(r)
      /\ UNCHANGED <<rows, password, settings, page, registering, due, looks, wish>>
  BY CalmAct DEF Forgot
<1>3. r \in Reqs
  BY DEF Reqs, ForgotReqs
<1> HIDE DEF r
<1>4. UNCHANGED <<asked, codes>>
  BY <1>2 DEF registering, password
<1>5. Alone'
  BY <1>1, <1>2, <1>3, <1>4, AloneBegins DEF CalmParts
<1>6. CodesOnce'
  BY <1>1, <1>4, CodesOnceFrame DEF CalmParts
<1> QED
  BY <1>1, <1>2, <1>5, <1>6, ResetsLeave DEF CalmParts

LEMMA ResetCalm ==
    ASSUME AccountTyped, CodesSound, CalmParts, manner = "calm", NEW n \in DOMAIN codes, Reset(n)
    PROVE  CalmParts'
<1> DEFINE r == [op |-> "reset", step |-> "find", code |-> n, heard |-> FALSE]
<1>1. ReqsTyped /\ ReqsTyped' /\ Within("reset")
  BY ResetTyped DEF AccountTyped
<1>2. /\ AllIdle /\ due = NoTimer /\ asked = <<>> /\ BeginRequest(r)
      /\ UNCHANGED <<rows, password, settings, page, registering, due, looks, wish>>
  BY CalmAct DEF Reset
<1>3. r \in Reqs /\ r.step = "find"
  <2>1. n \in Nat
    BY DEF CodesSound
  <2> QED
    BY <2>1 DEF Reqs, ResetReqs
<1> HIDE DEF r
<1>4. UNCHANGED <<asked, codes>>
  BY <1>2 DEF registering, password
<1>5. Alone'
  BY <1>1, <1>2, <1>3, <1>4, AloneBegins DEF CalmParts
<1>6. CodesOnce'
  <2>1. PICK s \in Slots : req'[s] = r /\ \A t \in Slots : t # s => req'[t] = req[t]
    BY <1>1, <1>2, <1>3, BeginIs
  <2>2. \A t \in Slots : ~At(t, "reset", "row")'
    BY <1>2, <1>3, <2>1 DEF At, AllIdle
  <2> QED
    BY <1>4, <2>2 DEF CalmParts, CodesOnce
<1> QED
  BY <1>1, <1>2, <1>5, <1>6, ResetsLeave DEF CalmParts

\* The new code has set no password.
LEMMA IssueCodeCalm ==
    ASSUME AccountTyped, CodesSound, CalmParts, NEW s \in Slots, IssueCode(s)
    PROVE  CalmParts'
<1>1. ReqsTyped /\ ReqsTyped' /\ Within("forgot")
  BY IssueCodeTyped DEF AccountTyped
<1>2. /\ At(s, "forgot", "row") /\ req[s] # Idle /\ Goto(s, "ok") /\ codes' = Append(codes, 0)
      /\ UNCHANGED <<rows, settings, page, registering, due, looks, wish>>
  BY DEF IssueCode, At
<1>3. \A t \in Slots : t # s => req'[t] = req[t]
  BY <1>1, <1>2, GoesOn
<1>4. Alone'
  BY <1>2, <1>3, AloneGoesOn DEF CalmParts, registering
<1>5. \A t \in Slots : ~At(t, "reset", "row")'
  <2>1. \A t \in Slots : ~At(t, "reset", "row")
    BY <1>2, <1>3, OthersIdle DEF CalmParts, At
  <2> QED
    BY <1>1, <2>1, KindFrame
<1>6. \A n \in 1..Len(codes') : codes'[n] <= 1
  <2>1. codes \in Seq(Nat) /\ Len(codes) \in Nat /\ \A n \in 1..Len(codes) : codes[n] <= 1
    BY DEF CodesSound, CalmParts, CodesOnce
  <2> QED
    BY <1>2, <2>1
<1>7. CodesOnce'
  BY <1>5, <1>6 DEF CodesOnce
<1> QED
  BY <1>1, <1>2, <1>4, <1>7, ResetsLeave DEF CalmParts

\* The code that was found has set none either ...
LEMMA ResetFindCalm ==
    ASSUME AccountTyped, CodesSound, CalmParts, NEW s \in Slots, ResetFind(s)
    PROVE  CalmParts'
<1> DEFINE c == req[s].code
           step == IF liveCode = c THEN "row" ELSE "no"
<1>1. ReqsTyped /\ ReqsTyped' /\ Within("reset")
  BY ResetFindTyped DEF AccountTyped
<1>2. /\ At(s, "reset", "find") /\ req[s] # Idle /\ req[s].op = "reset" /\ Goto(s, step)
      /\ UNCHANGED <<rows, password, settings, page, registering, due, looks, wish>>
      /\ step = "row" => liveCode = c
  BY DEF ResetFind, At
<1> HIDE DEF step
<1>3. /\ \A op, at : At(s, op, at)' <=> op = "reset" /\ at = step
      /\ req'[s].code = c /\ \A t \in Slots : t # s => req'[t] = req[t]
  BY <1>1, <1>2, GoesOn
<1>4. \A t \in Slots : t # s => \A op, at : ~At(t, op, at) /\ ~At(t, op, at)'
  BY <1>2, <1>3, OthersIdle DEF CalmParts
<1>5. Alone'
  BY <1>2, <1>3, AloneGoesOn DEF CalmParts, registering
<1>6. step = "row" => codes[c] = 0 /\ c = Len(codes)
  <2>1. c \in 1..Len(codes) /\ liveCode \in 0..Len(codes)
    BY <1>2 DEF CodesSound
  <2>2. codes \in Seq(Nat) /\ Len(codes) \in Nat
    BY DEF CodesSound
  <2>3. c # 0
    BY <2>1, <2>2
  <2> QED
    BY <1>2, <2>3 DEF CodesSound
<1>7. CodesOnce'
  BY <1>2, <1>3, <1>4, <1>6 DEF CalmParts, CodesOnce, password
<1> QED
  BY <1>1, <1>2, <1>5, <1>7, ResetsLeave DEF CalmParts

\* ... and sets one, which nobody else is about to.
LEMMA ResetWriteCalm ==
    ASSUME AccountTyped, CodesSound, CalmParts, NEW s \in Slots, ResetWrite(s)
    PROVE  CalmParts'
<1> DEFINE c == req[s].code
<1>1. ReqsTyped /\ ReqsTyped' /\ Within("reset")
  BY ResetWriteTyped DEF AccountTyped
<1>2. /\ At(s, "reset", "row") /\ req[s] # Idle /\ req[s].op = "reset" /\ Goto(s, "ok")
      /\ codes' = [codes EXCEPT ![c] = @ + 1]
      /\ UNCHANGED <<rows, settings, page, registering, due, looks, wish>>
  BY DEF ResetWrite, At
<1>3. /\ \A op, at : At(s, op, at)' <=> op = "reset" /\ at = "ok"
      /\ \A t \in Slots : t # s => req'[t] = req[t]
  BY <1>1, <1>2, GoesOn
<1>4. \A t \in Slots : t # s => \A op, at : ~At(t, op, at) /\ ~At(t, op, at)'
  BY <1>2, <1>3, OthersIdle DEF CalmParts
<1>5. Alone'
  BY <1>2, <1>3, AloneGoesOn DEF CalmParts, registering
<1>6. \A n \in 1..Len(codes') : codes'[n] <= 1
  <2>1. codes \in Seq(Nat) /\ \A n \in 1..Len(codes) : codes[n] <= 1
    BY DEF CodesSound, CalmParts, CodesOnce
  <2>2. codes[c] = 0
    BY <1>2 DEF CalmParts, CodesOnce
  <2> QED
    BY <1>2, <2>1, <2>2
<1>7. CodesOnce'
  BY <1>3, <1>4, <1>6 DEF CodesOnce
<1> QED
  BY <1>1, <1>2, <1>5, <1>7, ResetsLeave DEF CalmParts

LEMMA ToldCalm ==
    ASSUME AccountTyped, CalmParts, NEW s \in Slots, Told(s)
    PROVE  CalmParts'
<1>1. ReqsTyped /\ ReqsTyped' /\ Within(req[s].op) /\ req[s].op \in {"forgot", "reset"}
  BY ToldTyped DEF AccountTyped
<1>2. /\ req[s] # Idle /\ req' = [req EXCEPT ![s] = Idle]
      /\ UNCHANGED <<rows, password, settings, page, registering, due, looks, wish>>
  BY DEF Told
<1>3. req'[s] = Idle /\ \A t \in Slots : t # s => req'[t] = req[t]
  BY <1>1, <1>2 DEF ReqsTyped
<1>4. Alone' /\ AllIdle'
  BY <1>2, <1>3, AloneEnds DEF CalmParts, registering
<1>5. CodesOnce'
  BY <1>2, <1>4 DEF CalmParts, CodesOnce, password, AllIdle, At
<1> QED
  BY <1>1, <1>2, <1>4, <1>5, ResetsLeave DEF CalmParts

LEMMA CodeExpiresCalm ==
    ASSUME AccountTyped, CalmParts, CodeExpires
    PROVE  CalmParts'
<1>1. ReqsTyped /\ ReqsTyped' /\ \A f : Within(f)
  BY CodeExpiresTyped DEF AccountTyped
<1>2. UNCHANGED <<manner, acts, rows, codes, settings, req, page, registering, due, looks, wish>>
  BY DEF CodeExpires
<1>3. Alone'
  BY <1>2 DEF CalmParts, Alone, registering
<1>4. CodesOnce'
  BY <1>2 DEF CalmParts, CodesOnce, At
<1>5. Within("reset")
  BY <1>1
<1>6. UNCHANGED <<rows, settings, page, registering, due, looks, wish>>
  BY <1>2
<1>7. RefusalsJust' /\ FoundedWhole' /\ WishesKept'
  BY <1>1, <1>5, <1>6, ResetsLeave
<1> QED
  BY <1>3, <1>4, <1>7 DEF CalmParts

-----------------------------------------------------------------------------
(* The registration form. *)

\* An act that sends nothing, and changes the form or starts a search.
LEMMA FormCalm ==
    ASSUME AccountTyped, AccountTyped', CalmParts, AllIdle, due = NoTimer,
           UNCHANGED <<rows, password, settings, req, asked, refused, wish>>,
           ~Patching', due' = NoTimer \/ asked = <<>>,
           page' = "settings" => UNCHANGED <<page, loaded, local>>
    PROVE  CalmParts'
<1>1. ReqsTyped /\ ReqsTyped'
  BY DEF AccountTyped
<1>2. Within("forgot")
  BY DEF Within, Unmoved
<1>3. Alone'
  BY DEF CalmParts, Alone, AllIdle
<1>4. CodesOnce' /\ FoundedWhole' /\ RefusalsJust'
  BY <1>1, <1>2, CodesOnceFrame, FoundedFrame, RefusalsIdle DEF CalmParts, AllIdle, password, rows
<1>5. WishesKept'
  BY <1>1, <1>2, WishesFrame, NotPatching DEF CalmParts
<1> QED
  BY <1>3, <1>4, <1>5 DEF CalmParts

LEMMA ChooseKindCalm ==
    ASSUME AccountTyped, CalmParts, manner = "calm", NEW k \in {"individual", "representative"},
           ChooseKind(k)
    PROVE  CalmParts'
<1>1. /\ UNCHANGED <<rows, password, settings, req, page, asked, refused, loaded, local, wish>>
      /\ due' \in {due, Search("")} /\ Act
  BY DEF ChooseKind, looks
<1>2. AllIdle /\ due = NoTimer /\ asked = <<>>
  BY <1>1, CalmAct
<1>3. ~Patching'
  BY <1>1, <1>2, NotPatching
<1> QED
  BY <1>1, <1>2, <1>3, ChooseKindTyped, FormCalm

LEMMA WriteTextCalm ==
    ASSUME AccountTyped, CalmParts, manner = "calm", NEW x \in Texts, WriteText(x)
    PROVE  CalmParts'
<1>1. /\ UNCHANGED <<rows, password, settings, req, page, asked, refused, loaded, local, wish>>
      /\ due' = Search(x) /\ Act
  BY DEF WriteText, looks
<1>2. AllIdle /\ due = NoTimer /\ asked = <<>>
  BY <1>1, CalmAct
<1>3. ~Patching'
  BY <1>1, NotPatching
<1> QED
  BY <1>1, <1>2, <1>3, WriteTextTyped, FormCalm

LEMMA PickCalm ==
    ASSUME AccountTyped, CalmParts, manner = "calm", NEW c \in Choices, Pick(c)
    PROVE  CalmParts'
<1>1. /\ UNCHANGED <<rows, password, settings, req, page, asked, refused, loaded, local, wish, due>>
      /\ Act
  BY DEF Pick, looks
<1>2. AllIdle /\ due = NoTimer /\ asked = <<>>
  BY <1>1, CalmAct
<1>3. ~Patching'
  BY <1>1, <1>2, NotPatching
<1> QED
  BY <1>1, <1>2, <1>3, PickTyped, FormCalm

LEMMA SignInCalm ==
    ASSUME AccountTyped, CalmParts, manner = "calm", SignIn
    PROVE  CalmParts'
<1>1. /\ UNCHANGED <<rows, password, settings, req, asked, refused, wish>>
      /\ page' # "settings" /\ due' \in {due, NoTimer} /\ Act
  BY DEF SignIn
<1>2. AllIdle /\ due = NoTimer /\ asked = <<>>
  BY <1>1, CalmAct
<1>3. ~Patching'
  BY <1>1, <1>2, NotPatching
<1> QED
  BY <1>1, <1>2, <1>3, SignInTyped, FormCalm

LEMMA SearchFiresCalm ==
    ASSUME AccountTyped, CalmParts, SearchFires
    PROVE  CalmParts'
<1>1. /\ UNCHANGED <<rows, password, settings, req, page, form, refused, loaded, local, wish>>
      /\ due' = NoTimer /\ asked' = Append(asked, due.text) /\ Searches
  BY DEF SearchFires, looks
<1>2. ReqsTyped /\ ReqsTyped' /\ asked \in Seq(Texts)
  BY SearchFiresTyped DEF AccountTyped, PageTyped
<1>3. AllIdle /\ asked = <<>>
  <2>1. due # NoTimer
    BY <1>1 DEF Searches, NoTimer
  <2> QED
    BY <2>1 DEF CalmParts, Alone, AllIdle
<1>4. Len(asked') <= 1
  BY <1>1, <1>3
<1>5. Alone'
  BY <1>1, <1>3, <1>4, AloneIdle DEF CalmParts
<1>6. Within("forgot")
  BY <1>1 DEF Within, Unmoved
<1>7. CodesOnce' /\ FoundedWhole' /\ RefusalsJust'
  BY <1>1, <1>2, <1>6, CodesOnceFrame, FoundedFrame, RefusalsFrame DEF CalmParts, password, rows
<1>8. ~Patching /\ ~Patching'
  BY <1>1, NotPatching
<1>9. WishesKept'
  BY <1>1, <1>2, <1>6, <1>8, WishesFrame DEF CalmParts
<1> QED
  BY <1>5, <1>7, <1>9 DEF CalmParts

LEMMA SearchAnsweredCalm ==
    ASSUME AccountTyped, CalmParts, NEW n \in DOMAIN asked, SearchAnswered(n)
    PROVE  CalmParts'
<1>1. UNCHANGED <<rows, password, settings, req, page, refused, due, loaded, local, wish>>
  BY DEF SearchAnswered, looks
<1>2. /\ ReqsTyped /\ ReqsTyped' /\ form'.choice = form.choice
      /\ Len(asked) <= 1 => asked' = <<>>
  BY SearchAnsweredTyped DEF AccountTyped
<1>3. Alone'
  BY <1>1, <1>2 DEF CalmParts, Alone
<1>6. Within("forgot")
  BY <1>1 DEF Within, Unmoved
<1>7. CodesOnce' /\ FoundedWhole' /\ RefusalsJust'
  BY <1>1, <1>2, <1>6, CodesOnceFrame, FoundedFrame, RefusalsFrame DEF CalmParts, password, rows
<1>9. WishesKept'
  BY <1>1, <1>2, <1>6, WishesFrame DEF CalmParts
<1> QED
  BY <1>3, <1>7, <1>9 DEF CalmParts

-----------------------------------------------------------------------------
(* Preferences. *)

\* What is said of the preferences when only s is at work.
LEMMA WishesOf ==
    ASSUME NEW s \in Slots, \A t \in Slots : t # s => \A op, at : ~At(t, op, at)', ~Patching',
           At(s, "save", "row")' => Written(req[s].patch)',
           At(s, "save", "user")' => (setting = wish /\ req[s].patch[2] = setting.theme)',
           At(s, "load", "ok")' => (req[s].val = setting)',
           Agreed' \/ At(s, "save", "row")' \/ At(s, "save", "user")',
           (page = "settings" /\ loaded => local = wish.theme)'
    PROVE  WishesKept'
BY DEF WishesKept

\* ... and when nobody is.
LEMMA WishesIdle ==
    ASSUME AllIdle', Patching' => Written(due.patch)', Patching' \/ Agreed',
           (page = "settings" /\ loaded => local = wish.theme)'
    PROVE  WishesKept'
BY DEF WishesKept, AllIdle, At

\* Nothing is on its way: both rows have what was wished.
LEMMA AgreedWhen ==
    ASSUME WishesKept, ~Patching, \A s \in Slots : ~At(s, "save", "row") /\ ~At(s, "save", "user")
    PROVE  Agreed
BY DEF WishesKept

\* What is chosen on the page is due to be sent.
LEMMA ChooseCalm ==
    ASSUME AccountTyped, CalmParts, manner = "calm", NEW p \in Patches, Choose(p)
    PROVE  CalmParts'
<1>1. /\ Act /\ page = "settings"
      /\ UNCHANGED <<rows, password, settings, req, page, registering, loaded>>
      /\ wish' = [wish EXCEPT ![p[1]] = p[2]]
      /\ local' = IF p[1] = "theme" THEN p[2] ELSE local
      /\ loaded => due' = Patch(p)
  BY DEF Choose
<1>2. AllIdle /\ due = NoTimer /\ asked = <<>> /\ loaded
  BY <1>1, CalmAct
<1>3. ReqsTyped /\ ReqsTyped' /\ wish \in Preferences
  BY ChooseTyped DEF AccountTyped, PageTyped
<1>4. Agreed /\ local = wish.theme
  <2>1. \A s \in Slots : \A op, at : ~At(s, op, at)
    BY <1>2 DEF AllIdle, At
  <2>2. Agreed
    BY <1>2, <2>1, AgreedWhen, NotPatching DEF CalmParts
  <2> QED
    BY <1>1, <1>2, <2>2 DEF CalmParts, WishesKept
<1>5. Patching' /\ due'.patch = p
  BY <1>1, <1>2 DEF Patch, Patching
<1>6. Written(due.patch)'
  BY <1>1, <1>4, <1>5 DEF Written, Agreed, settings
<1>7. local' = wish'.theme
  BY <1>1, <1>3, <1>4, Patched
<1>8. AllIdle'
  BY <1>1, <1>2 DEF AllIdle
<1>9. WishesKept'
  BY <1>5, <1>6, <1>7, <1>8, WishesIdle
<1>10. UNCHANGED <<asked, refused, form, registered, codes>>
  BY <1>1 DEF registering, rows, password
<1>11. Alone'
  BY <1>1, <1>2, <1>10 DEF CalmParts, Alone, AllIdle
<1>12. Within("forgot")
  BY <1>1 DEF Within, Unmoved
<1>13. CodesOnce' /\ FoundedWhole' /\ RefusalsJust'
  BY <1>1, <1>3, <1>10, <1>12, CodesOnceFrame, FoundedFrame, RefusalsFrame DEF CalmParts
<1> QED
  BY <1>9, <1>11, <1>13 DEF CalmParts

LEMMA LeaveCalm ==
    ASSUME AccountTyped, CalmParts, manner = "calm", Leave
    PROVE  CalmParts'
<1>1. /\ Act /\ page' = "home" /\ due' = NoTimer
      /\ UNCHANGED <<rows, password, settings, registering, wish>>
      /\ req' = [s \in Slots |-> IF req[s] = Idle THEN Idle ELSE [req[s] EXCEPT !.heard = FALSE]]
  BY DEF Leave
<1>2. AllIdle /\ due = NoTimer /\ asked = <<>>
  BY <1>1, CalmAct
<1>3. req' = req
  BY <1>1, <1>2 DEF AllIdle, AccountTyped, ReqsTyped
<1>4. ~Patching' /\ UNCHANGED <<asked, refused>> /\ page' # "settings"
  BY <1>1, NotPatching DEF registering
<1> QED
  BY <1>1, <1>2, <1>3, <1>4, LeaveTyped, FormCalm

\* A request for the preferences that begins.
LEMMA SettingsBegin ==
    ASSUME AccountTyped, AccountTyped', CalmParts, AllIdle, asked = <<>>, due' = NoTimer,
           UNCHANGED <<rows, password, registering>>, NEW r \in Reqs, BeginRequest(r),
           r.op \in {"load", "save"}
    PROVE  /\ Alone' /\ CodesOnce' /\ RefusalsJust' /\ FoundedWhole' /\ ~Patching'
           /\ \E s \in Slots : /\ req'[s] = r
                               /\ \A op, at : At(s, op, at)' <=> op = r.op /\ at = r.step
                               /\ \A t \in Slots : t # s => \A op, at : ~At(t, op, at)'
<1>1. ReqsTyped /\ ReqsTyped' /\ Within(r.op) /\ UNCHANGED asked
  BY BeginIs DEF AccountTyped, registering
<1>2. PICK s \in Slots : req'[s] = r /\ \A t \in Slots : t # s => req'[t] = req[t]
  BY <1>1, BeginIs
<1>3. r # Idle
  BY IdleIs
<1>4. /\ \A op, at : At(s, op, at)' <=> op = r.op /\ at = r.step
      /\ \A t \in Slots : t # s => \A op, at : ~At(t, op, at)'
  BY <1>2, <1>3 DEF At, AllIdle
<1>5. Alone'
  BY <1>1, AloneBegins DEF CalmParts
<1>6. CodesOnce' /\ RefusalsJust' /\ FoundedWhole'
  BY <1>1, SettingsLeave
<1> QED
  BY <1>2, <1>4, <1>5, <1>6, NotPatching

\* The page has not loaded yet.
LEMMA OpenSettingsCalm ==
    ASSUME AccountTyped, CalmParts, manner = "calm", OpenSettings
    PROVE  CalmParts'
<1> DEFINE r == [op |-> "load", step |-> "row", val |-> setting, heard |-> TRUE]
<1>1. /\ Act /\ BeginRequest(r) /\ loaded' = FALSE
      /\ UNCHANGED <<rows, password, settings, registering, due, wish>>
  BY DEF OpenSettings
<1>2. AllIdle /\ due = NoTimer /\ asked = <<>>
  BY <1>1, CalmAct
<1>3. r \in Reqs /\ r.op = "load" /\ r.step = "row"
  BY DEF Reqs, LoadReqs, AccountTyped, SettingsTyped
<1> HIDE DEF r
<1>4. Agreed
  BY <1>2, AgreedWhen, NotPatching DEF CalmParts, AllIdle, At
<1>5. /\ Alone' /\ CodesOnce' /\ RefusalsJust' /\ FoundedWhole' /\ ~Patching'
      /\ \E s \in Slots : /\ req'[s] = r
                          /\ \A op, at : At(s, op, at)' <=> op = r.op /\ at = r.step
                          /\ \A t \in Slots : t # s => \A op, at : ~At(t, op, at)'
  BY <1>1, <1>2, <1>3, OpenSettingsTyped, SettingsBegin
<1>6. PICK s \in Slots : /\ \A op, at : At(s, op, at)' <=> op = r.op /\ at = r.step
                         /\ \A t \in Slots : t # s => \A op, at : ~At(t, op, at)'
  BY <1>5
<1>7. Agreed'
  BY <1>1, <1>4 DEF Agreed, settings
<1>8. WishesKept'
  BY <1>1, <1>3, <1>5, <1>6, <1>7, WishesOf
<1> QED
  BY <1>5, <1>8 DEF CalmParts

\* A save that begins, of what was wished.
LEMMA SaveBegins ==
    ASSUME AccountTyped, AccountTyped', CalmParts, AllIdle, asked = <<>>, due' = NoTimer,
           UNCHANGED <<rows, password, registering>>, NEW p \in Patches, NEW heard \in BOOLEAN,
           BeginRequest(Save(p, heard)), Written(p)',
           (page = "settings" /\ loaded => local = wish.theme)'
    PROVE  CalmParts'
<1> DEFINE r == Save(p, heard)
<1>1. r \in Reqs /\ r.op = "save" /\ r.step = "row" /\ r.patch = p /\ BeginRequest(r)
  BY DEF Reqs, SaveReqs, Save
<1> HIDE DEF r
<1>2. /\ Alone' /\ CodesOnce' /\ RefusalsJust' /\ FoundedWhole' /\ ~Patching'
      /\ \E s \in Slots : /\ req'[s] = r
                          /\ \A op, at : At(s, op, at)' <=> op = r.op /\ at = r.step
                          /\ \A t \in Slots : t # s => \A op, at : ~At(t, op, at)'
  BY <1>1, SettingsBegin
<1>3. PICK s \in Slots : /\ req'[s] = r
                         /\ \A op, at : At(s, op, at)' <=> op = r.op /\ at = r.step
                         /\ \A t \in Slots : t # s => \A op, at : ~At(t, op, at)'
  BY <1>2
<1>4. Written(req[s].patch)'
  BY <1>1, <1>3 DEF Written
<1>5. WishesKept'
  BY <1>1, <1>2, <1>3, <1>4, WishesOf
<1> QED
  BY <1>2, <1>5 DEF CalmParts

\* What was due is sent.
LEMMA PatchFiresCalm ==
    ASSUME AccountTyped, CalmParts, PatchFires
    PROVE  CalmParts'
<1>1. /\ Patching /\ BeginRequest(Save(due.patch, TRUE)) /\ due' = NoTimer
      /\ UNCHANGED <<rows, password, settings, page, registering, looks, wish>>
  BY DEF PatchFires
<1>2. AllIdle /\ asked = <<>>
  <2>1. due # NoTimer
    BY <1>1, NotPatching
  <2> QED
    BY <2>1 DEF CalmParts, Alone, AllIdle
<1>3. AccountTyped' /\ due.patch \in Patches
  BY PatchFiresTyped
<1>4. Written(due.patch)
  BY <1>1 DEF CalmParts, WishesKept
<1> DEFINE p == due.patch
<1>5. p \in Patches /\ BeginRequest(Save(p, TRUE))
  BY <1>1, <1>3
<1>6. wish' = [setting' EXCEPT ![p[1]] = p[2]] /\ userTheme' = setting'.theme
  BY <1>1, <1>4 DEF Written, settings
<1> HIDE DEF p
<1>7. ASSUME NEW q \in Patches, q = p PROVE CalmParts'
  <2>1. Written(q)'
    BY <1>6, <1>7 DEF Written
  <2>2. (page = "settings" /\ loaded => local = wish.theme)'
    BY <1>1 DEF CalmParts, WishesKept, looks
  <2>3. BeginRequest(Save(q, TRUE))
    BY <1>5, <1>7
  <2> QED
    BY <1>1, <1>2, <1>3, <2>1, <2>2, <2>3, SaveBegins
<1> QED
  BY <1>5, <1>7

\* The toggle sends what it shows.
LEMMA ToggleCalm ==
    ASSUME AccountTyped, CalmParts, manner = "calm", Toggle
    PROVE  CalmParts'
<1>1. /\ Act /\ local' = knob' /\ wish' = [wish EXCEPT !.theme = knob']
      /\ BeginRequest(Save(<<"theme", knob'>>, FALSE))
      /\ UNCHANGED <<rows, password, settings, page, registering, due, loaded>>
  BY DEF Toggle
<1>2. AllIdle /\ due = NoTimer /\ asked = <<>>
  BY <1>1, CalmAct
<1>3. AccountTyped' /\ knob' \in Themes /\ wish \in Preferences
  BY ToggleTyped DEF AccountTyped, PageTyped
<1>4. Agreed
  BY <1>2, AgreedWhen, NotPatching DEF CalmParts, AllIdle, At
<1>5. ASSUME NEW t \in Themes, t = knob' PROVE CalmParts'
  <2>1. <<"theme", t>> \in Patches /\ BeginRequest(Save(<<"theme", t>>, FALSE))
    BY <1>1, <1>5 DEF Patches
  <2>2. Written(<<"theme", t>>)'
    BY <1>1, <1>4, <1>5 DEF Written, Agreed, settings
  <2>3. (page = "settings" /\ loaded => local = wish.theme)'
    BY <1>1, <1>3 DEF Preferences
  <2> QED
    BY <1>1, <1>2, <1>3, <2>1, <2>2, <2>3, SaveBegins
<1> QED
  BY <1>3, <1>5

\* A request for the preferences that goes on.
LEMMA SettingsGoOn ==
    ASSUME AccountTyped, AccountTyped', CalmParts, NEW f \in {"load", "save"}, Within(f),
           NEW s \in Slots, req[s] # Idle, \A t \in Slots : t # s => req'[t] = req[t],
           UNCHANGED <<rows, password, registering, due>>
    PROVE  /\ Alone' /\ CodesOnce' /\ RefusalsJust' /\ FoundedWhole' /\ ~Patching /\ ~Patching'
           /\ \A t \in Slots : t # s => \A op, at : ~At(t, op, at) /\ ~At(t, op, at)'
<1>1. ReqsTyped /\ ReqsTyped' /\ UNCHANGED asked
  BY DEF AccountTyped, registering
<1>2. Alone'
  BY <1>1, AloneGoesOn DEF CalmParts
<1>3. CodesOnce' /\ RefusalsJust' /\ FoundedWhole'
  BY <1>1, SettingsLeave
<1>4. due = NoTimer /\ \A t \in Slots : t # s => \A op, at : ~At(t, op, at) /\ ~At(t, op, at)'
  BY OthersIdle DEF CalmParts
<1> QED
  BY <1>2, <1>3, <1>4, NotPatching

\* What is read is what was wished.
LEMMA ReadSettingCalm ==
    ASSUME AccountTyped, CalmParts, NEW s \in Slots, ReadSetting(s)
    PROVE  CalmParts'
<1>1. /\ At(s, "load", "row") /\ req[s] # Idle
      /\ UNCHANGED <<rows, password, settings, page, registering, due, looks, wish>>
  BY DEF ReadSetting, At
<1>2. /\ AccountTyped' /\ Within("load")
      /\ req'[s].op = "load" /\ req'[s].step = "ok" /\ req'[s].val = setting
      /\ \A t \in Slots : t # s => req'[t] = req[t]
  BY ReadSettingTyped
<1>3. /\ Alone' /\ CodesOnce' /\ RefusalsJust' /\ FoundedWhole' /\ ~Patching /\ ~Patching'
      /\ \A t \in Slots : t # s => \A op, at : ~At(t, op, at) /\ ~At(t, op, at)'
  BY <1>1, <1>2, SettingsGoOn
<1>4. Agreed
  <2>1. ~At(s, "save", "row") /\ ~At(s, "save", "user")
    BY <1>1 DEF At
  <2> QED
    BY <1>3, <2>1, AgreedWhen DEF CalmParts
<1>5. Agreed' /\ setting' = setting
  BY <1>1, <1>4 DEF Agreed, settings
<1>6. (page = "settings" /\ loaded => local = wish.theme)'
  BY <1>1 DEF CalmParts, WishesKept, looks
<1>7. ~At(s, "save", "row")' /\ ~At(s, "save", "user")'
  BY <1>2 DEF At
<1>8. WishesKept'
  BY <1>2, <1>3, <1>5, <1>6, <1>7, WishesOf
<1> QED
  BY <1>3, <1>8 DEF CalmParts

\* The patch that loading makes due changes nothing.
LEMMA LoadedCalm ==
    ASSUME AccountTyped, CalmParts, NEW s \in Slots, Loaded(s)
    PROVE  CalmParts'
<1> DEFINE v == req[s].val
<1>1. /\ At(s, "load", "ok") /\ req[s] # Idle /\ req' = [req EXCEPT ![s] = Idle]
      /\ Initialized(v) \/ UNCHANGED <<shown, loaded, local, due, status>>
      /\ UNCHANGED <<rows, password, settings, page, registering, wish>>
  BY DEF Loaded, At
<1>2. ReqsTyped /\ ReqsTyped' /\ Within("load") /\ setting \in Preferences /\ setting' = setting
  BY <1>1, LoadedTyped DEF AccountTyped, SettingsTyped, settings
<1>3. req'[s] = Idle /\ \A t \in Slots : t # s => req'[t] = req[t]
  BY <1>1, <1>2 DEF ReqsTyped
<1>4. Alone' /\ AllIdle'
  BY <1>1, <1>3, AloneEnds DEF CalmParts, registering
<1>5. CodesOnce' /\ RefusalsJust' /\ FoundedWhole'
  BY <1>1, <1>2, SettingsLeave
<1>6. v = setting
  BY <1>1 DEF CalmParts, WishesKept
<1>7. due = NoTimer /\ \A t \in Slots : t # s => \A op, at : ~At(t, op, at)
  BY <1>1, <1>3, OthersIdle DEF CalmParts
<1>8. Agreed
  <2>1. ~At(s, "save", "row") /\ ~At(s, "save", "user")
    BY <1>1 DEF At
  <2> QED
    BY <1>7, <2>1, AgreedWhen, NotPatching DEF CalmParts
<1>9. WishesKept'
  <2>1. CASE Initialized(v)
    <3>1. local' = setting.theme /\ due' = Patch(<<"email", setting.email>>)
      BY <1>6, <2>1 DEF Initialized
    <3>2. Patching' /\ due'.patch = <<"email", setting.email>>
      BY <3>1 DEF Patching, Patch
    <3>3. [setting EXCEPT !["email"] = setting.email] = setting
      BY <1>2 DEF Preferences
    <3>4. Written(due.patch)'
      BY <1>1, <1>8, <3>2, <3>3 DEF Written, Agreed, settings
    <3>5. local' = wish'.theme
      BY <1>1, <1>8, <3>1 DEF Agreed
    <3> QED
      BY <1>4, <3>2, <3>4, <3>5, WishesIdle
  <2>2. CASE UNCHANGED <<shown, loaded, local, due, status>>
    <3>1. Agreed' /\ ~Patching'
      BY <1>1, <1>7, <1>8, <2>2, NotPatching DEF Agreed, settings
    <3>2. (page = "settings" /\ loaded => local = wish.theme)'
      BY <1>1, <2>2 DEF CalmParts, WishesKept
    <3> QED
      BY <1>4, <3>1, <3>2, WishesIdle
  <2> QED
    BY <1>1, <2>1, <2>2
<1> QED
  BY <1>4, <1>5, <1>9 DEF CalmParts

\* First the settings row has what was wished ...
LEMMA SaveRowCalm ==
    ASSUME AccountTyped, CalmParts, NEW s \in Slots, SaveRow(s)
    PROVE  CalmParts'
<1> DEFINE p == req[s].patch
           step == IF p[1] = "theme" THEN "user" ELSE "ok"
<1>1. /\ At(s, "save", "row") /\ req[s] # Idle /\ req[s].op = "save" /\ Goto(s, step)
      /\ setting' = [setting EXCEPT ![p[1]] = p[2]]
      /\ UNCHANGED <<rows, password, userTheme, page, registering, due, looks, wish>>
  BY DEF SaveRow, At
<1>2. /\ AccountTyped' /\ Within("save") /\ ReqsTyped /\ setting \in Preferences
  BY SaveRowTyped DEF AccountTyped, SettingsTyped
<1>3. p \in Patches
  BY <1>1, <1>2, Kinds DEF ReqsTyped, SaveReqs
<1>4. wish = setting' /\ userTheme = setting.theme
  BY <1>1 DEF CalmParts, WishesKept, Written
<1>5. /\ p[1] = "theme" => setting'.theme = p[2]
      /\ p[1] # "theme" => setting'.theme = setting.theme
  BY <1>1, <1>2, <1>3, Patched
<1>6. step \in {"user", "ok"} /\ (step = "user" <=> p[1] = "theme")
  OBVIOUS
<1> HIDE DEF step
<1>7. /\ \A op, at : At(s, op, at)' <=> op = "save" /\ at = step
      /\ req'[s].patch = p /\ \A t \in Slots : t # s => req'[t] = req[t]
  BY <1>1, <1>2, GoesOn
<1>8. /\ Alone' /\ CodesOnce' /\ RefusalsJust' /\ FoundedWhole' /\ ~Patching'
      /\ \A t \in Slots : t # s => \A op, at : ~At(t, op, at)'
  BY <1>1, <1>2, <1>7, SettingsGoOn
<1>9. (page = "settings" /\ loaded => local = wish.theme)'
  BY <1>1 DEF CalmParts, WishesKept, looks
<1>10. step = "ok" => Agreed'
  BY <1>1, <1>4, <1>5, <1>6 DEF Agreed
<1>11. step = "user" => setting' = wish' /\ req'[s].patch[2] = setting'.theme
  BY <1>1, <1>4, <1>5, <1>6, <1>7
<1>12. WishesKept'
  BY <1>6, <1>7, <1>8, <1>9, <1>10, <1>11, WishesOf
<1> QED
  BY <1>8, <1>12 DEF CalmParts

\* ... then the user's.
LEMMA SaveUserCalm ==
    ASSUME AccountTyped, CalmParts, NEW s \in Slots, SaveUser(s)
    PROVE  CalmParts'
<1>1. /\ At(s, "save", "user") /\ req[s] # Idle /\ req[s].op = "save" /\ Goto(s, "ok")
      /\ userTheme' = req[s].patch[2]
      /\ UNCHANGED <<rows, password, setting, page, registering, due, looks, wish>>
  BY DEF SaveUser, At
<1>2. AccountTyped' /\ Within("save") /\ ReqsTyped
  BY SaveUserTyped DEF AccountTyped
<1>3. /\ \A op, at : At(s, op, at)' <=> op = "save" /\ at = "ok"
      /\ \A t \in Slots : t # s => req'[t] = req[t]
  BY <1>1, <1>2, GoesOn
<1>4. /\ Alone' /\ CodesOnce' /\ RefusalsJust' /\ FoundedWhole' /\ ~Patching'
      /\ \A t \in Slots : t # s => \A op, at : ~At(t, op, at)'
  BY <1>1, <1>2, <1>3, SettingsGoOn
<1>5. Agreed'
  BY <1>1 DEF CalmParts, WishesKept, Agreed
<1>6. (page = "settings" /\ loaded => local = wish.theme)'
  BY <1>1 DEF CalmParts, WishesKept, looks
<1>7. WishesKept'
  BY <1>3, <1>4, <1>5, <1>6, WishesOf
<1> QED
  BY <1>4, <1>7 DEF CalmParts

LEMMA SavedCalm ==
    ASSUME AccountTyped, CalmParts, manner = "calm", NEW s \in Slots, Saved(s)
    PROVE  CalmParts'
<1>1. /\ req[s] # Idle /\ req[s].op = "save" /\ req[s].step = "ok"
      /\ req' = [req EXCEPT ![s] = Idle]
      /\ UNCHANGED <<rows, password, settings, page, registering, due, loaded, local, wish>>
  BY DEF Saved
<1>2. AccountTyped' /\ Within("save") /\ ReqsTyped
  BY SavedTyped DEF AccountTyped
<1>3. req'[s] = Idle /\ \A t \in Slots : t # s => req'[t] = req[t]
  BY <1>1, <1>2 DEF ReqsTyped
<1>4. /\ Alone' /\ CodesOnce' /\ RefusalsJust' /\ FoundedWhole' /\ ~Patching /\ ~Patching'
      /\ \A t \in Slots : t # s => \A op, at : ~At(t, op, at)
  BY <1>1, <1>2, <1>3, SettingsGoOn
<1>5. Agreed
  <2>1. ~At(s, "save", "row") /\ ~At(s, "save", "user")
    BY <1>1 DEF At
  <2> QED
    BY <1>4, <2>1, AgreedWhen DEF CalmParts
<1>6. Agreed'
  BY <1>1, <1>5 DEF Agreed, settings
<1>7. (page = "settings" /\ loaded => local = wish.theme)'
  BY <1>1 DEF CalmParts, WishesKept
<1>8. AllIdle'
  BY <1>1, <1>3, AloneEnds DEF CalmParts, registering
<1>9. WishesKept'
  BY <1>4, <1>6, <1>7, <1>8, WishesIdle
<1> QED
  BY <1>4, <1>9 DEF CalmParts

-----------------------------------------------------------------------------
(* Every step keeps the invariant. *)

\* What a step keeps; nothing changes the manner.
SoundNext == AccountTyped' /\ CodesSound' /\ (manner = "calm" => CalmParts')

LEMMA ActsSound ==
    ASSUME AccountSound, Acts
    PROVE  SoundNext
<1>1. ASSUME NEW k \in {"individual", "representative"}, ChooseKind(k) PROVE SoundNext
  <2>1. AccountTyped' /\ Within("load")
    BY <1>1, ChooseKindTyped DEF AccountSound
  <2>2. CodesSound'
    BY <1>1, <2>1, CodesFrame DEF ChooseKind, AccountSound, AccountTyped
  <2> QED
    BY <1>1, <2>1, <2>2, ChooseKindCalm DEF AccountSound, CalmSound, SoundNext
<1>2. ASSUME NEW x \in Texts, WriteText(x) PROVE SoundNext
  <2>1. AccountTyped' /\ Within("load")
    BY <1>2, WriteTextTyped DEF AccountSound
  <2>2. CodesSound'
    BY <1>2, <2>1, CodesFrame DEF WriteText, AccountSound, AccountTyped
  <2> QED
    BY <1>2, <2>1, <2>2, WriteTextCalm DEF AccountSound, CalmSound, SoundNext
<1>3. ASSUME NEW c \in Choices, Pick(c) PROVE SoundNext
  <2>1. AccountTyped' /\ Within("load")
    BY <1>3, PickTyped DEF AccountSound
  <2>2. CodesSound'
    BY <1>3, <2>1, CodesFrame DEF Pick, AccountSound, AccountTyped
  <2> QED
    BY <1>3, <2>1, <2>2, PickCalm DEF AccountSound, CalmSound, SoundNext
<1>4. CASE Submit
  <2>1. AccountTyped' /\ Within("register")
    BY <1>4, SubmitTyped DEF AccountSound
  <2>2. CodesSound'
    BY <1>4, <2>1, CodesFrame DEF Submit, AccountSound, AccountTyped
  <2> QED
    BY <1>4, <2>1, <2>2, SubmitCalm DEF AccountSound, CalmSound, SoundNext
<1>5. CASE SignIn
  <2>1. AccountTyped' /\ Within("load")
    BY <1>5, SignInTyped DEF AccountSound
  <2>2. CodesSound'
    BY <1>5, <2>1, CodesFrame DEF SignIn, AccountSound, AccountTyped
  <2> QED
    BY <1>5, <2>1, <2>2, SignInCalm DEF AccountSound, CalmSound, SoundNext
<1>6. CASE Forgot
  <2>1. AccountTyped' /\ Within("forgot")
    BY <1>6, ForgotTyped DEF AccountSound
  <2>2. CodesSound'
    BY <1>6, <2>1, CodesFrame DEF Forgot, AccountSound, AccountTyped
  <2> QED
    BY <1>6, <2>1, <2>2, ForgotCalm DEF AccountSound, CalmSound, SoundNext
<1>7. ASSUME NEW n \in DOMAIN codes, Reset(n) PROVE SoundNext
  BY <1>7, ResetTyped, ResetCodes, ResetCalm DEF AccountSound, CalmSound, SoundNext
<1>8. CASE OpenSettings
  <2>1. AccountTyped' /\ Within("load")
    BY <1>8, OpenSettingsTyped DEF AccountSound
  <2>2. CodesSound'
    BY <1>8, <2>1, CodesFrame DEF OpenSettings, AccountSound, AccountTyped
  <2> QED
    BY <1>8, <2>1, <2>2, OpenSettingsCalm DEF AccountSound, CalmSound, SoundNext
<1>9. CASE Toggle
  <2>1. AccountTyped' /\ Within("save")
    BY <1>9, ToggleTyped DEF AccountSound
  <2>2. CodesSound'
    BY <1>9, <2>1, CodesFrame DEF Toggle, AccountSound, AccountTyped
  <2> QED
    BY <1>9, <2>1, <2>2, ToggleCalm DEF AccountSound, CalmSound, SoundNext
<1>10. CASE Leave
  <2>1. AccountTyped' /\ Within("load")
    BY <1>10, LeaveTyped DEF AccountSound
  <2>2. CodesSound'
    BY <1>10, <2>1, CodesFrame DEF Leave, AccountSound, AccountTyped
  <2> QED
    BY <1>10, <2>1, <2>2, LeaveCalm DEF AccountSound, CalmSound, SoundNext
<1>11. ASSUME NEW p \in Patches, Choose(p) PROVE SoundNext
  <2>1. AccountTyped' /\ Within("load")
    BY <1>11, ChooseTyped DEF AccountSound
  <2>2. CodesSound'
    BY <1>11, <2>1, CodesFrame DEF Choose, AccountSound, AccountTyped
  <2> QED
    BY <1>11, <2>1, <2>2, ChooseCalm DEF AccountSound, CalmSound, SoundNext
<1> QED
  BY <1>1, <1>2, <1>3, <1>4, <1>5, <1>6, <1>7, <1>8, <1>9, <1>10, <1>11 DEF Acts

LEMMA ServedSound ==
    ASSUME AccountSound, NEW s \in Slots,
           \/ TurnedAway(s) \/ RegisterFind(s) \/ Found(s) \/ CreateUser(s) \/ Claim(s)
           \/ Welcome(s) \/ RegistrationRefused(s) \/ IssueCode(s) \/ ResetFind(s) \/ ResetWrite(s) \/ Told(s)
           \/ ReadSetting(s) \/ Loaded(s) \/ LoadFails(s) \/ SaveRow(s) \/ SaveUser(s) \/ Saved(s)
    PROVE  SoundNext
<1>1. CASE RegisterFind(s)
  <2>1. AccountTyped' /\ Within("register")
    BY <1>1, RegisterFindTyped DEF AccountSound
  <2>2. CodesSound'
    BY <1>1, <2>1, CodesFrame DEF RegisterFind, AccountSound, AccountTyped
  <2> QED
    BY <1>1, <2>1, <2>2, RegisterFindCalm DEF AccountSound, CalmSound, SoundNext
<1>2. CASE Found(s)
  <2>1. AccountTyped' /\ Within("register")
    BY <1>2, FoundTyped DEF AccountSound
  <2>2. CodesSound'
    BY <1>2, <2>1, CodesFrame DEF Found, AccountSound, AccountTyped
  <2> QED
    BY <1>2, <2>1, <2>2, FoundCalm DEF AccountSound, CalmSound, SoundNext
<1>3. CASE CreateUser(s)
  <2>1. AccountTyped' /\ Within("register")
    BY <1>3, CreateUserTyped DEF AccountSound
  <2>2. CodesSound'
    BY <1>3, <2>1, CodesFrame DEF CreateUser, AccountSound, AccountTyped
  <2> QED
    BY <1>3, <2>1, <2>2, CreateUserCalm DEF AccountSound, CalmSound, SoundNext
<1>4. CASE Claim(s)
  <2>1. AccountTyped' /\ Within("register")
    BY <1>4, ClaimTyped DEF AccountSound
  <2>2. CodesSound'
    BY <1>4, <2>1, CodesFrame DEF Claim, AccountSound, AccountTyped
  <2> QED
    BY <1>4, <2>1, <2>2, ClaimCalm DEF AccountSound, CalmSound, SoundNext
<1>5. CASE Welcome(s)
  <2>1. AccountTyped' /\ Within("register")
    BY <1>5, WelcomeTyped DEF AccountSound
  <2>2. CodesSound'
    BY <1>5, <2>1, CodesFrame DEF Welcome, AccountSound, AccountTyped
  <2> QED
    BY <1>5, <2>1, <2>2, WelcomeCalm DEF AccountSound, CalmSound, SoundNext
<1>6. CASE RegistrationRefused(s)
  <2>1. AccountTyped' /\ Within("register")
    BY <1>6, RegistrationRefusedTyped DEF AccountSound
  <2>2. CodesSound'
    BY <1>6, <2>1, CodesFrame DEF RegistrationRefused, AccountSound, AccountTyped
  <2> QED
    BY <1>6, <2>1, <2>2, RegistrationRefusedCalm DEF AccountSound, CalmSound, SoundNext
<1>7. CASE IssueCode(s)
  BY <1>7, IssueCodeTyped, IssueCodeCodes, IssueCodeCalm DEF AccountSound, CalmSound, SoundNext
<1>8. CASE ResetFind(s)
  BY <1>8, ResetFindTyped, ResetFindCodes, ResetFindCalm DEF AccountSound, CalmSound, SoundNext
<1>9. CASE ResetWrite(s)
  BY <1>9, ResetWriteTyped, ResetWriteCodes, ResetWriteCalm DEF AccountSound, CalmSound, SoundNext
<1>10. CASE Told(s)
  BY <1>10, ToldTyped, ToldCodes, ToldCalm DEF AccountSound, CalmSound, SoundNext
<1>11. CASE ReadSetting(s)
  <2>1. AccountTyped' /\ Within("load")
    BY <1>11, ReadSettingTyped DEF AccountSound
  <2>2. CodesSound'
    BY <1>11, <2>1, CodesFrame DEF ReadSetting, AccountSound, AccountTyped
  <2> QED
    BY <1>11, <2>1, <2>2, ReadSettingCalm DEF AccountSound, CalmSound, SoundNext
<1>12. CASE Loaded(s)
  <2>1. AccountTyped' /\ Within("load")
    BY <1>12, LoadedTyped DEF AccountSound
  <2>2. CodesSound'
    BY <1>12, <2>1, CodesFrame DEF Loaded, AccountSound, AccountTyped
  <2> QED
    BY <1>12, <2>1, <2>2, LoadedCalm DEF AccountSound, CalmSound, SoundNext
<1>13. CASE LoadFails(s)
  <2>1. AccountTyped' /\ Within("load")
    BY <1>13, LoadFailsTyped DEF AccountSound
  <2>2. CodesSound'
    BY <1>13, <2>1, CodesFrame DEF LoadFails, AccountSound, AccountTyped
  <2> QED
    BY <1>13, <2>1, <2>2 DEF LoadFails, SoundNext
<1>14. CASE SaveRow(s)
  <2>1. AccountTyped' /\ Within("save")
    BY <1>14, SaveRowTyped DEF AccountSound
  <2>2. CodesSound'
    BY <1>14, <2>1, CodesFrame DEF SaveRow, AccountSound, AccountTyped
  <2> QED
    BY <1>14, <2>1, <2>2, SaveRowCalm DEF AccountSound, CalmSound, SoundNext
<1>15. CASE SaveUser(s)
  <2>1. AccountTyped' /\ Within("save")
    BY <1>15, SaveUserTyped DEF AccountSound
  <2>2. CodesSound'
    BY <1>15, <2>1, CodesFrame DEF SaveUser, AccountSound, AccountTyped
  <2> QED
    BY <1>15, <2>1, <2>2, SaveUserCalm DEF AccountSound, CalmSound, SoundNext
<1>16. CASE Saved(s)
  <2>1. AccountTyped' /\ Within("save")
    BY <1>16, SavedTyped DEF AccountSound
  <2>2. CodesSound'
    BY <1>16, <2>1, CodesFrame DEF Saved, AccountSound, AccountTyped
  <2> QED
    BY <1>16, <2>1, <2>2, SavedCalm DEF AccountSound, CalmSound, SoundNext
<1>17. CASE TurnedAway(s)
  <2>1. AccountTyped' /\ Within("register")
    BY <1>17, TurnedAwayTyped DEF AccountSound
  <2>2. CodesSound'
    BY <1>17, <2>1, CodesFrame DEF TurnedAway, AccountSound, AccountTyped
  <2> QED
    BY <1>17, <2>1, <2>2, TurnedAwayCalm DEF AccountSound, CalmSound, SoundNext
<1> QED
  BY <1>1, <1>2, <1>3, <1>4, <1>5, <1>6, <1>7, <1>8, <1>9, <1>10, <1>11, <1>12, <1>13, <1>14,
     <1>15, <1>16, <1>17

LEMMA RepliesSound ==
    ASSUME AccountSound, Replies
    PROVE  SoundNext
<1>1. CASE SearchFires
  <2>1. AccountTyped' /\ Within("load")
    BY <1>1, SearchFiresTyped DEF AccountSound
  <2>2. CodesSound'
    BY <1>1, <2>1, CodesFrame DEF SearchFires, AccountSound, AccountTyped
  <2> QED
    BY <1>1, <2>1, <2>2, SearchFiresCalm DEF AccountSound, CalmSound, SoundNext
<1>2. CASE PatchFires
  <2>1. AccountTyped' /\ Within("save")
    BY <1>2, PatchFiresTyped DEF AccountSound
  <2>2. CodesSound'
    BY <1>2, <2>1, CodesFrame DEF PatchFires, AccountSound, AccountTyped
  <2> QED
    BY <1>2, <2>1, <2>2, PatchFiresCalm DEF AccountSound, CalmSound, SoundNext
<1>3. ASSUME NEW n \in DOMAIN asked, SearchAnswered(n) PROVE SoundNext
  <2>1. AccountTyped' /\ Within("load")
    BY <1>3, SearchAnsweredTyped DEF AccountSound
  <2>2. CodesSound'
    BY <1>3, <2>1, CodesFrame DEF SearchAnswered, AccountSound, AccountTyped
  <2> QED
    BY <1>3, <2>1, <2>2, SearchAnsweredCalm DEF AccountSound, CalmSound, SoundNext
<1>4. ASSUME NEW s \in Slots,
             \/ TurnedAway(s) \/ RegisterFind(s) \/ Found(s) \/ CreateUser(s) \/ Claim(s)
             \/ Welcome(s) \/ RegistrationRefused(s) \/ IssueCode(s) \/ ResetFind(s) \/ ResetWrite(s) \/ Told(s)
             \/ ReadSetting(s) \/ Loaded(s) \/ LoadFails(s) \/ SaveRow(s) \/ SaveUser(s) \/ Saved(s)
      PROVE  SoundNext
  BY <1>4, ServedSound
<1> QED
  BY <1>1, <1>2, <1>3, <1>4 DEF Replies

LEMMA GivesUpSound ==
    ASSUME AccountSound, NEW s \in Slots, GivesUp(s)
    PROVE  SoundNext
<1>1. AccountTyped' /\ Within("load")
  BY GivesUpTyped DEF AccountSound
<1>2. CodesSound'
  BY <1>1, CodesFrame DEF GivesUp, AccountSound, AccountTyped
<1> QED
  BY <1>1, <1>2 DEF GivesUp, SoundNext

LEMMA CodeExpiresSound ==
    ASSUME AccountSound, CodeExpires
    PROVE  SoundNext
BY CodeExpiresTyped, CodeExpiresCodes, CodeExpiresCalm DEF AccountSound, CalmSound, SoundNext

LEMMA StutterSound ==
    ASSUME AccountSound, UNCHANGED accountVars
    PROVE  SoundNext
<1>1. AccountTyped' /\ Within("load")
  BY StutterTyped DEF AccountSound
<1>2. ReqsTyped /\ ReqsTyped' /\ UNCHANGED req
  BY <1>1 DEF AccountSound, AccountTyped, accountVars
<1>3. UNCHANGED password /\ UNCHANGED <<rows, settings, page, registering, due, looks, wish>>
  BY DEF accountVars
<1>4. CodesSound'
  BY <1>1, <1>2, <1>3, CodesFrame DEF AccountSound
<1>5. ASSUME CalmParts PROVE CalmParts'
  <2>1. Within("forgot")
    BY <1>2 DEF Within, Unmoved
  <2>2. RefusalsJust' /\ FoundedWhole' /\ WishesKept'
    BY <1>2, <1>3, <1>5, <2>1, ResetsLeave
  <2>3. Alone'
    BY <1>2, <1>3, <1>5 DEF CalmParts, Alone, registering
  <2>4. CodesOnce'
    BY <1>2, <1>3, <1>5 DEF CalmParts, CodesOnce, password, At
  <2> QED
    BY <2>2, <2>3, <2>4 DEF CalmParts
<1> QED
  BY <1>1, <1>4, <1>5 DEF AccountSound, SoundNext, CalmSound

\* Calm or rough, it stays so.
LEMMA MannerKept == ASSUME [AccountNext]_accountVars PROVE manner' = manner
<1>1. CASE Acts
  BY <1>1 DEF Acts, ChooseKind, WriteText, Pick, Submit, SignIn, Forgot, Reset, OpenSettings,
              Toggle, Leave, Choose, Act
<1>2. CASE Replies
  BY <1>2 DEF Replies, SearchFires, PatchFires, SearchAnswered, TurnedAway, RegisterFind, Found,
              CreateUser, Claim, Welcome, RegistrationRefused, IssueCode, ResetFind, ResetWrite, Told,
              ReadSetting, Loaded, LoadFails, SaveRow, SaveUser, Saved, Unasked
<1>3. CASE CodeExpires \/ \E s \in Slots : GivesUp(s)
  BY <1>3 DEF CodeExpires, GivesUp, Unasked
<1>4. CASE UNCHANGED accountVars
  BY <1>4 DEF accountVars
<1> QED
  BY <1>1, <1>2, <1>3, <1>4 DEF AccountNext

\* The invariant is inductive ...
LEMMA AccountStep == AccountSound /\ [AccountNext]_accountVars => AccountSound'
<1> SUFFICES ASSUME AccountSound, [AccountNext]_accountVars PROVE AccountSound'
  OBVIOUS
<1>1. SoundNext
  BY ActsSound, RepliesSound, GivesUpSound, CodeExpiresSound, StutterSound DEF AccountNext
<1>2. manner' = manner
  BY MannerKept
<1>3. CalmSound'
  BY <1>1, <1>2 DEF SoundNext, CalmSound, CalmParts
<1> QED
  BY <1>1, <1>3 DEF SoundNext, AccountSound

\* ... holds at the start ...
LEMMA AccountStarts == AccountInit => AccountSound
<1> SUFFICES ASSUME AccountInit PROVE AccountSound
  OBVIOUS
<1>1. AccountTyped /\ CodesSound
  BY InitTyped, InitCodes
<1>2. \A s \in Slots : req[s] = Idle
  BY DEF AccountInit
<1>3. due = NoTimer /\ asked = <<>> /\ refused = None /\ founded = {} /\ codes = <<>>
  BY DEF AccountInit
<1>4. page = "register" /\ wish = setting /\ userTheme = "light" /\ setting.theme = "light"
  BY DEF AccountInit
<1>5. Alone /\ CodesOnce
  BY <1>2, <1>3 DEF Alone, CodesOnce, At
<1>6. RefusalsJust /\ FoundedWhole
  BY <1>2, <1>3 DEF RefusalsJust, FoundedWhole, At
<1>7. WishesKept
  BY <1>2, <1>3, <1>4, NotPatching DEF WishesKept, At, Agreed
<1> QED
  BY <1>1, <1>5, <1>6, <1>7 DEF AccountSound, CalmSound, CalmParts

\* ... and so always: types and codes whatever overlaps and fails, the rest in calm.
THEOREM AccountAlwaysSound == AccountSpec => []AccountSound
<1>1. AccountInit => AccountSound
  BY AccountStarts
<1>2. AccountSound /\ [AccountNext]_accountVars => AccountSound'
  BY AccountStep
<1> QED
  BY <1>1, <1>2, PTL DEF AccountSpec

-----------------------------------------------------------------------------
(* What follows from it. *)

\* Where the counters are and what the codes have set.
LEMMA TypesFollow == AccountSound => AccountTypeOK
<1> SUFFICES ASSUME AccountSound PROVE AccountTypeOK
  OBVIOUS
<1>1. /\ ReqsTyped /\ RowsTyped /\ PageTyped /\ SettingsTyped
      /\ manner \in Manners /\ acts \in 0..MaxActs
  BY DEF AccountSound, AccountTyped
<1>2. codes \in [1..Len(codes) -> 0..Cardinality(Slots)] /\ liveCode \in 0..Len(codes)
  <2>1. codes \in Seq(Nat) /\ liveCode \in 0..Len(codes)
    BY DEF AccountSound, CodesSound
  <2>2. ASSUME NEW n \in 1..Len(codes) PROVE codes[n] \in 0..Cardinality(Slots)
    <3>1. codes[n] \in Nat /\ Cardinality(Slots) \in Nat /\ Cardinality(Writing(n)) \in Nat
      BY <2>1, WritingFinite
    <3>2. codes[n] + Cardinality(Writing(n)) <= Cardinality(Slots)
      BY DEF AccountSound, CodesSound
    <3> QED
      BY <3>1, <3>2
  <2>3. codes \in [1..Len(codes) -> Nat]
    BY <2>1
  <2> QED
    BY <2>1, <2>2, <2>3
<1>3. \A s \in Slots : req[s] = Idle \/ req[s].step \in Steps
  BY <1>1, Kinds DEF ReqsTyped
<1>4. form.choice \in Choices /\ form.text \in Texts /\ form.list \subseteq Institutions
      /\ {loaded, form.sending} \subseteq BOOLEAN
  BY <1>1 DEF PageTyped, Forms
<1>5. due = NoTimer \/ (Searches /\ due.text \in Texts) \/ (Patching /\ due.patch \in Patches)
  BY <1>1 DEF PageTyped, Timers, Searches, Patching, Search, Patch
<1> QED
  BY <1>1, <1>2, <1>3, <1>4, <1>5 DEF AccountTypeOK, RowsTyped, PageTyped, SettingsTyped

\* In calm, when everything has settled, nothing is on its way.
LEMMA CalmIs ==
    ASSUME AccountSound, Calm
    PROVE  /\ CalmParts /\ due = NoTimer /\ \A s \in Slots : \A op, at : ~At(s, op, at)
           /\ page = "settings" => loaded
BY DEF AccountSound, CalmSound, Calm, Settled, At

\* Nothing is about to be the user's: all that was founded is.
LEMMA FoundedFollows == AccountSound => FoundedWithAccount
<1> SUFFICES ASSUME AccountSound, Calm PROVE claimed = founded /\ \A n \in founded : member = n
  BY DEF FoundedWithAccount
<1>1. FoundedWhole /\ \A s \in Slots : \A op, at : ~At(s, op, at)
  BY CalmIs DEF CalmParts
<1>2. \A n \in founded : n \in claimed /\ member = n
  BY <1>1 DEF FoundedWhole, FoundedFor
<1>3. claimed \subseteq founded
  BY DEF AccountSound, AccountTyped, RowsTyped
<1> QED
  BY <1>2, <1>3

\* A refusal has its reason.
LEMMA RefusalsFollow == AccountSound => RefusedOnlyUnknown
BY DEF AccountSound, CalmSound, CalmParts, RefusalsJust, RefusedOnlyUnknown

\* Whatever institutions, texts and requests, for a user who does one thing at a time: a
\* registration that the form lets through is refused only to the independent, to who has
\* an account and to who wrote more than the server takes; and once everything has settled
\* no institution is left without the account it was founded for.
THEOREM RegistersWhole == AccountSpec => []RegistrationWhole
<1>1. AccountSound => RegistrationWhole
  BY TypesFollow, FoundedFollows, RefusalsFollow DEF RegistrationWhole
<1> QED
  BY <1>1, AccountAlwaysSound, PTL

\* Who sets a password, and what a code had set by then.
LEMMA CodeSteps ==
    ASSUME AccountSound, AccountNext, manner = "calm", NEW n \in DOMAIN codes,
           codes'[n] # codes[n]
    PROVE  codes[n] = 0 /\ codes'[n] = 1 /\ n = Len(codes)
<1>0. codes \in Seq(Nat) /\ CodesOnce /\ n \in 1..Len(codes)
  BY DEF AccountSound, CodesSound, CalmSound, CalmParts
<1>1. ASSUME NEW s \in Slots, ResetWrite(s)
      PROVE  codes[n] = 0 /\ codes'[n] = 1 /\ n = Len(codes)
  <2>1. codes' = [codes EXCEPT ![req[s].code] = @ + 1] /\ At(s, "reset", "row")
    BY <1>1 DEF ResetWrite
  <2>2. n = req[s].code
    BY <1>0, <2>1
  <2>3. codes[n] = 0 /\ n = Len(codes)
    BY <1>0, <2>1, <2>2 DEF CodesOnce
  <2> QED
    BY <1>0, <2>1, <2>2, <2>3
<1>2. ASSUME NEW s \in Slots, IssueCode(s)
      PROVE  codes'[n] = codes[n]
  <2>1. codes' = Append(codes, 0)
    BY <1>2 DEF IssueCode
  <2> QED
    BY <1>0, <2>1
<1>3. CASE UNCHANGED codes
  BY <1>3
<1>4. (\E s \in Slots : ResetWrite(s) \/ IssueCode(s)) \/ UNCHANGED codes
  <2>1. CASE Acts
    BY <2>1 DEF Acts, ChooseKind, WriteText, Pick, Submit, SignIn, Forgot, Reset, OpenSettings,
                Toggle, Leave, Choose, password
  <2>2. CASE Replies
    BY <2>2 DEF Replies, SearchFires, PatchFires, SearchAnswered, TurnedAway, RegisterFind, Found,
                CreateUser, Claim, Welcome, RegistrationRefused, ResetFind, Told, ReadSetting,
                Loaded, LoadFails, SaveRow, SaveUser, Saved, password
  <2>3. CASE CodeExpires \/ \E s \in Slots : GivesUp(s)
    BY <2>3 DEF CodeExpires, GivesUp, password
  <2> QED
    BY <2>1, <2>2, <2>3 DEF AccountNext
<1> QED
  BY <1>1, <1>2, <1>3, <1>4

\* However many codes are sent, to a user who does one thing at a time: a code sets one
\* password at most, and none once another was sent.
THEOREM CodesWorkOnce == AccountSpec => CodeWorksOnce
<1> DEFINE Once == manner = "calm" => \A n \in DOMAIN codes :
                      codes'[n] # codes[n] => codes[n] = 0 /\ codes'[n] = 1 /\ n = Len(codes)
<1>1. AccountSound /\ [AccountNext]_accountVars => [Once]_accountVars
  <2> SUFFICES ASSUME AccountSound, AccountNext PROVE Once
    OBVIOUS
  <2> QED
    BY CodeSteps
<1>2. [][Once]_accountVars <=> CodeWorksOnce
  BY PTL DEF CodeWorksOnce
<1> QED
  BY <1>1, <1>2, AccountAlwaysSound, PTL DEF AccountSpec

\* For a user who does one thing at a time, once everything has settled: what the user
\* last chose is in both rows, and its theme on the screen and in the storage where the
\* settings page is open (the page's own select may still show the theme before a toggle
\* in the header).
THEOREM ChoicesAlwaysArrive == AccountSpec => []ChoicesArrive
<1>1. AccountSound => ChoicesArrive
  <2> SUFFICES ASSUME AccountSound, Calm
               PROVE  /\ setting = wish /\ userTheme = setting.theme
                      /\ page = "settings" => local = setting.theme
    BY DEF ChoicesArrive
  <2>1. /\ WishesKept /\ due = NoTimer /\ \A s \in Slots : \A op, at : ~At(s, op, at)
        /\ page = "settings" => loaded
    BY CalmIs DEF CalmParts
  <2>2. Agreed
    BY <2>1, AgreedWhen, NotPatching
  <2> QED
    BY <2>1, <2>2 DEF Agreed, WishesKept
<1> QED
  BY <1>1, AccountAlwaysSound, PTL

=============================================================================
