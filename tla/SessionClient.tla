----------------------------- MODULE SessionClient -----------------------------
(***************************************************************************)
(* The session of one user agent: a tab of the browser or the packaged     *)
(* app.  api/client.ts shares one refresh among its callers and sends a    *)
(* request that was refused once more; store/authStore.ts holds the user,  *)
(* signs in and out and keeps the access token ahead of its expiry;        *)
(* lib/nativeSession.ts keeps the refresh token of the app on the device.  *)
(* A session stands for its whole chain of refresh tokens and for the      *)
(* access tokens issued in it (TokenRotation has the chain), and its user  *)
(* for the profile that is shown.                                          *)
(*                                                                         *)
(* An action is the code that runs between two events: an answer, a timer, *)
(* something the user does.  In a "patient" behaviour signing in or out    *)
(* and a refresh never overlap, answers arrive and writes are carried out; *)
(* in a "shaky" one requests fail, calls over the bridge time out and the  *)
(* agent may be closed at any moment; in a "hasty" one a refresh may be in *)
(* flight while the user signs in or out.                                  *)
(***************************************************************************)
EXTENDS Integers, Sequences

CONSTANTS
    Sessions,       \* ids of sessions at the server
    NoSession,
    Calls,          \* requests that the pages have in progress
    MaxWrites,      \* bound: writes to the device's preferences under way
    Modes           \* the kinds of behaviour to consider

ASSUME SessionAssumption ==
    /\ NoSession \notin Sessions /\ MaxWrites \in Nat /\ Modes \subseteq {"patient", "shaky", "hasty"}
    /\ Calls \cap {"mount", "timer", "visible"} = {}

VARIABLES
    native,         \* isNative()
    mode,
    live,           \* sessions the server would refresh
    signedIn,       \* sessions the server has created
    forgetful,      \* those of them whose user did not ask to be remembered
    access,         \* accessToken of client.ts
    stale,          \* that token has expired
    user,           \* of authStore.ts
    checked,        \* sessionChecked
    timer,          \* refreshTimer: off, on, or on for a retry
    stored,         \* the cookie of the browser, the local copy of the app
    persistent,     \* the cookie has a maximum age
    mirror,         \* the copy in the preferences of the device
    writes,         \* to the preferences, not yet carried out
    refresh,        \* refreshRequest, and who waits for it
    call,           \* the requests of the pages
    exchange,       \* signing in or out, in progress
    abandoned       \* history, of patient behaviours: sessions dropped for the answer
                    \* to a call sent again

client == <<access, stale, user, checked, timer>>
device == <<stored, persistent, mirror, writes>>
server == <<live, signedIn, forgetful>>
vars == <<native, mode, client, device, server, refresh, call, exchange, abandoned>>

Maybe == Sessions \cup {NoSession}

Waiters == {"mount", "timer", "visible"} \cup Calls

TypeOK ==
    /\ native \in BOOLEAN /\ mode \in Modes
    /\ live \subseteq signedIn /\ forgetful \subseteq signedIn /\ signedIn \subseteq Sessions
    /\ access \in Maybe /\ stale \in BOOLEAN /\ user \in Maybe
    /\ checked \in BOOLEAN /\ timer \in {"off", "on", "retry"}
    /\ stored \in Maybe /\ persistent \in BOOLEAN
    /\ mirror \in Maybe /\ writes \in Seq(Maybe)
    /\ refresh \in [pc: {"none", "mirror", "sent", "granted", "denied"},
                    with: Maybe, waiting: SUBSET Waiters]
    /\ call \in [Calls -> [pc: {"idle", "sent", "waiting", "resent"}, with: Maybe]]
    /\ \A c \in Calls : call[c].pc = "waiting" <=> c \in refresh.waiting
    /\ exchange \in [op: {"none", "login", "logout"}, with: Maybe, served: BOOLEAN]
    /\ abandoned \subseteq signedIn

-----------------------------------------------------------------------------
NoRefresh == [pc |-> "none", with |-> NoSession, waiting |-> {}]
NoCall == [pc |-> "idle", with |-> NoSession]
NoExchange == [op |-> "none", with |-> NoSession, served |-> FALSE]

Asked(pc, with, w) == [pc |-> pc, with |-> with, waiting |-> {w}]

\* Mutant: the app leaves it to the cookie.
LaunchedByCookie(s, w) == Asked("sent", IF native THEN NoSession ELSE s, w)

\* refreshSession: send the token that is stored; the app that has no local copy
\* looks into the preferences first.
Launched(s, w) == Asked(IF native /\ s = NoSession THEN "mirror" ELSE "sent", s, w)

\* The one in flight is shared.
Joined(w) ==
    IF refresh.pc = "none" THEN Launched(stored, w)
                           ELSE [refresh EXCEPT !.waiting = @ \cup {w}]

Init ==
    /\ native \in BOOLEAN /\ mode \in Modes
    /\ live = {} /\ signedIn = {} /\ forgetful = {}
    /\ access = NoSession /\ stale = FALSE /\ user = NoSession
    /\ checked = FALSE /\ timer = "off"
    /\ stored = NoSession /\ persistent = FALSE /\ mirror = NoSession /\ writes = << >>
    /\ refresh = Launched(NoSession, "mount")
    /\ call = [c \in Calls |-> NoCall]
    /\ exchange = NoExchange
    /\ abandoned = {}

Patient == mode = "patient"

Shaky == mode = "shaky"

\* Signing in or out and a refresh do not overlap.
InTurn == mode # "hasty"

Quiet == refresh = NoRefresh /\ exchange = NoExchange

\* setRefreshToken: the local copy at once, the preferences when they get to it.
\* Bound: no more writes under way than MaxWrites.
Keep(s) ==
    /\ stored' = s
    /\ IF native
       THEN /\ Len(writes) < MaxWrites
            /\ writes' = Append(writes, s)
       ELSE UNCHANGED writes
    /\ UNCHANGED mirror

-----------------------------------------------------------------------------
(* The preferences of the device, behind a bridge that carries calls out in    *)
(* order, each of them timed.                                                  *)

ReadMirror ==
    /\ refresh.pc = "mirror"
    /\ ~Shaky => writes = << >>
    /\ \E found \in IF Shaky THEN {mirror, NoSession} ELSE {mirror} :
          /\ stored' = IF found = NoSession THEN stored ELSE found
          /\ refresh' = [refresh EXCEPT !.with = found,
                                        !.pc = IF found = NoSession THEN "denied" ELSE "sent"]
    /\ UNCHANGED <<native, mode, client, persistent, mirror, writes, server,
                   call, exchange, abandoned>>

WriteMirror ==
    /\ writes # << >>
    /\ writes' = Tail(writes)
    /\ \/ mirror' = Head(writes)
       \/ Shaky /\ UNCHANGED mirror
    /\ UNCHANGED <<native, mode, client, stored, persistent, server, refresh,
                   call, exchange, abandoned>>

-----------------------------------------------------------------------------
(* The refresh. *)

\* auth.controller.ts refresh: a session that is live is answered.
ServeRefresh ==
    /\ refresh.pc = "sent"
    /\ refresh' = [refresh EXCEPT !.pc = IF refresh.with \in live THEN "granted" ELSE "denied"]
    /\ UNCHANGED <<native, mode, client, device, server, call, exchange, abandoned>>

\* The calls that waited are sent again, with the new token.
Resent(s) == [c \in Calls |-> IF c \in refresh.waiting
                              THEN [pc |-> "resent", with |-> s] ELSE call[c]]

Failed == [c \in Calls |-> IF c \in refresh.waiting THEN NoCall ELSE call[c]]

\* The cookie that comes with the answer has a maximum age: refresh calls
\* issueSession without saying whether to remember.
Granted ==
    /\ refresh.pc = "granted"
    /\ access' = refresh.with /\ stale' = FALSE
    /\ Keep(refresh.with) /\ persistent' = TRUE
    /\ refresh' = NoRefresh
    /\ call' = Resent(refresh.with)
    /\ IF refresh.waiting \cap {"mount", "timer", "visible"} # {}
       THEN user' = refresh.with /\ timer' = "on" /\ abandoned' = abandoned \ {refresh.with}
       ELSE UNCHANGED <<user, timer, abandoned>>
    /\ checked' = (checked \/ "mount" \in refresh.waiting)
    /\ UNCHANGED <<native, mode, server, exchange>>

\* What the waiters make of a refresh that failed.  The effect that ran at mount
\* forgets the user whatever the reason; the timer tries again; a call does the
\* same as a logout, but only when the session was refused.
Disappointed(refused, cleared) ==
    LET expired == refused /\ refresh.waiting \cap Calls # {}
    IN /\ IF expired \/ "mount" \in refresh.waiting
          THEN access' = NoSession /\ user' = NoSession
          ELSE UNCHANGED <<access, user>>
       /\ timer' \in CASE expired /\ "timer" \in refresh.waiting -> {"off", "retry"}
                       [] expired /\ "timer" \notin refresh.waiting -> {"off"}
                       [] ~expired /\ "timer" \in refresh.waiting -> {"retry"}
                       [] OTHER -> {timer}
       /\ checked' = (checked \/ "mount" \in refresh.waiting)
       /\ IF expired /\ native THEN Keep(NoSession)
          ELSE /\ stored' = IF cleared /\ ~native THEN NoSession ELSE stored
               /\ UNCHANGED <<mirror, writes>>
       /\ refresh' = NoRefresh
       /\ call' = Failed
       /\ UNCHANGED <<native, mode, stale, persistent, server, exchange, abandoned>>

\* Mutant: a refusal, too, is taken for a stumble.
DeniedGently == refresh.pc = "denied" /\ Disappointed(FALSE, TRUE)

\* The answer that refuses a token clears the cookie.
Denied == refresh.pc = "denied" /\ Disappointed(TRUE, refresh.with # NoSession)

\* Mutant: any failure is taken for a refusal.
StumbledForGood ==
    /\ refresh.pc \in {"sent", "granted"} /\ Shaky
    /\ Disappointed(TRUE, FALSE)

\* A timeout, a rate limit, a server that is asleep: isTransientFailure.  When it is
\* the rotation that fails, the answer clears the cookie all the same.
Stumbled ==
    /\ refresh.pc \in {"sent", "granted"} /\ Shaky
    /\ \E cleared \in BOOLEAN : Disappointed(FALSE, cleared)

-----------------------------------------------------------------------------
(* What makes the store ask for a refresh. *)

Ask(w) ==
    /\ InTurn => exchange = NoExchange
    /\ refresh' = Joined(w)

TimerFires ==
    /\ timer = "on" /\ Ask("timer")
    /\ timer' = "off"
    /\ UNCHANGED <<native, mode, access, stale, user, checked, device, server,
                   call, exchange, abandoned>>

\* scheduleRefresh does nothing without a token.
RetryFires ==
    /\ timer = "retry"
    /\ timer' = IF access = NoSession THEN "off" ELSE "on"
    /\ UNCHANGED <<native, mode, access, stale, user, checked, device, server, refresh,
                   call, exchange, abandoned>>

\* The tab is looked at again, after its token has (nearly) expired.
BecomesVisible ==
    /\ user # NoSession /\ (stale \/ access = NoSession)
    /\ Ask("visible")
    /\ UNCHANGED <<native, mode, client, device, server, call, exchange, abandoned>>

Expires ==
    /\ access # NoSession /\ stale' = TRUE
    /\ UNCHANGED <<native, mode, access, user, checked, timer, device, server, refresh,
                   call, exchange, abandoned>>

-----------------------------------------------------------------------------
(* The requests of the pages. *)

Send(c) ==
    /\ call[c] = NoCall
    /\ call' = [call EXCEPT ![c] = [pc |-> "sent", with |-> access]]
    /\ UNCHANGED <<native, mode, client, device, server, refresh, exchange, abandoned>>

\* The answer, or a failure that the page has to deal with.
Answered(c) ==
    /\ call[c].pc \in {"sent", "resent"}
    /\ call' = [call EXCEPT ![c] = NoCall]
    /\ UNCHANGED <<native, mode, client, device, server, refresh, exchange, abandoned>>

\* The request that is sent again is awaited where the refresh was: when it fails in a
\* way that is not transient (the page asks for what is not there, say) that is taken
\* for the end of the session.  The cookie of the browser stays.
GivenUp(c) ==
    /\ call[c].pc = "resent"
    /\ call' = [call EXCEPT ![c] = NoCall]
    /\ access' = NoSession /\ user' = NoSession /\ timer' = "off"
    /\ IF native THEN Keep(NoSession) ELSE UNCHANGED <<stored, mirror, writes>>
    /\ abandoned' = IF Patient THEN (abandoned \cup {user}) \ {NoSession} ELSE abandoned
    /\ UNCHANGED <<native, mode, stale, checked, persistent, server, refresh, exchange>>

\* 401, the first time: wait for a refresh.
Refused(c) ==
    /\ call[c].pc = "sent"
    /\ call[c].with = NoSession \/ call[c].with # access \/ stale
    /\ Ask(c)
    /\ call' = [call EXCEPT ![c].pc = "waiting"]
    /\ UNCHANGED <<native, mode, client, device, server, exchange, abandoned>>

-----------------------------------------------------------------------------
(* Signing in and out. *)

Begin(op, with) ==
    /\ exchange = NoExchange
    /\ InTurn => refresh = NoRefresh
    /\ exchange' = [op |-> op, with |-> with, served |-> FALSE]
    /\ UNCHANGED <<native, mode, client, device, server, refresh, call, abandoned>>

Login == user = NoSession /\ Begin("login", NoSession)

\* Mutant: the app leaves it to the cookie to name the session.
LogoutByCookie == user # NoSession /\ Begin("logout", IF native THEN NoSession ELSE stored)

\* The app without a local copy reads its preferences here too.
Logout == user # NoSession /\ Begin("logout", IF native /\ stored = NoSession THEN mirror ELSE stored)

\* A new session; which of the ids it gets does not matter.
ServeLogin ==
    /\ exchange.op = "login" /\ ~exchange.served
    /\ signedIn # Sessions
    /\ LET s == CHOOSE s \in Sessions \ signedIn : TRUE
       IN /\ signedIn' = signedIn \cup {s} /\ live' = live \cup {s}
          /\ forgetful' \in {forgetful, forgetful \cup {s}}
          /\ exchange' = [exchange EXCEPT !.with = s, !.served = TRUE]
    /\ UNCHANGED <<native, mode, client, device, refresh, call, abandoned>>

\* Mutant: a token that the device already has is not replaced.
LoggedInUnkept ==
    /\ exchange.op = "login" /\ exchange.served
    /\ access' = exchange.with /\ stale' = FALSE /\ user' = exchange.with /\ timer' = "on"
    /\ Keep(IF stored = NoSession THEN exchange.with ELSE stored) /\ persistent' = TRUE
    /\ exchange' = NoExchange
    /\ UNCHANGED <<native, mode, checked, server, refresh, call, abandoned>>

LoggedIn ==
    /\ exchange.op = "login" /\ exchange.served
    /\ access' = exchange.with /\ stale' = FALSE /\ user' = exchange.with /\ timer' = "on"
    /\ Keep(exchange.with) /\ persistent' = (exchange.with \notin forgetful)
    /\ exchange' = NoExchange
    /\ UNCHANGED <<native, mode, checked, server, refresh, call, abandoned>>

\* Bound: there are no sessions left; in a shaky behaviour, any failure.
LoginFails ==
    /\ exchange.op = "login" /\ ~exchange.served
    /\ signedIn = Sessions \/ Shaky
    /\ exchange' = NoExchange
    /\ UNCHANGED <<native, mode, client, device, server, refresh, call, abandoned>>

ServeLogout ==
    /\ exchange.op = "logout" /\ ~exchange.served
    /\ live' = live \ {exchange.with}
    /\ exchange' = [exchange EXCEPT !.served = TRUE]
    /\ UNCHANGED <<native, mode, client, device, signedIn, forgetful, refresh,
                   call, abandoned>>

\* The answer clears the cookie; a failure does not, but the app forgets its token.
LoggedOut ==
    /\ exchange.op = "logout" /\ (exchange.served \/ Shaky)
    /\ access' = NoSession /\ user' = NoSession /\ timer' = "off"
    /\ \/ (native \/ exchange.served) /\ Keep(NoSession)
       \/ ~native /\ Shaky /\ UNCHANGED <<stored, mirror, writes>>
    /\ exchange' = NoExchange
    /\ UNCHANGED <<native, mode, stale, checked, persistent, server, refresh,
                   call, abandoned>>

-----------------------------------------------------------------------------
(* Around the client. *)

\* The session ends at the server: its week is over, or the password has changed.
EndsAtServer ==
    /\ \E s \in live : live' = live \ {s}
    /\ UNCHANGED <<native, mode, client, device, signedIn, forgetful, refresh,
                   call, exchange, abandoned>>

\* The agent is closed and opened again: what is in memory is gone, and a cookie
\* without a maximum age; the storage of the app's web view may have been cleared,
\* and writes under way may be lost.
Reopen ==
    /\ Shaky \/ (Quiet /\ writes = << >>)
    /\ access' = NoSession /\ stale' = FALSE /\ user' = NoSession /\ checked' = FALSE /\ timer' = "off"
    /\ writes' = << >>
    /\ stored' \in IF native THEN {stored, NoSession}
                  ELSE {IF persistent THEN stored ELSE NoSession}
    /\ refresh' = Launched(stored', "mount")
    /\ call' = [c \in Calls |-> NoCall]
    /\ exchange' = NoExchange
    /\ UNCHANGED <<native, mode, persistent, mirror, server, abandoned>>

-----------------------------------------------------------------------------
Asks == TimerFires \/ RetryFires \/ BecomesVisible

Answers == ReadMirror \/ ServeRefresh \/ Granted \/ Denied

Exchanges == ServeLogin \/ LoggedIn \/ LoginFails \/ ServeLogout \/ LoggedOut

Next ==
    \/ Asks \/ Answers \/ Exchanges \/ Stumbled \/ WriteMirror
    \/ Expires \/ Login \/ Logout \/ EndsAtServer \/ Reopen
    \/ \E c \in Calls : Send(c) \/ Answered(c) \/ GivenUp(c) \/ Refused(c)

\* Requests have a timeout and calls over the bridge are timed: they all end.
Fairness ==
    /\ WF_vars(Answers) /\ WF_vars(Exchanges) /\ WF_vars(WriteMirror)
    /\ \A c \in Calls : WF_vars(Answered(c))

Spec == Init /\ [][Next]_vars /\ Fairness

-----------------------------------------------------------------------------
(* Properties. *)

\* Whoever is shown as signed in is the one whose token the requests carry and
\* whose refresh token is kept, whatever fails, as long as signing in and out takes
\* turns with refreshing (authStore.ts, client.ts, nativeSession.ts).
SameIdentity ==
    InTurn /\ Quiet /\ user # NoSession =>
        access = user /\ stored \in {user, NoSession}

\* Nobody is shown as signed in without a token to send, whatever overlaps what
\* (client.ts: "half-authenticated for good").
NotHalfSignedIn == user # NoSession => access # NoSession

\* In a patient behaviour, signed out means out: no access token, nothing kept of a
\* session that the server still refreshes, and no such session of a user who wants to
\* be remembered (clearSession, authApi.logout) - but for the sessions that were dropped
\* at the client only, for the answer to a call sent again (client.ts:201).
SignedOutLeavesNothing ==
    Patient /\ Quiet /\ checked /\ user = NoSession =>
        /\ access \in abandoned \cup {NoSession}
        /\ stored \notin live \ abandoned
        /\ live \subseteq forgetful \cup abandoned

\* The preferences never settle on another token than the local copy, though
\* nobody waits for the writes (nativeSession.ts: a durable mirror).
MirrorFollows ==
    Patient /\ native /\ writes = << >> /\ refresh.pc # "mirror" => mirror = stored

\* All copies of who is signed in agree: store, client, storage and preferences.
OneIdentity == TypeOK /\ SameIdentity /\ NotHalfSignedIn /\ MirrorFollows

\* Nobody is signed out but by signing out, by closing the agent, or because the
\* session has ended at the server (client.ts: a hiccup is not a logout), unless the
\* browser has nothing to send because such a hiccup has cost it the cookie, or a call
\* that was sent again has failed for good.
NoSilentSignOut ==
    [][InTurn /\ user # NoSession /\ user' # user =>
          \/ exchange.op = "logout" \/ user \notin live \/ ~checked'
          \/ ~native /\ refresh.with = NoSession
          \/ \E c \in Calls : call[c].pc = "resent" /\ call'[c] = NoCall]_vars

\* "The client already clears the session when it is genuinely gone" (authStore.ts:65).
\* It also clears a session that is not: the answer to a call that is sent again is
\* looked at as the refresh is (client.ts:201), and a 404 is no transient failure.
ClearedOnlyWhenGone ==
    [][Patient /\ user # NoSession /\ user' = NoSession =>
          exchange.op = "logout" \/ user \notin live \/ ~checked']_vars

\* "A rate limit, a server hiccup or an offline moment is not a logout" (client.ts:203).
\* It may be one: the cookie is cleared whatever made the rotation fail
\* (auth.controller.ts:161), and the next refresh is refused.
HiccupIsNoLogout ==
    [][InTurn /\ user # NoSession /\ user' # user =>
          exchange.op = "logout" \/ user \notin live \/ ~checked']_vars

\* A page that waits on a session that has ended is sent to the login form: the
\* user is not kept half signed in (client.ts, noSessionError).
DeadSessionNoticed ==
    Patient /\ user \notin live /\ refresh.pc \in {"mirror", "sent"} /\ refresh.waiting \cap Calls # {}
        ~> user = NoSession \/ user \in live

\* The first check of a session ends, whatever answers: the screen does not wait
\* for ever, unless the agent is reopened for ever (withBridgeTimeout, finally).
CheckEnds == []<>checked \/ []<><<Reopen>>_vars

\* Nobody waits for ever for an answer about the session.
NobodyWaits == DeadSessionNoticed /\ CheckEnds

\* A user who is remembered is signed in again when the agent is reopened.
Remembered ==
    \A s \in Sessions :
        Patient /\ ~checked /\ s \in live /\ stored = s ~> user = s \/ s \notin live

\* "When false the session ends with the browser session" (web api/auth.ts): the
\* cookie of a user who asked not to be remembered has no maximum age.
ForgottenWhenClosed == ~native /\ stored \in forgetful => ~persistent

=============================================================================
