-------------------------------- MODULE Account --------------------------------
(***************************************************************************)
(* One account: how it is registered, together with an institution where   *)
(* that is not on the platform yet (RegisterPage.tsx, register of          *)
(* auth.service.ts), how its password is reset, and where its preferences  *)
(* live: on the screen and in the browser's storage (lib/appearance.ts),   *)
(* in the settings row and in the user's (settings.service.ts).            *)
(*                                                                         *)
(* A request is carried out statement by statement.  In "calm" the user    *)
(* does one thing at a time, every request is answered, in order, and the  *)
(* rate limiter lets them pass; in "rough" requests and timers overlap and *)
(* fail and answers come in any order.                                     *)
(***************************************************************************)
EXTENDS Integers, FiniteSets, Sequences

CONSTANTS
    Institutions,   \* on the platform
    Newcomers,      \* bound: institutions that registrations may create
    Finds,          \* what a search text finds; "" finds them all
    Slots,          \* bound: requests carried out at a time
    Manners,
    MaxActs,        \* bound: acts of the user
    MaxCodes        \* bound: codes that were sent

\* An institution's id is made up by the database: no word of the form.
ASSUME AccountAssumption ==
    /\ "" \in DOMAIN Finds /\ Finds[""] = Institutions
    /\ \A x \in DOMAIN Finds : Finds[x] \subseteq Institutions
    /\ "independent" \notin Newcomers
    /\ IsFiniteSet(Slots) /\ MaxActs \in Nat /\ MaxCodes \in Nat

Texts == DOMAIN Finds
None == "none"
New == "registerNew"
Independent == "independent"
Choices == Institutions \cup {None, New, Independent}
TooLong == "tooLong"
Themes == {"light", "dark"}     \* "system" is what the device asks for
Preferences == [theme : Themes, email : BOOLEAN]
Patches == ({"theme"} \X Themes) \cup ({"email"} \X BOOLEAN)

VARIABLES
    manner, acts,
    registered, member,     \* the user's row: whether it is there, its institution
    founded, claimed,   \* institutions that registrations created; with created_by
    codes,          \* of each code that was sent, how often it set a password
    liveCode,       \* the code that is stored and has not expired, or 0
    setting,        \* AppSetting
    userTheme,      \* what User repeats of it
    req,            \* the requests being carried out
    page,
    form,           \* RegisterPage: kind, choice, text, found institutions, sending
    asked,          \* searches that have not been answered
    refused,        \* what the last refused registration had chosen, or that it was too long
    due,            \* what a debounce timer will send: a search or a patch
    shown, loaded, status,      \* SettingsPage
    knob,           \* the theme as ThemeToggle has it
    local,          \* the theme on the screen and in the storage
    wish            \* history: what the user last chose

rows == <<registered, member, founded, claimed>>
password == <<codes, liveCode>>
settings == <<setting, userTheme>>
registering == <<form, asked, refused>>
looks == <<shown, loaded, status, knob, local>>
accountVars ==
    <<manner, acts, rows, password, settings, req, page, registering, due, looks, wish>>

NoTimer == [sends |-> "nothing"]
Search(x) == [sends |-> "search", text |-> x]
Patch(p) == [sends |-> "patch", patch |-> p]
Searches == due.sends = "search"
Patching == due.sends = "patch"

Idle == [op |-> "none"]
Steps == {"find", "found", "create", "claim", "row", "user", "ok", "no", "unfit"}

AccountTypeOK ==
    /\ manner \in Manners /\ acts \in 0..MaxActs
    /\ registered \in BOOLEAN
    /\ member \in Institutions \cup founded \cup {None}
    /\ founded \subseteq Newcomers /\ claimed \subseteq founded
    /\ codes \in [1..Len(codes) -> 0..Cardinality(Slots)] /\ liveCode \in 0..Len(codes)
    /\ setting \in Preferences /\ userTheme \in Themes
    /\ \A s \in Slots : req[s] = Idle \/ req[s].step \in Steps
    /\ page \in {"register", "home", "settings"}
    /\ form.choice \in Choices /\ form.text \in Texts /\ form.list \subseteq Institutions
    /\ refused \in Choices \cup {TooLong}
    /\ due = NoTimer \/ (Searches /\ due.text \in Texts) \/ (Patching /\ due.patch \in Patches)
    /\ shown \in Preferences /\ {loaded, form.sending} \subseteq BOOLEAN
    /\ status \in {"idle", "loading", "saved", "error"}
    /\ {knob, local} \subseteq Themes /\ wish \in Preferences

-----------------------------------------------------------------------------
(* Requests.  "heard" is whether the page still waits for the answer.        *)

BeginRequest(r) == \E s \in Slots : req[s] = Idle /\ req' = [req EXCEPT ![s] = r]
Goto(s, step) == req' = [req EXCEPT ![s].step = step]

At(s, op, step) == req[s] # Idle /\ req[s].op = op /\ req[s].step = step

Settled ==
    /\ \A s \in Slots : req[s] = Idle
    /\ due = NoTimer /\ asked = <<>>
    /\ page = "settings" => loaded

\* Bound: MaxActs acts of the user.
Act == acts < MaxActs /\ acts' = acts + 1 /\ (manner = "calm" => Settled) /\ UNCHANGED manner

\* ... and what an answer or a timer does is none.
Unasked == UNCHANGED <<manner, acts>>

-----------------------------------------------------------------------------
(* register of auth.service.ts. *)

\* The ValidationPipe goes first and turns away fields that are longer than
\* register.dto.ts allows, which the form does not look at (any form may have such
\* fields); in "rough" the rate limiter may turn anything away.
TurnedAway(s) ==
    /\ At(s, "register", "find")
    /\ \/ Goto(s, "unfit")
       \/ manner = "rough" /\ Goto(s, "no")
    /\ Unasked
    /\ UNCHANGED <<rows, password, settings, page, registering, due, looks, wish>>

RegisterFind(s) ==
    /\ At(s, "register", "find")
    /\ Goto(s, IF registered THEN "no" ELSE IF req[s].choice = New THEN "found" ELSE "create")
    /\ Unasked
    /\ UNCHANGED <<rows, password, settings, page, registering, due, looks, wish>>

\* createInstitutionForSignup.
Found(s) ==
    /\ At(s, "register", "found")
    /\ \E n \in Newcomers \ founded :
          /\ founded' = founded \cup {n}
          /\ req' = [req EXCEPT ![s].step = "create", ![s].choice = n]
    /\ Unasked
    /\ UNCHANGED <<registered, member, claimed, password, settings, page, registering, due, looks,
                   wish>>

\* institution_id refers to an institution, where it is given.
KnownInstitution(c) == c # Independent

\* Unique by the email; the researcher's role and the settings row come with it.
CreateUser(s) ==
    /\ At(s, "register", "create")
    /\ IF registered \/ ~KnownInstitution(req[s].choice)
       THEN Goto(s, "no") /\ UNCHANGED <<registered, member>>
       ELSE /\ registered' = TRUE /\ member' = req[s].choice
            /\ Goto(s, IF req[s].choice \in founded THEN "claim" ELSE "ok")
    /\ Unasked
    /\ UNCHANGED <<founded, claimed, password, settings, page, registering, due, looks, wish>>

\* Mutant: the institution is nobody's.
ClaimNothing(s) ==
    /\ At(s, "register", "claim")
    /\ Goto(s, "ok")
    /\ Unasked
    /\ UNCHANGED <<rows, password, settings, page, registering, due, looks, wish>>

Claim(s) ==
    /\ At(s, "register", "claim")
    /\ claimed' = claimed \cup {req[s].choice}
    /\ Goto(s, "ok")
    /\ Unasked
    /\ UNCHANGED <<registered, member, founded, password, settings, page, registering, due, looks,
                   wish>>

-----------------------------------------------------------------------------
(* RegisterPage. *)

\* Choosing "individual" takes the institution back.  For a representative both
\* effects search, and the debounce keeps the second, which searches for "".
ChooseKind(k) ==
    /\ page = "register" /\ form.kind # k
    /\ form' = [form EXCEPT !.kind = k, !.choice = IF k = "individual" THEN None ELSE @]
    /\ due' = IF k = "representative" THEN Search("") ELSE due
    /\ Act
    /\ UNCHANGED <<rows, password, settings, req, page, asked, refused, looks, wish>>

WriteText(x) ==
    /\ page = "register" /\ form.kind = "representative" /\ form.text # x
    /\ form' = [form EXCEPT !.text = x]
    /\ due' = Search(x)
    /\ Act
    /\ UNCHANGED <<rows, password, settings, req, page, asked, refused, looks, wish>>

\* Bound: two searches on their way.
SearchFires ==
    /\ Searches /\ Len(asked) < 2
    /\ asked' = Append(asked, due.text) /\ due' = NoTimer
    /\ Unasked
    /\ UNCHANGED <<rows, password, settings, req, page, form, refused, looks, wish>>

\* The answer, or nothing when it failed.
SearchAnswered(n) ==
    /\ manner = "calm" => n = 1
    /\ asked' = [i \in 1..(Len(asked) - 1) |-> asked[IF i < n THEN i ELSE i + 1]]
    /\ \E l \in {Finds[asked[n]]} \cup (IF manner = "rough" THEN {{}} ELSE {}) :
          form' = IF page = "register" THEN [form EXCEPT !.list = l] ELSE form
    /\ Unasked
    /\ UNCHANGED <<rows, password, settings, req, page, refused, due, looks, wish>>

Pick(c) ==
    /\ page = "register" /\ form.kind = "representative"
    /\ c \in form.list \cup {New, Independent} /\ form.choice # c
    /\ form' = [form EXCEPT !.choice = c]
    /\ Act
    /\ UNCHANGED <<rows, password, settings, req, page, asked, refused, due, looks, wish>>

\* What the form's choice becomes in the request.
Chosen == form.choice

\* onSubmit, of a form that its schema accepts.
Submit ==
    /\ page = "register" /\ ~form.sending
    /\ form.kind = "representative" => form.choice # None
    /\ BeginRequest([op |-> "register", step |-> "find", choice |-> Chosen, heard |-> TRUE])
    /\ form' = [form EXCEPT !.sending = TRUE]
    /\ Act
    /\ UNCHANGED <<rows, password, settings, page, asked, refused, due, looks, wish>>

Blank == [kind |-> "individual", choice |-> None, text |-> "", list |-> {}, sending |-> FALSE]

\* To the dashboard, whose header has a ThemeToggle of its own.
Welcome(s) ==
    /\ At(s, "register", "ok")
    /\ req' = [req EXCEPT ![s] = Idle]
    /\ IF req[s].heard
       THEN page' = "home" /\ form' = Blank /\ knob' = local
            /\ due' = IF Searches THEN NoTimer ELSE due
       ELSE UNCHANGED <<page, form, knob, due>>
    /\ Unasked
    /\ UNCHANGED <<rows, password, settings, asked, refused, shown, loaded, status, local, wish>>

RegistrationRefused(s) ==
    /\ At(s, "register", "no") \/ At(s, "register", "unfit")
    /\ req' = [req EXCEPT ![s] = Idle]
    /\ IF req[s].heard
       THEN /\ form' = [form EXCEPT !.sending = FALSE]
            /\ refused' = IF req[s].step = "no" THEN form.choice ELSE TooLong
       ELSE UNCHANGED <<form, refused>>
    /\ Unasked
    /\ UNCHANGED <<rows, password, settings, page, asked, due, looks, wish>>

\* The page gives up on a request; the server may not have.
GivesUp(s) ==
    /\ manner = "rough" /\ req[s] # Idle /\ req[s].op = "register" /\ req[s].heard
    /\ req' = [req EXCEPT ![s].heard = FALSE]
    /\ form' = [form EXCEPT !.sending = FALSE]
    /\ Unasked
    /\ UNCHANGED <<rows, password, settings, page, asked, refused, due, looks, wish>>

\* The user, whose registration did go through, signs in.
SignIn ==
    /\ page = "register" /\ registered /\ ~form.sending
    /\ page' = "home" /\ form' = Blank /\ knob' = local
    /\ due' = IF Searches THEN NoTimer ELSE due
    /\ Act
    /\ UNCHANGED <<rows, password, settings, req, asked, refused, shown, loaded, status, local,
                   wish>>

-----------------------------------------------------------------------------
(* Codes that reset the password. *)

Forgot ==
    /\ registered /\ Len(codes) < MaxCodes
    /\ BeginRequest([op |-> "forgot", step |-> "row", heard |-> FALSE])
    /\ Act
    /\ UNCHANGED <<rows, password, settings, page, registering, due, looks, wish>>

\* The code replaces the one before.
IssueCode(s) ==
    /\ At(s, "forgot", "row") /\ Len(codes) < MaxCodes
    /\ codes' = Append(codes, 0) /\ liveCode' = Len(codes')
    /\ Goto(s, "ok")
    /\ Unasked
    /\ UNCHANGED <<rows, settings, page, registering, due, looks, wish>>

\* After an hour.
CodeExpires ==
    /\ liveCode # 0 /\ liveCode' = 0
    /\ UNCHANGED <<manner, acts, rows, codes, settings, req, page, registering, due, looks, wish>>

Reset(n) ==
    /\ BeginRequest([op |-> "reset", step |-> "find", code |-> n, heard |-> FALSE])
    /\ Act
    /\ UNCHANGED <<rows, password, settings, page, registering, due, looks, wish>>

ResetFind(s) ==
    /\ At(s, "reset", "find")
    /\ Goto(s, IF liveCode = req[s].code THEN "row" ELSE "no")
    /\ Unasked
    /\ UNCHANGED <<rows, password, settings, page, registering, due, looks, wish>>

\* Mutant: the code stays.
ResetKeepsCode(s) ==
    /\ At(s, "reset", "row")
    /\ codes' = [codes EXCEPT ![req[s].code] = @ + 1]
    /\ Goto(s, "ok")
    /\ Unasked
    /\ UNCHANGED <<rows, liveCode, settings, page, registering, due, looks, wish>>

\* By the user's id, whatever code is there by now (the sessions: TokenRotation).
ResetWrite(s) ==
    /\ At(s, "reset", "row")
    /\ codes' = [codes EXCEPT ![req[s].code] = @ + 1] /\ liveCode' = 0
    /\ Goto(s, "ok")
    /\ Unasked
    /\ UNCHANGED <<rows, settings, page, registering, due, looks, wish>>

\* ForgotPasswordPage and ResetPasswordPage show the answer.
Told(s) ==
    /\ req[s] # Idle /\ req[s].op \in {"forgot", "reset"} /\ req[s].step \in {"ok", "no"}
    /\ req' = [req EXCEPT ![s] = Idle]
    /\ Unasked
    /\ UNCHANGED <<rows, password, settings, page, registering, due, looks, wish>>

-----------------------------------------------------------------------------
(* Preferences. *)

Other(theme) == CHOOSE t \in Themes : t # theme

\* The page starts with the theme of the storage, and e-mails switched on.
OpenSettings ==
    /\ page = "home"
    /\ page' = "settings" /\ loaded' = FALSE /\ status' = "idle"
    /\ shown' = [theme |-> local, email |-> TRUE]
    /\ BeginRequest([op |-> "load", step |-> "row", val |-> setting, heard |-> TRUE])
    /\ Act
    /\ UNCHANGED <<rows, password, settings, registering, due, knob, local, wish>>

ReadSetting(s) ==
    /\ At(s, "load", "row")
    /\ req' = [req EXCEPT ![s].step = "ok", ![s].val = setting]
    /\ Unasked
    /\ UNCHANGED <<rows, password, settings, page, registering, due, looks, wish>>

\* An effect for each preference; the debounce keeps the patch of the last one.
Initialized(value) ==
    /\ shown' = value /\ loaded' = TRUE /\ local' = value.theme
    /\ due' = Patch(<<"email", value.email>>) /\ status' = "loading"

\* Mutant: the effects run with what the page started with.
LoadedLate(s) ==
    /\ At(s, "load", "ok")
    /\ req' = [req EXCEPT ![s] = Idle]
    /\ IF req[s].heard
       THEN Initialized([req[s].val EXCEPT !.email = shown.email])
       ELSE UNCHANGED <<shown, loaded, local, due, status>>
    /\ Unasked
    /\ UNCHANGED <<rows, password, settings, page, registering, knob, wish>>

Loaded(s) ==
    /\ At(s, "load", "ok")
    /\ req' = [req EXCEPT ![s] = Idle]
    /\ IF req[s].heard
       THEN Initialized(req[s].val)
       ELSE UNCHANGED <<shown, loaded, local, due, status>>
    /\ Unasked
    /\ UNCHANGED <<rows, password, settings, page, registering, knob, wish>>

\* The page is initialized all the same, and saves what it started with.
LoadFails(s) ==
    /\ manner = "rough" /\ req[s] # Idle /\ req[s].op = "load"
    /\ req' = [req EXCEPT ![s] = Idle]
    /\ IF req[s].heard
       THEN Initialized(shown)
       ELSE UNCHANGED <<shown, loaded, local, due, status>>
    /\ Unasked
    /\ UNCHANGED <<rows, password, settings, page, registering, knob, wish>>

\* Mutant: "saving" is shown and nothing is.
ChooseOnly(p) ==
    /\ page = "settings" /\ shown[p[1]] # p[2]
    /\ shown' = [shown EXCEPT ![p[1]] = p[2]] /\ wish' = [wish EXCEPT ![p[1]] = p[2]]
    /\ local' = IF p[1] = "theme" THEN p[2] ELSE local
    /\ status' = IF loaded THEN "loading" ELSE status
    /\ Act
    /\ UNCHANGED <<rows, password, settings, req, page, registering, due, loaded, knob>>

\* A patch that waits gives way to the next.
Choose(p) ==
    /\ page = "settings" /\ shown[p[1]] # p[2]
    /\ shown' = [shown EXCEPT ![p[1]] = p[2]] /\ wish' = [wish EXCEPT ![p[1]] = p[2]]
    /\ local' = IF p[1] = "theme" THEN p[2] ELSE local
    /\ IF loaded THEN due' = Patch(p) /\ status' = "loading" ELSE UNCHANGED <<due, status>>
    /\ Act
    /\ UNCHANGED <<rows, password, settings, req, page, registering, loaded, knob>>

Save(p, heard) == [op |-> "save", step |-> "row", patch |-> p, heard |-> heard]

PatchFires ==
    /\ Patching
    /\ BeginRequest(Save(due.patch, TRUE)) /\ due' = NoTimer
    /\ Unasked
    /\ UNCHANGED <<rows, password, settings, page, registering, looks, wish>>

\* The toggle of the header, by the theme as it knows it.
Toggle ==
    /\ page # "register"
    /\ knob' = Other(knob) /\ local' = knob' /\ wish' = [wish EXCEPT !.theme = knob']
    /\ BeginRequest(Save(<<"theme", knob'>>, FALSE))
    /\ Act
    /\ UNCHANGED <<rows, password, settings, page, registering, due, shown, loaded, status>>

\* updateSettings: first AppSetting, then what User repeats.
SaveRow(s) ==
    /\ At(s, "save", "row")
    /\ LET p == req[s].patch
       IN /\ setting' = [setting EXCEPT ![p[1]] = p[2]]
          /\ Goto(s, IF p[1] = "theme" THEN "user" ELSE "ok")
    /\ Unasked
    /\ UNCHANGED <<rows, password, userTheme, page, registering, due, looks, wish>>

SaveUser(s) ==
    /\ At(s, "save", "user")
    /\ userTheme' = req[s].patch[2]
    /\ Goto(s, "ok")
    /\ Unasked
    /\ UNCHANGED <<rows, password, setting, page, registering, due, looks, wish>>

Saved(s) ==
    /\ req[s] # Idle /\ req[s].op = "save"
    /\ req[s].step = "ok" \/ manner = "rough"
    /\ req' = [req EXCEPT ![s] = Idle]
    /\ \E answer \in (IF req[s].step = "ok" THEN {"saved"} ELSE {}) \cup
                     (IF manner = "rough" THEN {"error"} ELSE {}) :
          status' = IF req[s].heard THEN answer ELSE status
    /\ Unasked
    /\ UNCHANGED <<rows, password, settings, page, registering, due, shown, loaded, knob, local,
                   wish>>

\* The timer goes with the page.
Leave ==
    /\ page = "settings"
    /\ page' = "home" /\ due' = NoTimer /\ status' = "idle"
    /\ req' = [s \in Slots |-> IF req[s] = Idle THEN Idle ELSE [req[s] EXCEPT !.heard = FALSE]]
    /\ Act
    /\ UNCHANGED <<rows, password, settings, registering, shown, loaded, knob, local, wish>>

-----------------------------------------------------------------------------
AccountInit ==
    /\ manner \in Manners /\ acts = 0
    /\ registered = FALSE /\ member = None /\ founded = {} /\ claimed = {}
    /\ codes = <<>> /\ liveCode = 0
    /\ setting = [theme |-> "light", email |-> TRUE] /\ userTheme = "light" /\ wish = setting
    /\ req = [s \in Slots |-> Idle]
    /\ page = "register" /\ form = Blank /\ asked = <<>> /\ refused = None /\ due = NoTimer
    /\ shown = setting /\ loaded = FALSE /\ status = "idle" /\ local \in Themes /\ knob = local

Acts ==
    \/ \E k \in {"individual", "representative"} : ChooseKind(k)
    \/ \E x \in Texts : WriteText(x)
    \/ \E c \in Choices : Pick(c)
    \/ Submit \/ SignIn \/ Forgot \/ \E n \in DOMAIN codes : Reset(n)
    \/ OpenSettings \/ Toggle \/ Leave \/ \E p \in Patches : Choose(p)

\* What the server, the timers and the answers do by themselves.
Replies ==
    \/ SearchFires \/ PatchFires \/ \E n \in DOMAIN asked : SearchAnswered(n)
    \/ \E s \in Slots :
          \/ TurnedAway(s) \/ RegisterFind(s) \/ Found(s) \/ CreateUser(s) \/ Claim(s)
          \/ Welcome(s) \/ RegistrationRefused(s)
          \/ IssueCode(s) \/ ResetFind(s) \/ ResetWrite(s) \/ Told(s)
          \/ ReadSetting(s) \/ Loaded(s) \/ LoadFails(s)
          \/ SaveRow(s) \/ SaveUser(s) \/ Saved(s)

AccountNext == Acts \/ Replies \/ CodeExpires \/ \E s \in Slots : GivesUp(s)

\* Requests are answered, if with a failure, and timers fire.
AccountSpec == AccountInit /\ [][AccountNext]_accountVars /\ WF_accountVars(Replies)

-----------------------------------------------------------------------------
(* Properties. *)

Calm == manner = "calm" /\ Settled

\* A registration that the form lets through is refused to nobody but who called
\* themselves independent (that is sent as the institution's id), who has an account, and
\* who wrote more than the server takes (register.dto.ts; the form sets no maxima).
RefusedOnlyUnknown ==
    manner = "calm" /\ refused # None => refused \in {Independent, TooLong} \/ registered

\* In calm, an institution that was registered with an account belongs to who registered
\* it: no institution is left without its account, and the account is its member.
FoundedWithAccount ==
    Calm => claimed = founded /\ \A n \in founded : member = n

\* In calm, a registration succeeds as a whole and where it should.
RegistrationWhole == AccountTypeOK /\ RefusedOnlyUnknown /\ FoundedWithAccount

\* In calm, a code sets one password, and none once another was sent.
CodeWorksOnce ==
    [][manner = "calm" => \A n \in DOMAIN codes :
          codes'[n] # codes[n] => codes[n] = 0 /\ codes'[n] = 1 /\ n = Len(codes)]_accountVars

\* In calm, what the user last chose is what the account's settings say, in both of their
\* rows, and the theme on the screen and in the storage once the settings page has loaded
\* (the page's own select may still show the theme before a toggle in the header).
ChoicesArrive ==
    Calm => /\ setting = wish /\ userTheme = setting.theme
            /\ page = "settings" => local = setting.theme

\* "Saving" does not stay (status of SettingsPage.tsx), whatever overlaps and fails.
SavingEnds == (status = "loading" /\ page = "settings") ~> (status # "loading" \/ page # "settings")

\* The button of the registration form comes back, or the dashboard appears.
SubmissionEnds == form.sending ~> ~form.sending

\* Neither page waits for ever.
PagesSettle == SavingEnds /\ SubmissionEnds

=============================================================================
