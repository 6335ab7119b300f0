---------------------------- MODULE AccessRequests ----------------------------
(***************************************************************************)
(* Who may read the files of one published record: the requests for access *)
(* to it and the decisions on them (requestAccess and decideAccess of      *)
(* GovernanceService), the role assignments that entitle to decide         *)
(* (assignRole, revokeRole), and the access level of the record with its   *)
(* copy in the access policy (ArchivesService.update).  Every user belongs *)
(* to the institution of the record.                                       *)
(*                                                                         *)
(* An action is one database call with the code that runs up to the next   *)
(* one; the reads that lead to the first write or to a search are one step *)
(* where they are a permission check.  A grant lasts Hours of an abstract  *)
(* clock.  The audit entry that ends each handler is never read here and   *)
(* is left out.                                                            *)
(*                                                                         *)
(* "orderly" is chosen at the start of a behaviour and says whether its    *)
(* requests wait for each other and its process stays alive.  "silenced"   *)
(* is a history variable: the code does not keep it and no guard asks it.  *)
(***************************************************************************)
EXTENDS Authorization, Naturals, FiniteSets

CONSTANTS
    Users, Owner,       \* of the record
    Institution,        \* of the record
    Assignments,        \* ids of RoleAssignment rows
    NoAssignment,
    FirstAdmin,         \* the system administrator the database starts with
    Offers,             \* the roles that are assigned: [user, role, inst]
    NoRole,
    Asks,               \* ids of AccessRequest rows
    NoAsk,
    Hours,
    MaxTime,            \* bound on the clock
    MaxBegun,           \* bound on the requests that come in
    Workers,            \* requests in progress
    Overlap,            \* how many of them may be in progress together
    Crashes             \* whether the process may die between two calls,
                        \* in a behaviour that is not orderly

GlobalRoles == {"system_admin", "sovereignty_custodian"}

InstitutionRoles == {"depositor", "cataloger", "reviewer", "institution_admin"}

Role == [user: Users, role: GlobalRoles \cup InstitutionRoles \cup {"researcher"},
         inst: {Institution, NoInst}]

ASSUME AccessAssumption ==
    /\ NoUser \notin Users /\ Owner \in Users /\ FirstAdmin \in Users
    /\ NoInst # Institution
    /\ Offers \subseteq Role /\ NoRole \notin Role
    /\ NoAssignment \notin Assignments /\ NoAsk \notin Asks
    /\ Hours \in Nat \ {0} /\ MaxTime \in Nat /\ MaxBegun \in Nat
    /\ IsFiniteSet(Workers) /\ Overlap \in Nat /\ Crashes \in BOOLEAN

VARIABLES
    assignment,     \* the RoleAssignment table
    ask,            \* the AccessRequest table
    told,           \* the decisions that notifications announce, by request
    silenced,       \* the requests whose last decision lost its notification
    level,          \* access_level of the record
    policy,         \* access_level of its AccessPolicy
    now, begun, req, orderly

vars == <<assignment, ask, told, silenced, level, policy, now, begun, req, orderly>>

Levels == {"public", "sensitive", "sovereign"}

Decisions == {"approved", "rejected"}

Assignment == [to: Role \cup {NoRole}, active: BOOLEAN]

AccessRequest == [status: {"none", "pending"} \cup Decisions,
                  by: Users \cup {NoUser}, expires: Nat]

Request == [pc: {"idle", "assignFind", "assign", "revoke", "askFind", "ask",
                 "check", "decide", "tell", "level", "policy"},
            actor: Users \cup {NoUser},
            assignment: Assignments \cup {NoAssignment},
            role: Role \cup {NoRole}, active: BOOLEAN,
            ask: Asks \cup {NoAsk}, decision: Decisions,
            level: Levels,      \* of the record, as it was read
            wanted: Levels]

Idle == [pc |-> "idle", actor |-> NoUser, assignment |-> NoAssignment,
         role |-> NoRole, active |-> TRUE, ask |-> NoAsk, decision |-> "rejected",
         level |-> "public", wanted |-> "public"]

TypeOK ==
    /\ assignment \in [Assignments -> Assignment]
    /\ ask \in [Asks -> AccessRequest]
    /\ told \in [Asks -> SUBSET Decisions]
    /\ silenced \in SUBSET (Asks \cup {NoAsk})
    /\ level \in Levels /\ policy \in Levels
    /\ now \in Nat /\ begun \in Nat
    /\ req \in [Workers -> Request]
    /\ orderly \in BOOLEAN

-----------------------------------------------------------------------------
Admin == [user |-> FirstAdmin, role |-> "system_admin", inst |-> NoInst]

Init ==
    /\ \E a \in Assignments :
          assignment = [b \in Assignments |->
                          IF b = a THEN [to |-> Admin, active |-> TRUE]
                                   ELSE [to |-> NoRole, active |-> FALSE]]
    /\ ask = [r \in Asks |-> [status |-> "none", by |-> NoUser, expires |-> 0]]
    /\ told = [r \in Asks |-> {}] /\ silenced = {}
    /\ level \in Levels /\ policy = level
    /\ now = 0 /\ begun = 0
    /\ req = [w \in Workers |-> Idle]
    /\ orderly \in BOOLEAN

Busy == {w \in Workers : req[w].pc # "idle"}

Room == Cardinality(Busy) < (IF orderly THEN 1 ELSE Overlap)

At(w, pc) == req[w].pc = pc

Set(w, value) == req' = [req EXCEPT ![w] = value]

\* A request comes in and has made its first call.
Begin(w, value) ==
    /\ At(w, "idle") /\ Room /\ begun < MaxBegun
    /\ begun' = begun + 1
    /\ Set(w, value)

\* What rolesFor reads.
Held == {assignment[a].to : a \in {b \in Assignments : assignment[b].active}}

Granted(u) ==
    \E r \in Asks : ask[r].by = u /\ ask[r].status = "approved" /\ ask[r].expires > now

\* canReadFile, of a published record.
CanReadFile(u) ==
    \/ u = Owner
    \/ level = "public"
    \/ level = "sovereign" /\ CanAdministerSovereign(Held, u)
    \/ level = "sensitive" /\ (CanManageInstitution(Held, u, Institution) \/ Granted(u))

-----------------------------------------------------------------------------
(* assignRole *)

MayAssign(u, role) ==
    /\ role.role \in InstitutionRoles => role.inst # NoInst
    /\ \/ IsSystemAdmin(Held, u)
       \/ /\ role.role \notin GlobalRoles
          /\ role.inst # NoInst => CanManageInstitution(Held, u, role.inst)

AssignRead(w, u, role) ==
    /\ MayAssign(u, role)
    /\ \E active \in BOOLEAN :
          Begin(w, [Idle EXCEPT !.pc = "assignFind", !.role = role, !.active = active])
    /\ UNCHANGED <<assignment, ask, told, silenced, level, policy, now, orderly>>

RowsOf(role) == {a \in Assignments : assignment[a].to = role}

\* Mutant: a role without institution is compared with null and never found.
AssignFindScoped(w) ==
    LET rows == {a \in RowsOf(req[w].role) : req[w].role.inst # NoInst} IN
    /\ At(w, "assignFind")
    /\ \E a \in IF rows = {} THEN {NoAssignment} ELSE rows :
          Set(w, [req[w] EXCEPT !.pc = "assign", !.assignment = a])
    /\ UNCHANGED <<assignment, ask, told, silenced, level, policy, now, begun, orderly>>

AssignFind(w) ==
    LET rows == RowsOf(req[w].role) IN
    /\ At(w, "assignFind")
    /\ \E a \in IF rows = {} THEN {NoAssignment} ELSE rows :
          Set(w, [req[w] EXCEPT !.pc = "assign", !.assignment = a])
    /\ UNCHANGED <<assignment, ask, told, silenced, level, policy, now, begun, orderly>>

\* The unique index refuses a second row of an institution's role; it lets
\* null institutions pass.
AssignWrite(w) ==
    LET q == req[w] IN
    /\ At(w, "assign")
    /\ \/ /\ q.assignment # NoAssignment
          /\ assignment' = [assignment EXCEPT ![q.assignment].active = q.active]
       \/ /\ q.assignment = NoAssignment
          /\ q.role.inst # NoInst => RowsOf(q.role) = {}
          /\ \E a \in RowsOf(NoRole) :
                assignment' = [assignment EXCEPT ![a] = [to |-> q.role, active |-> q.active]]
       \/ /\ q.assignment = NoAssignment
          /\ q.role.inst # NoInst /\ RowsOf(q.role) # {}
          /\ UNCHANGED assignment
    /\ Set(w, Idle)
    /\ UNCHANGED <<ask, told, silenced, level, policy, now, begun, orderly>>

-----------------------------------------------------------------------------
(* revokeRole *)

MayRevoke(u, role) ==
    \/ IsSystemAdmin(Held, u)
    \/ /\ role.role \notin GlobalRoles /\ role.inst # NoInst
       /\ CanManageInstitution(Held, u, role.inst)

RevokeRead(w, u, a) ==
    /\ assignment[a].to # NoRole /\ MayRevoke(u, assignment[a].to)
    /\ Begin(w, [Idle EXCEPT !.pc = "revoke", !.assignment = a])
    /\ UNCHANGED <<assignment, ask, told, silenced, level, policy, now, orderly>>

RevokeWrite(w) ==
    /\ At(w, "revoke")
    /\ assignment' = [assignment EXCEPT ![req[w].assignment].active = FALSE]
    /\ Set(w, Idle)
    /\ UNCHANGED <<ask, told, silenced, level, policy, now, begun, orderly>>

-----------------------------------------------------------------------------
(* requestAccess *)

AskRead(w, u) ==
    /\ level # "public" /\ ~CanReadFile(u)
    /\ Begin(w, [Idle EXCEPT !.pc = "askFind", !.actor = u])
    /\ UNCHANGED <<assignment, ask, told, silenced, level, policy, now, orderly>>

\* Mutant: only pending requests are looked for.
DuplicatePending(u) == \E r \in Asks : ask[r].by = u /\ ask[r].status = "pending"

Duplicate(u) ==
    \E r \in Asks :
        /\ ask[r].by = u
        /\ \/ ask[r].status = "pending"
           \/ ask[r].status = "approved" /\ ask[r].expires > now

AskFind(w) ==
    /\ At(w, "askFind")
    /\ Set(w, IF Duplicate(req[w].actor) THEN Idle ELSE [req[w] EXCEPT !.pc = "ask"])
    /\ UNCHANGED <<assignment, ask, told, silenced, level, policy, now, begun, orderly>>

AskCreate(w) ==
    /\ At(w, "ask")
    /\ \E r \in {s \in Asks : ask[s].status = "none"} :
          ask' = [ask EXCEPT ![r] = [status |-> "pending", by |-> req[w].actor,
                                     expires |-> 0]]
    /\ Set(w, Idle)
    /\ UNCHANGED <<assignment, told, silenced, level, policy, now, begun, orderly>>

-----------------------------------------------------------------------------
(* decideAccess *)

\* Mutant: whether it is still pending is not asked.
DecideReadAny(w, u, r) ==
    /\ ask[r].status # "none"
    /\ \E d \in Decisions :
          Begin(w, [Idle EXCEPT !.pc = "check", !.actor = u, !.ask = r,
                                !.decision = d, !.level = level])
    /\ UNCHANGED <<assignment, ask, told, silenced, level, policy, now, orderly>>

DecideRead(w, u, r) ==
    /\ ask[r].status = "pending"
    /\ \E d \in Decisions :
          Begin(w, [Idle EXCEPT !.pc = "check", !.actor = u, !.ask = r,
                                !.decision = d, !.level = level])
    /\ UNCHANGED <<assignment, ask, told, silenced, level, policy, now, orderly>>

MayDecide(u, l) ==
    IF l = "sovereign" THEN CanAdministerSovereign(Held, u)
                       ELSE CanReview(Held, u, Institution)

DecideCheck(w) ==
    /\ At(w, "check")
    /\ Set(w, IF MayDecide(req[w].actor, req[w].level)
              THEN [req[w] EXCEPT !.pc = "decide"] ELSE Idle)
    /\ UNCHANGED <<assignment, ask, told, silenced, level, policy, now, begun, orderly>>

Expiry(decision) == IF decision = "approved" THEN now + Hours ELSE 0

\* The row is updated by its id alone.
DecideWrite(w) ==
    LET q == req[w] IN
    /\ At(w, "decide")
    /\ ask' = [ask EXCEPT ![q.ask].status = q.decision,
                          ![q.ask].expires = Expiry(q.decision)]
    /\ silenced' = silenced \ {q.ask}
    /\ Set(w, [q EXCEPT !.pc = "tell"])
    /\ UNCHANGED <<assignment, told, level, policy, now, begun, orderly>>

\* Mutant: a requester who has been notified is not notified again.
TellOnce(w) ==
    /\ At(w, "tell")
    /\ told' = IF told[req[w].ask] = {}
                  THEN [told EXCEPT ![req[w].ask] = {req[w].decision}] ELSE told
    /\ Set(w, Idle)
    /\ UNCHANGED <<assignment, ask, silenced, level, policy, now, begun, orderly>>

Tell(w) ==
    /\ At(w, "tell")
    /\ told' = [told EXCEPT ![req[w].ask] = @ \cup {req[w].decision}]
    /\ Set(w, Idle)
    /\ UNCHANGED <<assignment, ask, silenced, level, policy, now, begun, orderly>>

-----------------------------------------------------------------------------
(* ArchivesService.update, as far as it changes the access level *)

LevelRead(w, u, l) ==
    /\ u = Owner \/ CanCatalog(Held, u, Institution)
    /\ Begin(w, [Idle EXCEPT !.pc = "level", !.level = level, !.wanted = l])
    /\ UNCHANGED <<assignment, ask, told, silenced, level, policy, now, orderly>>

\* The policy follows if the level differs from the one read.
LevelWrite(w) ==
    /\ At(w, "level")
    /\ level' = req[w].wanted
    /\ Set(w, IF req[w].wanted # req[w].level
              THEN [req[w] EXCEPT !.pc = "policy"] ELSE Idle)
    /\ UNCHANGED <<assignment, ask, told, silenced, policy, now, begun, orderly>>

PolicyWrite(w) ==
    /\ At(w, "policy")
    /\ policy' = req[w].wanted
    /\ Set(w, Idle)
    /\ UNCHANGED <<assignment, ask, told, silenced, level, now, begun, orderly>>

-----------------------------------------------------------------------------
Tick ==
    /\ now < MaxTime
    /\ now' = now + 1
    /\ UNCHANGED <<assignment, ask, told, silenced, level, policy, begun, req, orderly>>

Crash(w) ==
    /\ Crashes /\ ~orderly
    /\ ~At(w, "idle")
    /\ silenced' = IF At(w, "tell") THEN silenced \cup {req[w].ask} ELSE silenced
    /\ Set(w, Idle)
    /\ UNCHANGED <<assignment, ask, told, level, policy, now, begun, orderly>>

Arrive(w, u) ==
    \/ \E role \in Offers : AssignRead(w, u, role)
    \/ \E a \in Assignments : RevokeRead(w, u, a)
    \/ AskRead(w, u)
    \/ \E r \in Asks : DecideRead(w, u, r)
    \/ \E l \in Levels : LevelRead(w, u, l)

Serve(w) ==
    \/ AssignFind(w) \/ AssignWrite(w) \/ RevokeWrite(w)
    \/ AskFind(w) \/ AskCreate(w)
    \/ DecideCheck(w) \/ DecideWrite(w) \/ Tell(w)
    \/ LevelWrite(w) \/ PolicyWrite(w)

Next ==
    \/ \E w \in Workers : (\E u \in Users : Arrive(w, u)) \/ Serve(w) \/ Crash(w)
    \/ Tick

Spec == Init /\ [][Next]_vars

-----------------------------------------------------------------------------
(* Properties *)

Quiet == orderly /\ Busy = {}

\* Requests that do not overlap leave a user at most one request that is
\* pending or still grants something (governance.service.ts:119-126).
OneActiveRequest ==
    \A r, s \in Asks :
        LET active == {t \in Asks : \/ ask[t].status = "pending"
                                    \/ ask[t].status = "approved" /\ ask[t].expires > now}
        IN  orderly /\ {r, s} \subseteq active /\ ask[r].by = ask[s].by => r = s

\* Those who have read r as pending and have not decided it yet.
Open(r) == {w \in Workers : req[w].ask = r /\ req[w].pc \in {"check", "decide"}}

\* Requests may overlap and crash: once a request is decided nobody joins
\* those who may still overturn the decision, and whoever does is none of them
\* any more; so decisions come to rest (governance.service.ts:180).
DecisionStands ==
    [][\A r \in Asks : ask[r].status \in Decisions =>
          Open(r)' \subseteq Open(r) /\ (ask'[r] # ask[r] => Open(r)' # Open(r))]_vars

\* The requester has been told what was decided and nothing else, once the
\* decision is through and did not overlap another (governance.service.ts:198).
ToldAsDecided ==
    Quiet => \A r \in Asks : told[r] = {ask[r].status} \cap Decisions

\* Whichever of several decisions is the one in force, the requester has been
\* told of it or is about to be, unless the process died between the two calls
\* (governance.service.ts:188-207).
OutcomeTold ==
    \A r \in Asks : ask[r].status \in Decisions =>
        \/ ask[r].status \in told[r] \/ r \in silenced
        \/ \E w \in Workers : At(w, "tell") /\ req[w].ask = r /\ req[w].decision = ask[r].status

\* After a role is revoked its user does not hold it by another row, if no
\* requests overlap (governance.service.ts:108).
RevokedIsGone ==
    [][\A w \in Workers : orderly /\ At(w, "revoke") /\ At(w, "idle")' =>
          assignment[req[w].assignment].to \notin Held']_vars

\* Between updates that do not overlap the access policy has the level of the
\* record (archives.service.ts:274-280).
PolicyAgrees == Quiet => policy = level

\* What four tables say of access agrees: a user has one active request, was told what
\* was decided of it, and the policy has the level that the record has.
TablesAgree == OneActiveRequest /\ ToldAsDecided /\ PolicyAgrees

=============================================================================
