------------------------------ MODULE Workflow ------------------------------
(***************************************************************************)
(* The editorial workflow of one archive record.  Two handlers change its  *)
(* status: GovernanceService.transition, and the compatibility routes      *)
(* publish / unpublish of ArchivesService.  Each reads the record, decides *)
(* on what it read, and writes later; the write does not look at the       *)
(* status again.  The event is part of the write in transition, and a      *)
(* separate call in the compatibility routes; the audit entry is always a  *)
(* separate call.                                                          *)
(*                                                                         *)
(* "orderly" is chosen at the start of a behaviour and says whether its    *)
(* requests wait for each other and its process stays alive.               *)
(***************************************************************************)
EXTENDS Naturals, Sequences, FiniteSets, Transitions, Authorization

CONSTANTS
    Users, Owner,       \* accounts, and the account that deposited the record
    Inst,               \* the institution of the record
    Assignments,        \* the active role assignments
    Workers,            \* requests in progress
    Overlap,            \* how many of them may be in progress together
    MaxTrail,           \* bound on the number of changes begun
    Crashes             \* whether the process may die between two calls,
                        \* in a behaviour that is not orderly

ASSUME WorkflowAssumption ==
    /\ Owner \in Users /\ NoUser \notin Users
    /\ IsFiniteSet(Workers)
    /\ MaxTrail \in Nat /\ Overlap \in Nat /\ Crashes \in BOOLEAN

VARIABLES
    status, stamps,     \* of the record; the set of timestamps that are set
    trail,              \* its ArchiveWorkflowEvent rows, oldest first
    audit,              \* its audit entries, oldest first
    begun,              \* changes begun, for the bound
    req,
    orderly

vars == <<status, stamps, trail, audit, begun, req, orderly>>

Stamps == {"submitted", "reviewed", "approved", "published"}

Request == [pc: {"idle", "write", "compatWrite", "event", "audit"},
            from: Statuses \cup {"none"}, to: Statuses]

Idle == [pc |-> "idle", from |-> "none", to |-> "draft"]

TypeOK ==
    /\ status \in Statuses
    /\ stamps \in SUBSET Stamps
    /\ trail \in Seq(Events)
    /\ audit \in Seq(Events)
    /\ begun \in Nat
    /\ req \in [Workers -> Request]
    /\ orderly \in BOOLEAN

\* ArchivesService.create: the record, its first event, and the audit entry.
Init ==
    /\ status = "draft" /\ stamps = {}
    /\ trail = <<Event("none", "draft")>>
    /\ audit = <<Event("none", "draft")>>
    /\ begun = 0
    /\ req = [w \in Workers |-> Idle]
    /\ orderly \in BOOLEAN

-----------------------------------------------------------------------------
Busy == {w \in Workers : req[w].pc # "idle"}

Admit(w) ==
    /\ req[w].pc = "idle"
    /\ Cardinality(Busy) < (IF orderly THEN 1 ELSE Overlap)
    /\ begun < MaxTrail
    /\ begun' = begun + 1

Set(w, value) == req' = [req EXCEPT ![w] = value]

\* The role check of transition, per action.
MayTransition(u, action) ==
    CASE action = "submit" -> u = Owner \/ CanDeposit(Assignments, u, Inst)
      [] action \in {"start_cataloging", "request_review"} -> CanCatalog(Assignments, u, Inst)
      [] action \in {"approve", "return_changes"} -> CanReview(Assignments, u, Inst)
      [] action \in {"publish", "unpublish"} -> CanApprove(Assignments, u, Inst)

\* The timestamps after a transition to the given status.
Stamped(to) ==
    CASE to = "processing" -> stamps \cup {"submitted"}
      [] to = "in_review"  -> stamps \cup {"reviewed"}
      [] to = "approved"   -> stamps \cup {"approved"}
      [] to = "published"  -> stamps \cup {"published"}
      [] to = "draft"      -> {}
      [] OTHER             -> stamps

\* transition, up to its $transaction: a refused call changes nothing.
ReadTransition(w) ==
    /\ Admit(w)
    /\ \E u \in Users, action \in WorkflowActions, to \in Statuses :
          /\ <<status, action, to>> \in Transitions
          /\ MayTransition(u, action)
          /\ Set(w, [pc |-> "write", from |-> status, to |-> to])
    /\ UNCHANGED <<status, stamps, trail, audit, orderly>>

\* The $transaction: update by id, and the event.
WriteTransition(w) ==
    LET q == req[w] IN
    /\ q.pc = "write"
    /\ status' = q.to
    /\ stamps' = Stamped(q.to)
    /\ trail' = Append(trail, Event(q.from, q.to))
    /\ Set(w, [q EXCEPT !.pc = "audit"])
    /\ UNCHANGED <<audit, begun, orderly>>

\* Mutant: the compatibility route publishes whatever the status is.
ReadCompatAnyStatus(w) ==
    /\ Admit(w)
    /\ Set(w, [pc |-> "compatWrite", from |-> status, to |-> "published"])
    /\ UNCHANGED <<status, stamps, trail, audit, orderly>>

\* publish and unpublish of ArchivesService, up to the update.
ReadCompat(w) ==
    /\ Admit(w)
    /\ \E u \in Users : CanApprove(Assignments, u, Inst)
    /\ \/ /\ status = "approved"
          /\ Set(w, [pc |-> "compatWrite", from |-> status, to |-> "published"])
       \/ /\ status = "published"
          /\ Set(w, [pc |-> "compatWrite", from |-> status, to |-> "draft"])
    /\ UNCHANGED <<status, stamps, trail, audit, orderly>>

\* Only published_at is touched; the event is still to come.
WriteCompat(w) ==
    LET q == req[w] IN
    /\ q.pc = "compatWrite"
    /\ status' = q.to
    /\ stamps' = IF q.to = "published" THEN stamps \cup {"published"}
                                       ELSE stamps \ {"published"}
    /\ Set(w, [q EXCEPT !.pc = "event"])
    /\ UNCHANGED <<trail, audit, begun, orderly>>

\* Mutant: the event names the two statuses the wrong way round.
RecordEventReversed(w) ==
    LET q == req[w] IN
    /\ q.pc = "event"
    /\ trail' = Append(trail, Event(q.to, q.from))
    /\ Set(w, [q EXCEPT !.pc = "audit"])
    /\ UNCHANGED <<status, stamps, audit, begun, orderly>>

RecordEvent(w) ==
    LET q == req[w] IN
    /\ q.pc = "event"
    /\ trail' = Append(trail, Event(q.from, q.to))
    /\ Set(w, [q EXCEPT !.pc = "audit"])
    /\ UNCHANGED <<status, stamps, audit, begun, orderly>>

LogAudit(w) ==
    LET q == req[w] IN
    /\ q.pc = "audit"
    /\ audit' = Append(audit, Event(q.from, q.to))
    /\ Set(w, Idle)
    /\ UNCHANGED <<status, stamps, trail, begun, orderly>>

Crash(w) ==
    /\ Crashes /\ ~orderly
    /\ req[w].pc # "idle"
    /\ Set(w, Idle)
    /\ UNCHANGED <<status, stamps, trail, audit, begun, orderly>>

Next ==
    \E w \in Workers :
        \/ ReadTransition(w) \/ WriteTransition(w)
        \/ ReadCompat(w) \/ WriteCompat(w) \/ RecordEvent(w)
        \/ LogAudit(w) \/ Crash(w)

Spec == Init /\ [][Next]_vars

-----------------------------------------------------------------------------
(* Properties *)

Occurs(s) == \E i \in 1..Len(trail) : trail[i].to = s

\* Whatever races and crashes, a stage of the editorial path is recorded only
\* after the stage before it was: nothing is published that was never
\* approved, nothing approved that was never in review
\* (governance.service.spec.ts:4-16).
StagesInOrder ==
    /\ \A i \in 1..Len(trail) : trail[i].to # "draft" =>
          /\ \E a \in WorkflowActions : <<trail[i].from, a, trail[i].to>> \in Transitions
          /\ \E j \in 1..(i - 1) : trail[j].to = trail[i].from
    /\ status = "published" => Occurs("approved")

Quiet == Busy = {}

\* Between requests that do not overlap, the last event names the status of the
\* record, and the audit log tells the same story (README.md:170).
TrailIsComplete ==
    orderly /\ Quiet => trail[Len(trail)].to = status /\ audit = trail

\* Unless requests overlap, a published record carries the timestamps of every
\* stage it went through, and no other record carries that of publication.
StampsTellPublication ==
    orderly => /\ status = "published" => stamps = Stamps
               /\ "published" \in stamps => status = "published"

\* The trail, the audit log and the timestamps all tell how the record came to its
\* status, by whichever of the two routes it was moved.
HistoryTellsStatus == TrailIsComplete /\ StampsTellPublication

\* A record becomes published only from approved (governance.service.spec.ts:12-13
\* "rejects direct publication", README.md:170).
PublishOnlyFromApproved ==
    [][status # "published" /\ status' = "published" => status = "approved"]_vars

\* The record as the promise sees it in an orderly behaviour: a compatibility
\* route that has written the status has already made its move.
PromisedStatus == IF orderly THEN status ELSE "draft"

MoveInHand == {w \in Workers : req[w].pc = "event"}

PromisedTrail ==
    IF ~orderly THEN <<Event("none", "draft")>>
    ELSE IF MoveInHand = {} THEN trail
    ELSE LET w == CHOOSE w \in MoveInHand : TRUE
         IN  Append(trail, Event(req[w].from, req[w].to))

Path == INSTANCE EditorialPath WITH status <- PromisedStatus, trail <- PromisedTrail

\* Requests that do not overlap implement the editorial path.
FollowsEditorialPath == Path!Spec

=============================================================================
