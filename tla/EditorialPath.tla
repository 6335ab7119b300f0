---------------------------- MODULE EditorialPath ----------------------------
(***************************************************************************)
(* What the editorial workflow promises for one record: the status moves   *)
(* along the transition table, one move at a time, and the trail of events *)
(* tells every move.                                                       *)
(***************************************************************************)
EXTENDS Sequences, Transitions

VARIABLES status, trail

Init == status = "draft" /\ trail = <<Event("none", "draft")>>

Move(action) ==
    \E to \in Statuses :
        /\ <<status, action, to>> \in Transitions
        /\ status' = to
        /\ trail' = Append(trail, Event(status, to))

Next == \E action \in WorkflowActions : Move(action)

Spec == Init /\ [][Next]_<<status, trail>>

=============================================================================
