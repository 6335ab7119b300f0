--------------------------- MODULE MCTokenRotation ---------------------------
(***************************************************************************)
(* Requests, and ids of tokens, are interchangeable.  Where liveness is    *)
(* checked the numbers 1, 2, ... stand for both and are used in order: one *)
(* behaviour of each class that differs by names only.                     *)
(***************************************************************************)
EXTENDS TokenRotation

CONSTANT Rivals     \* the bound on requests in a behaviour that is not orderly

InOrder ==
    /\ \A q, r \in Requests : q < r /\ req[q].pc = "idle" => req[r].pc = "idle"
    /\ ~orderly => \A q \in Requests : q > Rivals => req[q].pc = "idle"
    /\ \A s, t \in Tokens : s < t /\ row[s].state = "unused" => row[t].state = "unused"

MCSpec ==
    /\ Init
    /\ [][Next /\ InOrder']_vars
    /\ \A r \in Requests : WF_vars(Serve(r) /\ InOrder')

=============================================================================
