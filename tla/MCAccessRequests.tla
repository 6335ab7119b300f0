--------------------------- MODULE MCAccessRequests ---------------------------
(***************************************************************************)
(* An administrator, an aide who is made reviewer or custodian, and a      *)
(* guest who asks for access and may be made researcher.                   *)
(***************************************************************************)
EXTENDS AccessRequests, TLC

CONSTANTS boss, aide, guest

MCUsers == {boss, aide, guest}

MCOffers == {[user |-> aide, role |-> "reviewer", inst |-> Institution],
             [user |-> aide, role |-> "sovereignty_custodian", inst |-> NoInst]}

Symmetry == Permutations(Assignments) \cup Permutations(Asks) \cup Permutations(Workers)

=============================================================================
