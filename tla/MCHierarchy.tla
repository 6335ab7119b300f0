----------------------------- MODULE MCHierarchy -----------------------------
(***************************************************************************)
(* Hierarchy for TLC.  Units, institutions and requests are numbers.  The  *)
(* requests share the work (Roles): what one may do the other need not try *)
(* as well, and updates of either overlap the other's.                     *)
(***************************************************************************)
EXTENDS Hierarchy, TLC

CONSTANT MaxLoose   \* the bound on units displaced or releveled

Bounded == Cardinality(displaced \cup releveled) <= MaxLoose

\* Units are interchangeable, and used in order.
InOrder == \A u, v \in Units : u < v /\ v \in Stored => u \in Stored

FieldsOf(d) == {f \in DOMAIN d : d[f] # Absent}

\* Request 1 creates, walks, and updates one field at a time; 2 updates any fields.
Roles ==
    /\ \A w \in Workers : req[w].pc \in {"create", "path"} => w = 1
    /\ req[1].pc = "update" => Cardinality(FieldsOf(req[1].dto)) = 1

\* One unit at a time is in institution 2 or on its way there.
Abroad ==
    Cardinality({u \in Stored : unit[u].institution = 2})
        + Cardinality({w \in Workers : req[w].dto.institution = 2}) <= 1

=============================================================================
