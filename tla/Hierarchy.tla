------------------------------ MODULE Hierarchy ------------------------------
(***************************************************************************)
(* The tree of archival units: create, update and path of CatalogService.  *)
(* Both writers validate the parent on what they read (validateParent) and *)
(* write afterwards; update writes only the fields it was given, null      *)
(* included, while it validates a given null as if it were absent.  Units  *)
(* are never deleted one by one.  The requests modelled are those of       *)
(* actors who hold the role they need.                                     *)
(***************************************************************************)
EXTENDS Naturals, FiniteSets

CONSTANTS
    Units,          \* ids of ArchivalUnit rows, each used at most once (uuid)
    Institutions,
    NoUnit,         \* null
    Absent,         \* a field that an update does not carry
    Depth,          \* number of archival levels, 0 the outermost
    Workers         \* requests in progress

ASSUME HierarchyAssumption ==
    /\ NoUnit \notin Units /\ Absent \notin Units /\ Absent # NoUnit
    /\ Absent \notin Institutions /\ Absent \notin Nat
    /\ Depth \in Nat \ {0}

VARIABLES
    unit, req,
    misled,         \* history: requests that what they have read was changed under
    displaced,      \* history: units whose place was not checked as it is
    releveled       \* history: units whose level some update changed

history == <<misled, displaced, releveled>>
vars == <<unit, req, history>>

Levels == 0..(Depth - 1)

UnitOrNone == Units \cup {NoUnit}

Row == [stored: BOOLEAN, level: Levels, parent: UnitOrNone,
        institution: Institutions \cup {Absent}]

Unused == [stored |-> FALSE, level |-> 0, parent |-> NoUnit, institution |-> Absent]

Fields == [level: Levels \cup {Absent}, parent: UnitOrNone \cup {Absent},
           institution: Institutions \cup {Absent}]

Nothing == [level |-> Absent, parent |-> Absent, institution |-> Absent]

Request == [pc: {"idle", "create", "validate", "update", "path"},
            target: UnitOrNone,     \* the unit updated, or next on the path
            was: Row,               \* the unit as update read it
            dto: Fields]

Idle == [pc |-> "idle", target |-> NoUnit, was |-> Unused, dto |-> Nothing]

TypeOK ==
    /\ unit \in [Units -> Row]
    /\ req \in [Workers -> Request]
    /\ misled \subseteq Workers
    /\ displaced \subseteq Units /\ releveled \subseteq Units

Init ==
    /\ unit = [u \in Units |-> Unused]
    /\ req = [w \in Workers |-> Idle]
    /\ misled = {} /\ displaced = {} /\ releveled = {}

-----------------------------------------------------------------------------
Stored == {u \in Units : unit[u].stored}

At(w, pc) == req[w].pc = pc

Set(w, value) == req' = [req EXCEPT ![w] = value]

Given(value, otherwise) == IF value = Absent THEN otherwise ELSE value

\* Mutant: merely deeper is enough.
ValidIfDeeper(institution, parent, level, self) ==
    IF parent = NoUnit THEN level = 0
    ELSE /\ level > 0 /\ parent # self /\ parent \in Stored
         /\ unit[parent].institution = institution
         /\ level > unit[parent].level

\* Mutant: any unit of the institution will do.
ValidAnywhere(institution, parent, level, self) ==
    IF parent = NoUnit THEN level = 0
    ELSE /\ level > 0 /\ parent # self /\ parent \in Stored
         /\ unit[parent].institution = institution

\* validateParent.
ValidParent(institution, parent, level, self) ==
    IF parent = NoUnit THEN level = 0
    ELSE /\ level > 0 /\ parent # self /\ parent \in Stored
         /\ unit[parent].institution = institution
         /\ level = unit[parent].level + 1

-----------------------------------------------------------------------------
(* create *)

\* The bound: no more units are begun than there are ids.
Spare == Cardinality({w \in Workers : At(w, "create")}) < Cardinality(Units \ Stored)

CreateCheck(w) ==
    /\ At(w, "idle") /\ Spare
    /\ \E i \in Institutions, p \in UnitOrNone, l \in Levels :
          /\ ValidParent(i, p, l, NoUnit)
          /\ Set(w, [Idle EXCEPT !.pc = "create",
                       !.dto = [level |-> l, parent |-> p, institution |-> i]])
    /\ UNCHANGED <<unit, history>>

CreateWrite(w) ==
    LET d == req[w].dto IN
    /\ At(w, "create")
    /\ \E u \in Units \ Stored :
          /\ unit' = [unit EXCEPT ![u] = [stored |-> TRUE, level |-> d.level,
                                          parent |-> d.parent,
                                          institution |-> d.institution]]
          /\ displaced' = IF w \in misled THEN displaced \cup {u} ELSE displaced
    /\ misled' = misled \ {w}
    /\ Set(w, Idle)
    /\ UNCHANGED releveled

-----------------------------------------------------------------------------
(* update *)

\* The bodies that updates send: each field given or not, and a parent given as null.
Bodies == Fields \ {Nothing}

UpdateRead(w, u) ==
    /\ At(w, "idle")
    /\ u \in Stored
    /\ Set(w, [Idle EXCEPT !.pc = "validate", !.target = u, !.was = unit[u]])
    /\ UNCHANGED <<unit, history>>

\* The parent that is validated: dto.parent_id ?? unit.parent_id.
ParentToCheck(q) ==
    IF q.dto.parent \in {Absent, NoUnit} THEN q.was.parent ELSE q.dto.parent

Valid(q) == ValidParent(Given(q.dto.institution, q.was.institution), ParentToCheck(q),
                        Given(q.dto.level, q.was.level), q.target)

\* The body makes its first difference here, and is chosen here.
UpdateValidate(w) ==
    LET q(d) == [req[w] EXCEPT !.pc = "update", !.dto = d] IN
    /\ At(w, "validate")
    /\ \/ \E d \in Bodies : Valid(q(d)) /\ Set(w, q(d)) /\ UNCHANGED misled
       \/ ~(\A d \in Bodies : Valid(q(d))) /\ Set(w, Idle) /\ misled' = misled \ {w}
    /\ UNCHANGED <<unit, displaced, releveled>>

\* The unit whose level and institution a request has checked its own against.
Under(q) ==
    CASE q.pc = "create" -> q.dto.parent
      [] q.pc = "update" -> ParentToCheck(q)
      [] OTHER -> NoUnit

\* A unit under a parent was validated as it stands and is written without one.
Detaches(q) == q.dto.parent = NoUnit /\ q.was.parent # NoUnit

\* Who has read t, or relies on its level and institution.
Readers(t) == {x \in Workers : req[x].pc \in {"validate", "update"} /\ req[x].target = t}
Reliers(t) == {x \in Workers : Under(req[x]) = t}
Below(t) == {u \in Stored : unit[u].parent = t}

\* The row with the fields that were given.
Written(q) ==
    [unit[q.target] EXCEPT !.level = Given(q.dto.level, @),
                           !.parent = Given(q.dto.parent, @),
                           !.institution = Given(q.dto.institution, @)]

UpdateWrite(w) ==
    LET q   == req[w]
        t   == q.target
        old == unit[t]
        row == Written(q)
        same == row.level = old.level /\ row.institution = old.institution
        loose == displaced \cup (IF same THEN {} ELSE Below(t))
    IN
    /\ At(w, "update")
    /\ unit' = [unit EXCEPT ![t] = row]
    /\ Set(w, Idle)
    /\ misled' = (misled \cup Readers(t) \cup (IF same THEN {} ELSE Reliers(t))) \ {w}
    /\ displaced' = IF w \in misled \/ Detaches(q) THEN loose \cup {t} ELSE loose \ {t}
    /\ releveled' = IF row.level = old.level THEN releveled ELSE releveled \cup {t}

-----------------------------------------------------------------------------
(* path: one read per unit, from the unit asked for up to a root. *)

PathRead(w, u) ==
    /\ At(w, "idle")
    /\ u \in Stored
    /\ Set(w, [Idle EXCEPT !.pc = "path", !.target = unit[u].parent])
    /\ UNCHANGED <<unit, history>>

\* Mutant: the walk does not go up.
PathStuck(w) ==
    /\ At(w, "path")
    /\ req[w].target = NoUnit
    /\ Set(w, Idle)
    /\ UNCHANGED <<unit, history>>

PathStep(w) ==
    LET u == req[w].target IN
    /\ At(w, "path")
    /\ IF u = NoUnit THEN Set(w, Idle)
                     ELSE Set(w, [req[w] EXCEPT !.target = unit[u].parent])
    /\ UNCHANGED <<unit, history>>

Next ==
    \E w \in Workers :
        \/ CreateCheck(w) \/ CreateWrite(w)
        \/ \E u \in Units : UpdateRead(w, u) \/ PathRead(w, u)
        \/ UpdateValidate(w) \/ UpdateWrite(w)
        \/ PathStep(w)

Spec == Init /\ [][Next]_vars

\* The event loop runs the continuation of every database call that returned.
FairSpec == Spec /\ \A w \in Workers : WF_vars(PathStep(w))

-----------------------------------------------------------------------------
(* Properties *)

\* A unit of level l and institution i may hang off p (archival-levels.ts:2-6).
MayHang(i, p, l) ==
    IF p = NoUnit THEN l = 0
    ELSE p \in Stored /\ l = unit[p].level + 1 /\ i = unit[p].institution

\* Every unit hangs one step below a unit of its institution, or is of the outermost level
\* and hangs off none: but where the last update of it gave its parent as null or was
\* overtaken by another of the unit or its parent, and where its parent has been given
\* another level or institution since.  An update that nobody overtakes mends the unit.
OneStepAbove ==
    \A u \in Stored \ displaced : MayHang(unit[u].institution, unit[u].parent, unit[u].level)

\* No unit is its own ancestor (README.md:168 calls the units a hierarchy), whatever else
\* updates write and however they overlap, unless the level of one of those in the circle
\* was edited.
NoCycle ==
    ~ \E S \in (SUBSET (Stored \ releveled)) \ {{}} : \A u \in S : unit[u].parent \in S

\* path answers, even while the units above the one asked for are moved, detached or given
\* to another institution, unless it comes to a unit whose level was edited.
PathEnds ==
    \A w \in Workers : At(w, "path") ~> At(w, "idle") \/ req[w].target \in releveled

\* "Only a fonds stands on its own" (archival-levels.ts:6).  An update with a null parent
\* breaks it: null is validated as the old parent and written as null.
OnlyFondsAlone == \A u \in Stored : unit[u].parent = NoUnit => unit[u].level = 0

=============================================================================
