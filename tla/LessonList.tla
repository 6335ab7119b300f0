------------------------------ MODULE LessonList ------------------------------
(***************************************************************************)
(* What course authoring promises about the order of the lessons: they     *)
(* form a list; a new lesson goes to the end, a deleted one leaves the     *)
(* others in order, and only a reorder that was asked for moves them.      *)
(***************************************************************************)
EXTENDS Integers, Sequences

CONSTANT Lessons

VARIABLES
    list,
    wanted          \* the order asked for and not yet carried out, or << >>

Members(s) == {s[i] : i \in DOMAIN s}

Init ==
    /\ \A i, j \in DOMAIN list : list[i] = list[j] => i = j
    /\ Members(list) \subseteq Lessons
    /\ wanted = << >>

Add(l) ==
    /\ l \notin Members(list)
    /\ list' = Append(list, l)
    /\ UNCHANGED wanted

Delete(l) ==
    /\ \E i \in DOMAIN list :
          /\ list[i] = l
          /\ list' = SubSeq(list, 1, i - 1) \o SubSeq(list, i + 1, Len(list))
    /\ UNCHANGED wanted

Ask ==
    /\ wanted = << >>
    /\ Members(wanted') = Members(list) /\ Len(wanted') = Len(list)
    /\ UNCHANGED list

Reorder ==
    /\ wanted # << >>
    /\ list' = wanted
    /\ wanted' = << >>

Next == (\E l \in Lessons : Add(l) \/ Delete(l)) \/ Ask \/ Reorder

Spec == Init /\ [][Next]_<<list, wanted>>

=============================================================================
