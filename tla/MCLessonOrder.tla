---------------------------- MODULE MCLessonOrder ----------------------------
(* Requests are interchangeable, and so are ids of lessons. *)
EXTENDS LessonOrder, TLC

Symmetry == Permutations(Workers) \cup Permutations(Lessons)

=============================================================================
