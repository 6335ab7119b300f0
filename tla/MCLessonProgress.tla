--------------------------- MODULE MCLessonProgress ---------------------------
(* Requests are interchangeable. *)
EXTENDS LessonProgress, TLC

Symmetry == Permutations(Workers)

=============================================================================
