----------------------------- MODULE CourseLessons -----------------------------
(***************************************************************************)
(* What the server (LessonProgress) and the pages (LessonPlayer) have in   *)
(* common: the lessons of a course, named by their numbers, and that       *)
(* progress is only ever raised.                                           *)
(***************************************************************************)
EXTENDS Integers

CONSTANT N      \* the course has lessons 1..N

Lessons == 1..N

Larger(a, b) == IF a >= b THEN a ELSE b

=============================================================================
