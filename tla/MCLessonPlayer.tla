---------------------------- MODULE MCLessonPlayer ----------------------------
(* A course of two lessons; the last one is read, or both are watched. *)
EXTENDS LessonPlayer

ReadLast == {{N}}

WatchAll == {{}}

=============================================================================
