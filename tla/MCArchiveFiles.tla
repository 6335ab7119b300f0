---------------------------- MODULE MCArchiveFiles ----------------------------
(* Requests are interchangeable, and so are files that share a fate. *)
EXTENDS ArchiveFiles, TLC

Symmetry == Permutations(Requests) \cup Permutations(Media) \cup Permutations(Files \ Media)

=============================================================================
