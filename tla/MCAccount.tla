------------------------------- MODULE MCAccount -------------------------------
(* Two institutions, one of which a text finds.                                 *)
EXTENDS Account

FindsDef == [x \in {"", "bir"} |-> IF x = "" THEN Institutions ELSE {"birzeit"}]

=============================================================================
