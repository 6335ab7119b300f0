---------------------------- MODULE MCSessionClient ----------------------------
(* Two sessions in a row, and as many calls as the configuration names. *)
EXTENDS SessionClient

=============================================================================
