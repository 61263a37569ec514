------------------------------ MODULE MCDumps ------------------------------
(* Every kind of session, in a new directory or an earlier profile's.      *)
EXTENDS Dumps
=============================================================================
