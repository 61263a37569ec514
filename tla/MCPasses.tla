------------------------------- MODULE MCPasses -------------------------------
(* Every call of collect() that does not both count and record.            *)
EXTENDS Passes
=============================================================================
