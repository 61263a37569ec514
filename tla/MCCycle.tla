------------------------------ MODULE MCCycle ------------------------------
(* One to three runs at once on two cores: three have no cores to pin to.  *)
EXTENDS Cycle
=============================================================================
