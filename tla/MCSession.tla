----------------------------- MODULE MCSession -----------------------------
(* Both modes, every set of options, a signalable target or not, and up to *)
(* MaxInterrupts SIGINTs anywhere.                                         *)
EXTENDS Session
=============================================================================
