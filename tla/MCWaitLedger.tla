---------------------------- MODULE MCWaitLedger ----------------------------
(* Every schedule of a thread over MaxTime ticks, and every loss of lines. *)
EXTENDS WaitWindow
=============================================================================
