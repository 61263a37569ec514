--------------------------- MODULE MCPerfProcess ---------------------------
(* Two perf children, started, ended, stopped, joined and restarted freely. *)
EXTENDS PerfProcess
=============================================================================
