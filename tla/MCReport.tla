------------------------------- MODULE MCReport -------------------------------
(* Dumps of two threads, one of them recorded before its exec as well; and *)
(* longer ones of that thread alone.                                       *)
EXTENDS Report

Line(tid, comm, event) == [tid |-> tid, comm |-> comm, event |-> event]
InUser(sym)            == [sym |-> sym, domain |-> "user"]

MCHeadersOne  == {Line(1, "perf-exec", "cpu"), Line(1, "app", "cpu")}
MCHeaders     == MCHeadersOne \cup {Line(2, "app", "cpu"), Line(2, "app", "mem"), Line(1, "app", "sched")}
MCStackedUser == {InUser("f"), InUser("g")}
MCStacked     == MCStackedUser \cup {[sym |-> "sys", domain |-> "kernel"], [sym |-> "f", domain |-> "inline"]}

\* Every set of samples has a sum of its own.
MCPeriod == [n \in 1..MaxLines |-> 2^(n - 1)]
=============================================================================
