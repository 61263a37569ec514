---------------------------- MODULE PerfProcess ----------------------------
(***************************************************************************)
(* The perf children vperf starts (vperf/perf.py, class PerfProcess): a    *)
(* child that runs, ends or is signalled, and the handle through which the *)
(* one vperf thread polls it, stops it (stop), or waits for it and reaps   *)
(* it when it overruns (join and reap).                                    *)
(*                                                                         *)
(* A child is started without a session of its own, so a terminal Ctrl-C   *)
(* reaches it as well as vperf (TerminalInt).  Time is not counted: a      *)
(* wait(timeout=...) that finds the child running may time out at any      *)
(* moment.                                                                 *)
(***************************************************************************)
EXTENDS Naturals, FiniteSets

CONSTANT Procs          \* the perf children this process starts

ASSUME ProcsAssumption == IsFiniteSet(Procs)

VARIABLES
  child,        \* child[p]: "absent", "running" or "exited"
  code,         \* code[p]: how an exited child ended
  sig,          \* sig[p]: the strongest signal the child has received
  op,           \* op[p]: where the handle's stop()/join()/reap() stands
  interrupted,  \* interrupted[p]: stop()'s local of that name
  result        \* result[p]: what the last stop() or join() returned

procVars == <<child, code, sig, op, interrupted, result>>

Child   == {"absent", "running", "exited"}
\* PerfResult.returncode, up to what the code distinguishes: 0, -SIGINT or 130,
\* death by SIGTERM or SIGKILL, and any other status.
Code    == {"none", "ok", "int", "killed", "error"}
Signals == {"none", "INT", "TERM", "KILL"}
StopOp  == {"stop_int", "stop_wait", "stop_kill", "stop_block"}
Op      == {"idle", "done"} \cup StopOp \cup
           {"reap_INT", "reap_TERM", "reap_KILL",
            "wait_INT", "wait_TERM", "wait_KILL", "wait_last"}
Result  == {"none", "ok", "failed"}

ProcTypeOK ==
  /\ child \in [Procs -> Child]
  /\ code \in [Procs -> Code]
  /\ sig \in [Procs -> Signals]
  /\ op \in [Procs -> Op]
  /\ interrupted \in [Procs -> BOOLEAN]
  /\ result \in [Procs -> Result]

ProcInit ==
  /\ child = [p \in Procs |-> "absent"]
  /\ code = [p \in Procs |-> "none"]
  /\ sig = [p \in Procs |-> "none"]
  /\ op = [p \in Procs |-> "idle"]
  /\ interrupted = [p \in Procs |-> FALSE]
  /\ result = [p \in Procs |-> "none"]

-----------------------------------------------------------------------------
(* The child.                                                              *)

\* start_perf succeeded: a fresh child and a fresh handle.
Spawn(p) ==
  /\ child' = [child EXCEPT ![p] = "running"]
  /\ code' = [code EXCEPT ![p] = "none"]
  /\ sig' = [sig EXCEPT ![p] = "none"]
  /\ op' = [op EXCEPT ![p] = "idle"]
  /\ interrupted' = [interrupted EXCEPT ![p] = FALSE]
  /\ result' = [result EXCEPT ![p] = "none"]

Exit(p, c) ==
  /\ child[p] = "running"
  /\ child' = [child EXCEPT ![p] = "exited"]
  /\ code' = [code EXCEPT ![p] = c]
  /\ UNCHANGED <<sig, op, interrupted, result>>

\* The child ends of itself: its work is done, or perf reports an error.
ExitSelf(p) == \E c \in {"ok", "error"} : Exit(p, c)

\* perf takes SIGINT as "stop and write what you have" and ends with status 0
\* or with the signal's own; it need not get there within any grace.
ExitOnInt(p) == sig[p] # "none" /\ \E c \in {"ok", "int"} : Exit(p, c)

ExitOnTerm(p) == sig[p] \in {"TERM", "KILL"} /\ Exit(p, "killed")

\* SIGKILL cannot be handled.
ExitOnKill(p) == sig[p] = "KILL" /\ Exit(p, "killed")

Rank == [s \in Signals |-> CASE s = "none" -> 0 [] s = "INT" -> 1
                             [] s = "TERM" -> 2 [] s = "KILL" -> 3]

\* The strongest signal p has received once s is sent to it: Popen.send_signal
\* polls first and sends nothing to a child that has ended.
Delivered(p, s) ==
  IF child[p] = "running" /\ Rank[s] > Rank[sig[p]] THEN s ELSE sig[p]

-----------------------------------------------------------------------------
(* stop(grace): SIGINT, then SIGTERM and SIGKILL once the grace is over.   *)
(* A poll right before a wait or a signal decides nothing the wait or the  *)
(* signal would not, and is part of its step.                              *)

StopOk(p) == code[p] = "ok" \/ (interrupted[p] /\ code[p] = "int")

\* The child has ended and stop() reads its result.
StopReturn(p) ==
  /\ child[p] # "running"
  /\ result' = [result EXCEPT ![p] = IF StopOk(p) THEN "ok" ELSE "failed"]
  /\ op' = [op EXCEPT ![p] = "done"]
  /\ UNCHANGED <<child, code, sig, interrupted>>

\* The poll that opens stop().
StopPoll(p) ==
  /\ op[p] = "idle"
  /\ \/ StopReturn(p)
     \/ /\ child[p] = "running"
        /\ op' = [op EXCEPT ![p] = "stop_int"]
        /\ UNCHANGED <<child, code, sig, interrupted, result>>

\* Mutant of StopInt: the flag is not set.
StopIntNoFlag(p) ==
  /\ op[p] = "stop_int"
  /\ sig' = [sig EXCEPT ![p] = Delivered(p, "INT")]
  /\ op' = [op EXCEPT ![p] = "stop_wait"]
  /\ UNCHANGED <<child, code, interrupted, result>>

\* send_signal(SIGINT) raises nothing on a child that has just ended, so
\* `interrupted` is set either way.
StopInt(p) ==
  /\ op[p] = "stop_int"
  /\ sig' = [sig EXCEPT ![p] = Delivered(p, "INT")]
  /\ interrupted' = [interrupted EXCEPT ![p] = TRUE]
  /\ op' = [op EXCEPT ![p] = "stop_wait"]
  /\ UNCHANGED <<child, code, result>>

\* Mutant of StopWait: the timeout leaves `interrupted` set.
StopWaitKeepsFlag(p) ==
  /\ op[p] = "stop_wait"
  /\ \/ StopReturn(p)
     \/ /\ child[p] = "running"
        /\ sig' = [sig EXCEPT ![p] = Delivered(p, "TERM")]
        /\ op' = [op EXCEPT ![p] = "stop_kill"]
        /\ UNCHANGED <<child, code, interrupted, result>>

\* Mutant of StopWait: no timeout.
StopWaitForever(p) == op[p] = "stop_wait" /\ StopReturn(p)

\* The wait returns, or its timeout withdraws `interrupted` and sends SIGTERM.
StopWait(p) ==
  /\ op[p] = "stop_wait"
  /\ \/ StopReturn(p)
     \/ /\ child[p] = "running"
        /\ interrupted' = [interrupted EXCEPT ![p] = FALSE]
        /\ sig' = [sig EXCEPT ![p] = Delivered(p, "TERM")]
        /\ op' = [op EXCEPT ![p] = "stop_kill"]
        /\ UNCHANGED <<child, code, result>>

\* SIGKILL follows at once: SIGTERM gets no grace of its own.
StopKill(p) ==
  /\ op[p] = "stop_kill"
  /\ \/ StopReturn(p)
     \/ /\ child[p] = "running"
        /\ sig' = [sig EXCEPT ![p] = Delivered(p, "KILL")]
        /\ op' = [op EXCEPT ![p] = "stop_block"]
        /\ UNCHANGED <<child, code, interrupted, result>>

\* wait() without a timeout.
StopBlock(p) == op[p] = "stop_block" /\ StopReturn(p)

StopStep(p) == StopPoll(p) \/ StopInt(p) \/ StopWait(p) \/ StopKill(p) \/ StopBlock(p)

-----------------------------------------------------------------------------
(* join(timeout): wait, and reap() a child that overruns.                  *)

JoinWait(p) ==
  /\ op[p] = "idle"
  /\ \/ /\ child[p] # "running"
        /\ result' = [result EXCEPT ![p] = IF code[p] = "ok" THEN "ok" ELSE "failed"]
        /\ op' = [op EXCEPT ![p] = "done"]
     \/ /\ child[p] = "running"                    \* TimeoutExpired: rc is -1
        /\ result' = [result EXCEPT ![p] = "failed"]
        /\ op' = [op EXCEPT ![p] = "reap_INT"]
  /\ UNCHANGED <<child, code, sig, interrupted>>

\* Mutants of ReapOp: the loop ends before SIGKILL; SIGTERM comes first.
ReapOpNoKill == [s \in {"INT", "TERM", "KILL"} |->
             CASE s = "INT"  -> [now |-> "reap_INT",  wait |-> "wait_INT",  next |-> "reap_TERM"]
               [] s = "TERM" -> [now |-> "reap_TERM", wait |-> "wait_TERM", next |-> "wait_last"]
               [] s = "KILL" -> [now |-> "reap_KILL", wait |-> "wait_KILL", next |-> "wait_last"]]
ReapOp == [s \in {"INT", "TERM", "KILL"} |->
             CASE s = "INT"  -> [now |-> "reap_INT",  wait |-> "wait_INT",  next |-> "reap_TERM"]
               [] s = "TERM" -> [now |-> "reap_TERM", wait |-> "wait_TERM", next |-> "reap_KILL"]
               [] s = "KILL" -> [now |-> "reap_KILL", wait |-> "wait_KILL", next |-> "wait_last"]]

\* One turn of reap()'s loop: return if the child is gone, signal it, wait.
ReapSend(p, s) ==
  /\ op[p] = ReapOp[s].now
  /\ sig' = [sig EXCEPT ![p] = Delivered(p, s)]
  /\ op' = [op EXCEPT ![p] = IF child[p] = "running" THEN ReapOp[s].wait ELSE "done"]
  /\ UNCHANGED <<child, code, interrupted, result>>

\* The wait ends because the child did or because the grace is over; either
\* way the loop goes on to its next turn.
ReapWait(p, s) ==
  /\ op[p] = ReapOp[s].wait
  /\ op' = [op EXCEPT ![p] = ReapOp[s].next]
  /\ UNCHANGED <<child, code, sig, interrupted, result>>

\* The wait after the loop swallows its own timeout: reap() gives up.
ReapLast(p) ==
  /\ op[p] = "wait_last"
  /\ op' = [op EXCEPT ![p] = "done"]
  /\ UNCHANGED <<child, code, sig, interrupted, result>>

JoinStep(p) ==
  \/ JoinWait(p)
  \/ \E s \in {"INT", "TERM", "KILL"} : ReapSend(p, s) \/ ReapWait(p, s)
  \/ ReapLast(p)

-----------------------------------------------------------------------------
ChildStep(p) == ExitSelf(p) \/ ExitOnInt(p) \/ ExitOnTerm(p) \/ ExitOnKill(p)

\* Ctrl-C: the terminal's foreground group holds vperf and all its perf children.
TerminalInt ==
  /\ sig' = [p \in Procs |-> Delivered(p, "INT")]
  /\ UNCHANGED <<child, code, op, interrupted, result>>

-----------------------------------------------------------------------------
(* The handle on its own: a caller that starts children, a new one only in *)
(* the place of one that is gone, and stops or joins them.                 *)

Idle(p) == op[p] \in {"idle", "done"}

ProcNext ==
  \/ \E p \in Procs : \/ child[p] # "running" /\ Idle(p) /\ Spawn(p)
                      \/ child[p] # "absent" /\ (StopStep(p) \/ JoinStep(p))
                      \/ ChildStep(p)
  \/ TerminalInt

\* vperf's thread keeps running, so every wait with a timeout ends; a child is
\* only assumed to die of SIGKILL.
ProcFairness == \A p \in Procs : /\ WF_procVars(op[p] \notin {"idle", "done"} /\ (StopStep(p) \/ JoinStep(p)))
                                 /\ WF_procVars(ExitOnKill(p))

ProcSpec == ProcInit /\ [][ProcNext]_procVars /\ ProcFairness

-----------------------------------------------------------------------------
(* Properties.                                                             *)

\* When stop() returns the child is gone: it never returns over a perf that
\* still holds the PMU, however the escalation went.
StopReleases ==
  [][\A p \in Procs : op[p] \in StopOp /\ op'[p] = "done" => child'[p] = "exited"]_procVars

\* A stop that had to escalate is not reported as a clean finish: status 0
\* stands for a child that ended with 0, or on a SIGINT nothing stronger followed.
NoCleanEscalation ==
  \A p \in Procs : result[p] = "ok" => code[p] = "ok" \/ (code[p] = "int" /\ sig[p] = "INT")

\* join() hands back a dead child, or one that has been sent SIGKILL: a leaked
\* dump would go on appending to an artifact the report is being built from.
JoinNeverLeaks ==
  \A p \in Procs : op[p] = "done" => child[p] # "running" \/ sig[p] = "KILL"

\* Each signal only follows the milder one before it, so perf is always given
\* the chance to write what it has.
EscalationOrder ==
  [][\A p \in Procs : child'[p] = "running" /\ sig'[p] # sig[p] /\ sig'[p] # "none"
       => Rank[sig'[p]] = Rank[sig[p]] + 1]_procVars

\* stop() and a join() that has timed out return, even over a perf that
\* ignores SIGINT and SIGTERM.
HandleReturns == \A p \in Procs : op[p] \notin {"idle", "done"} ~> op[p] = "done"
=============================================================================
