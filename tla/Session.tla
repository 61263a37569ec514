------------------------------ MODULE Session ------------------------------
(***************************************************************************)
(* One combined profiling session: vperf/collector.py, _collect_combined,  *)
(* from the target's start to the moment the collectors' results are read. *)
(* The one vperf thread freezes the target, opens `perf stat` and          *)
(* `perf record` on it, lets it run, watches, and puts everything back; a  *)
(* SIGINT may reach it between any two steps.                              *)
(*                                                                         *)
(* pc names the place in the function; `unwinding` tells the except branch *)
(* that re-raises from the code after the try, which run the same helpers. *)
(***************************************************************************)
EXTENDS PerfProcess

Options == {"interval", "memory", "dwarf"}

CONSTANTS MaxInterrupts,    \* bound: how many SIGINTs reach vperf
          OptionSets        \* the sets of options a session may be started with

ASSUME SessionAssumption == /\ Procs = {"stat", "record"}
                            /\ MaxInterrupts \in Nat
                            /\ OptionSets \subseteq SUBSET Options

VARIABLES
  mode,         \* "run" (the target is ours) or "attach" (a pid)
  signalable,   \* may we signal the target (another user's is not ours to)
  asked,        \* the options asked for: callgraph_mode = dwarf, memory_plan, interval_ms
  pc,           \* where the vperf thread is
  tgt,          \* the target process
  stopper,      \* who stopped a stopped target
  tsig,         \* the strongest signal _cleanup_run_target has sent it
  paused,       \* target_paused
  ready,        \* target_ready
  bound,        \* bound[p]: stat_process / record_process holds the child's handle
  startup,      \* startup[p]: stat_startup / record_startup
  attempt,      \* the rung of the launch ladder
  active,       \* active_interval_ms, active_memory_plan, active_callgraph = dwarf
  using,        \* history: using[p], the options the child p was really started with
  refused,      \* history: those of the recordings that failed within their grace
  goneSeen,     \* the monitor's target_exit_time is set (FALSE outside the monitor)
  unwinding,    \* in the re-raising part of the except branch
  outcome,      \* how _collect_combined ended
  ints,         \* SIGINTs so far
  hit,          \* history: the regions of the code they landed in
  terminal      \* history: one of them was a terminal Ctrl-C

targetVars  == <<tgt, stopper, tsig>>
freezeVars  == <<paused, ready>>
ladderVars  == <<startup, attempt, active, using, refused>>
intVars     == <<ints, hit, terminal>>
configVars  == <<mode, signalable, asked>>
sessionVars == <<configVars, pc, targetVars, freezeVars, bound, ladderVars,
                 goneSeen, unwinding, outcome, intVars>>
vars        == <<procVars, sessionVars>>

\* The code before the try, between a child's start and its handle's binding,
\* in the rest of the try, and after it.
PrePc  == {"spawnTarget", "settleTarget", "look", "freeze", "enterTry"}
BindPc == {"bindStat", "bindRecord"}
TryPc  == {"launchStat", "launchRecord", "settleStat", "settleRecord", "cont", "mark", "monitor"}
LatePc == {"handler", "after", "cleanup", "cleanTerm", "cleanKill", "finRecord", "finStat", "post"}
Pc     == PrePc \cup BindPc \cup TryPc \cup LatePc \cup {"over"}

Region(l) == CASE l \in PrePc -> "pre" [] l \in BindPc -> "bind"
               [] l \in TryPc -> "try" [] OTHER -> "late"

ConfigOK == mode \in {"run", "attach"} /\ signalable \in BOOLEAN /\ asked \in OptionSets
TargetOK == /\ tgt \in {"absent", "run", "stopped", "zombie", "gone"}
            /\ stopper \in {"none", "us", "other"}
            /\ tsig \in {"none", "TERM", "KILL"}
FreezeOK == paused \in BOOLEAN /\ ready \in BOOLEAN
LadderOK == /\ bound \in [Procs -> BOOLEAN]
            /\ startup \in [Procs -> {"live", "ok", "failed"}]
            /\ attempt \in {"first", "bare", "cpu", "fp"}
            /\ active \in SUBSET Options /\ using \in [Procs -> SUBSET Options]
            /\ refused \subseteq SUBSET Options
EndOK    == /\ goneSeen \in BOOLEAN /\ unwinding \in BOOLEAN
            /\ outcome \in {"none", "report", "raised", "error"}
IntOK    == /\ ints \in 0..MaxInterrupts
            /\ hit \in SUBSET {"pre", "bind", "try", "late"}
            /\ terminal \in BOOLEAN

SessionTypeOK == /\ ProcTypeOK /\ pc \in Pc /\ ConfigOK /\ TargetOK /\ FreezeOK
                 /\ LadderOK /\ EndOK /\ IntOK

\* Attach mode finds the pid in any state, stopped by somebody else included.
Init ==
  /\ ProcInit
  /\ signalable \in BOOLEAN
  /\ asked \in OptionSets /\ active = asked
  /\ \/ mode = "run" /\ pc = "spawnTarget" /\ tgt = "absent" /\ stopper = "none"
     \/ /\ mode = "attach" /\ pc = "look"
        /\ tgt \in {"run", "stopped", "zombie", "gone"}
        /\ stopper = IF tgt = "stopped" THEN "other" ELSE "none"
  /\ tsig = "none"
  /\ paused = FALSE /\ ready = TRUE
  /\ bound = [p \in Procs |-> FALSE]
  /\ startup = [p \in Procs |-> "live"]
  /\ attempt = "first"
  /\ using = [p \in Procs |-> {}] /\ refused = {}
  /\ goneSeen = FALSE /\ unwinding = FALSE
  /\ outcome = "none"
  /\ ints = 0 /\ hit = {} /\ terminal = FALSE

-----------------------------------------------------------------------------
(* The target.                                                             *)

Dead == tgt \in {"zombie", "gone"}

\* _signal_target: a zombie still takes a signal, a reaped pid does not.
CanSignal == signalable /\ tgt \notin {"absent", "gone"}

SigStop == IF tgt = "run" THEN tgt' = "stopped" /\ stopper' = "us"
                          ELSE UNCHANGED <<tgt, stopper>>

SigCont == IF tgt = "stopped" THEN tgt' = "run" /\ stopper' = "none"
                              ELSE UNCHANGED <<tgt, stopper>>

\* Popen.poll() of the owned target: a zombie is reaped on the way.
Polled == tgt' = (IF tgt = "zombie" THEN "gone" ELSE tgt) /\ UNCHANGED <<stopper, tsig>>

\* The target ends, by itself or by a signal from outside.  (What it and the
\* collectors do once the session is over is not followed.)
TargetExit ==
  /\ pc # "over" /\ tgt \in {"run", "stopped"}
  /\ tgt' = "zombie" /\ stopper' = "none"
  /\ UNCHANGED <<procVars, configVars, pc, tsig, freezeVars, bound, ladderVars,
                 goneSeen, unwinding, outcome, intVars>>

TargetKilled == tsig = "KILL" /\ TargetExit

\* An attached target is another process's child, which may reap it.
ParentReaps ==
  /\ pc # "over" /\ mode = "attach" /\ tgt = "zombie"
  /\ tgt' = "gone"
  /\ UNCHANGED <<procVars, configVars, pc, stopper, tsig, freezeVars, bound, ladderVars,
                 goneSeen, unwinding, outcome, intVars>>

\* A collector ends: with the target, with an error of its own, or on a signal.
CollectorExit(p) ==
  /\ pc # "over"
  /\ \/ Dead /\ Exit(p, "ok")
     \/ Exit(p, "error")
     \/ ExitOnInt(p) \/ ExitOnTerm(p)
  /\ UNCHANGED sessionVars

CollectorKilled(p) == pc # "over" /\ ExitOnKill(p) /\ UNCHANGED sessionVars

-----------------------------------------------------------------------------
(* Before the try: start or find the target, and freeze it.                *)

SpawnTarget ==
  /\ pc = "spawnTarget"
  /\ \/ pc' = "settleTarget" /\ tgt' = "run" /\ UNCHANGED outcome
     \/ pc' = "over" /\ outcome' = "error" /\ UNCHANGED tgt        \* OSError
  /\ UNCHANGED <<procVars, configVars, stopper, tsig, freezeVars, bound, ladderVars,
                 goneSeen, unwinding, intVars>>

\* The startup grace is over, or the target ended inside it.
SettleTarget ==
  /\ pc = "settleTarget"
  /\ Polled
  /\ IF Dead THEN pc' = "enterTry" /\ ready' = FALSE
             ELSE pc' = "freeze" /\ UNCHANGED ready
  /\ UNCHANGED <<procVars, configVars, paused, bound, ladderVars, goneSeen, unwinding,
                 outcome, intVars>>

\* Mutant of Look: a stopped target is frozen like any other.
LookBlind ==
  /\ pc = "look"
  /\ pc' = IF tgt = "gone" THEN "enterTry" ELSE "freeze"
  /\ ready' = (tgt # "gone")
  /\ UNCHANGED <<procVars, configVars, targetVars, paused, bound, ladderVars, goneSeen,
                 unwinding, outcome, intVars>>

\* _process_state of the attached pid: a target already stopped is left alone.
Look ==
  /\ pc = "look"
  /\ pc' = IF tgt \in {"gone", "stopped"} THEN "enterTry" ELSE "freeze"
  /\ ready' = (tgt # "gone")
  /\ UNCHANGED <<procVars, configVars, targetVars, paused, bound, ladderVars, goneSeen,
                 unwinding, outcome, intVars>>

\* SIGSTOP.  An owned target that cannot be frozen is not profiled; an attached
\* one is profiled unfrozen.
Freeze ==
  /\ pc = "freeze"
  /\ pc' = "enterTry"
  /\ paused' = CanSignal
  /\ ready' = (mode = "attach" \/ CanSignal)
  /\ IF CanSignal THEN SigStop ELSE UNCHANGED <<tgt, stopper>>
  /\ UNCHANGED <<procVars, configVars, tsig, bound, ladderVars, goneSeen, unwinding,
                 outcome, intVars>>

EnterTry ==
  /\ pc = "enterTry"
  /\ pc' = IF ready THEN "launchStat" ELSE "cont"
  /\ UNCHANGED <<procVars, configVars, targetVars, freezeVars, bound, ladderVars,
                 goneSeen, unwinding, outcome, intVars>>

-----------------------------------------------------------------------------
(* In the try: open the collectors, stepping down when one refuses.        *)

\* Mutant of Args: a retry of the record reuses the arguments it failed with.
ArgsStale(p) ==
  IF p = "record" THEN IF attempt \in {"cpu", "fp"} THEN using[p] ELSE active \ {"interval"}
  ELSE IF attempt = "bare" THEN {} ELSE active \cap {"interval"}

\* What each launch asks for: the bare stat retry drops the intervals, and the
\* record takes whatever memory plan and call-graph mode are still active.
Args(p) == IF p = "record" THEN active \ {"interval"}
           ELSE IF attempt = "bare" THEN {} ELSE active \cap {"interval"}

\* _launch_collector: start_perf raised, and the handle is None; or the child
\* runs, and its handle is not bound before Popen() has returned (Bind).
Launch(p, here, bind, failed) ==
  /\ pc = here
  /\ bound' = [bound EXCEPT ![p] = FALSE]
  /\ startup' = [startup EXCEPT ![p] = "live"]
  /\ \/ pc' = bind /\ Spawn(p) /\ using' = [using EXCEPT ![p] = Args(p)]
     \/ pc' = failed /\ UNCHANGED <<procVars, using>>
  /\ UNCHANGED <<configVars, targetVars, freezeVars, attempt, active, refused, goneSeen,
                 unwinding, outcome, intVars>>

Bind(p, here, next) ==
  /\ pc = here
  /\ bound' = [bound EXCEPT ![p] = TRUE]
  /\ pc' = next
  /\ UNCHANGED <<procVars, configVars, targetVars, freezeVars, ladderVars, goneSeen,
                 unwinding, outcome, intVars>>

AfterStat   == IF attempt = "first" THEN "launchRecord" ELSE "settleStat"
AfterRecord == IF attempt = "first" THEN "settleStat" ELSE "settleRecord"

LaunchStat   == Launch("stat", "launchStat", "bindStat", AfterStat)
BindStat     == Bind("stat", "bindStat", AfterStat)
LaunchRecord == Launch("record", "launchRecord", "bindRecord", AfterRecord)
BindRecord   == Bind("record", "bindRecord", AfterRecord)

\* _settle_collector: a collector that ended within the grace has its raw status
\* read; None, or one still running, leaves the startup result None.
Settled(p) ==
  IF ~bound[p] \/ child[p] = "running" THEN "live"
  ELSE IF code[p] = "ok" THEN "ok" ELSE "failed"

Refuse(st) ==
  refused' = IF st["record"] = "failed" THEN refused \cup {using["record"]} ELSE refused

\* Mutant of RecordLadder: a startup result of None counts as a failure.
RecordLadderEager(left, st) ==
  /\ Refuse(st)
  /\ IF st["record"] # "ok" /\ "memory" \in left
     THEN active' = left \ {"memory"} /\ attempt' = "cpu" /\ pc' = "launchRecord" /\ startup' = st
     ELSE /\ active' = left /\ pc' = "cont"
          /\ attempt' = "first" /\ startup' = [p \in Procs |-> "live"]

\* The record's ladder: without the memory plan, then with frame pointers.  The
\* startup results are read nowhere past it (but for a warning), and forgotten.
RecordLadder(left, st) ==
  /\ Refuse(st)
  /\ IF st["record"] = "failed" /\ "memory" \in left
     THEN active' = left \ {"memory"} /\ attempt' = "cpu" /\ pc' = "launchRecord" /\ startup' = st
     ELSE IF st["record"] = "failed" /\ "dwarf" \in left
     THEN active' = left \ {"dwarf"} /\ attempt' = "fp" /\ pc' = "launchRecord" /\ startup' = st
     ELSE /\ active' = left /\ pc' = "cont"
          /\ attempt' = "first" /\ startup' = [p \in Procs |-> "live"]

\* The bare stat retry gives the intervals up only if it has already ended well.
SettleStat ==
  LET st == [startup EXCEPT !["stat"] = Settled("stat")] IN
  /\ pc = "settleStat"
  /\ IF attempt = "first"
     THEN pc' = "settleRecord" /\ startup' = st /\ UNCHANGED <<attempt, active, refused>>
     ELSE RecordLadder(IF st["stat"] = "ok" THEN active \ {"interval"} ELSE active, st)
  /\ UNCHANGED <<procVars, configVars, targetVars, freezeVars, bound, using, goneSeen,
                 unwinding, outcome, intVars>>

SettleRecord ==
  LET st == [startup EXCEPT !["record"] = Settled("record")] IN
  /\ pc = "settleRecord"
  /\ IF attempt = "first" /\ st["stat"] = "failed" /\ "interval" \in active
     THEN attempt' = "bare" /\ pc' = "launchStat" /\ startup' = st
          /\ UNCHANGED <<active, refused>>
     ELSE RecordLadder(active, st)
  /\ UNCHANGED <<procVars, configVars, targetVars, freezeVars, bound, using, goneSeen,
                 unwinding, outcome, intVars>>

\* Past the try the start-up results are not read again, and of the rest only what
\* the recording is, unless the session will have no report.
ForgetStartup == startup' = [p \in Procs |-> "live"] /\ attempt' = "first"
ForgetPlan    == active' = {} /\ using' = [p \in Procs |-> {}] /\ refused' = {}

-----------------------------------------------------------------------------
(* Let the target run, and watch.                                          *)

\* The samplers are up; SIGCONT, and paused only clears if it went through.
Cont ==
  /\ pc = "cont"
  /\ IF paused /\ CanSignal THEN SigCont /\ paused' = FALSE
     ELSE UNCHANGED <<tgt, stopper, paused>>
  /\ pc' = IF ready THEN "mark" ELSE "after"
  /\ UNCHANGED <<procVars, configVars, tsig, ready, bound, ladderVars, goneSeen,
                 unwinding, outcome, intVars>>

\* The .recording marker is written and the measured window starts.
Mark ==
  /\ pc = "mark"
  /\ pc' = "monitor"
  /\ UNCHANGED <<procVars, configVars, targetVars, freezeVars, bound, ladderVars,
                 goneSeen, unwinding, outcome, intVars>>

\* One turn of _monitor_collectors that notices the target's end.
MonitorSee ==
  /\ pc = "monitor" /\ ~goneSeen /\ Dead
  /\ goneSeen' = TRUE
  /\ IF mode = "run" THEN Polled ELSE UNCHANGED targetVars
  /\ UNCHANGED <<procVars, configVars, pc, freezeVars, bound, ladderVars, unwinding,
                 outcome, intVars>>

Running(p) == bound[p] /\ child[p] = "running"

\* Mutant of MonitorEnd: no flush grace bounds the wait for the collectors.
MonitorEndNoGrace ==
  /\ pc = "monitor"
  /\ mode = "attach" \/ \A p \in Procs : ~Running(p)
  /\ pc' = "after" /\ goneSeen' = FALSE
  /\ UNCHANGED <<procVars, configVars, targetVars, freezeVars, bound, ladderVars,
                 unwinding, outcome, intVars>>

\* A turn that returns: the duration is over (attach always has one), no
\* collector runs, or the flush grace has passed since the target ended.
MonitorEnd ==
  /\ pc = "monitor"
  /\ \/ mode = "attach"
     \/ \A p \in Procs : ~Running(p)
     \/ goneSeen
  /\ pc' = "after" /\ goneSeen' = FALSE
  /\ UNCHANGED <<procVars, configVars, targetVars, freezeVars, bound, ladderVars,
                 unwinding, outcome, intVars>>

\* Mutants of Handler: the paused target is not continued; the owned target is
\* cleaned up before the collectors are finished.
HandlerNoCont ==
  /\ pc = "handler"
  /\ IF mode = "attach" THEN pc' = "after" /\ UNCHANGED unwinding
                        ELSE pc' = "finRecord" /\ unwinding' = TRUE
  /\ UNCHANGED <<procVars, configVars, targetVars, freezeVars, bound, ladderVars, goneSeen,
                 outcome, intVars>>
HandlerTargetFirst ==
  /\ pc = "handler"
  /\ IF paused /\ CanSignal THEN SigCont ELSE UNCHANGED <<tgt, stopper>>
  /\ IF mode = "attach" THEN pc' = "after" /\ UNCHANGED unwinding
                        ELSE pc' = "cleanup" /\ unwinding' = TRUE
  /\ UNCHANGED <<procVars, configVars, tsig, freezeVars, bound, ladderVars, goneSeen,
                 outcome, intVars>>

\* The except branch: continue a target still paused, then either finish the
\* attached profile early or release everything and re-raise.
Handler ==
  /\ pc = "handler"
  /\ IF paused /\ CanSignal THEN SigCont ELSE UNCHANGED <<tgt, stopper>>
  /\ IF mode = "attach" THEN pc' = "after" /\ UNCHANGED unwinding
                        ELSE pc' = "finRecord" /\ unwinding' = TRUE
  /\ UNCHANGED <<procVars, configVars, tsig, freezeVars, bound, ladderVars, goneSeen,
                 outcome, intVars>>

-----------------------------------------------------------------------------
(* After the try: the owned target, then the collectors.                   *)

After ==
  /\ pc = "after"
  /\ IF mode = "run"
     THEN /\ pc' = "cleanup"
          /\ IF paused /\ CanSignal THEN SigCont /\ paused' = FALSE
             ELSE UNCHANGED <<tgt, stopper, paused>>
     ELSE pc' = "finRecord" /\ UNCHANGED <<tgt, stopper, paused>>
  /\ ForgetStartup /\ UNCHANGED refused
  /\ active' = active \ {"interval"} /\ using' = [using EXCEPT !["stat"] = {}]
  /\ UNCHANGED <<procVars, configVars, tsig, ready, bound, goneSeen, unwinding, outcome,
                 intVars>>

\* _finish_collector: stop() the child whose handle is bound, if any.
Finish(p, here, next) ==
  /\ pc = here
  /\ \/ bound[p] /\ StopStep(p) /\ UNCHANGED <<pc, outcome>>
     \/ /\ ~bound[p] \/ op[p] = "done"
        /\ pc' = next
        /\ UNCHANGED <<procVars, outcome>>
  /\ UNCHANGED <<configVars, targetVars, freezeVars, bound, ladderVars, goneSeen, unwinding,
                 intVars>>

\* Mutants of FinRecord: the stat collector is forgotten.  Of FinStat: it is
\* forgotten on the way out of an interrupted run.
FinRecordOnly == Finish("record", "finRecord", IF unwinding THEN "cleanup" ELSE "post")
FinStatUnlessUnwinding ==
  IF unwinding THEN /\ pc = "finStat" /\ pc' = "cleanup"
                    /\ UNCHANGED <<procVars, configVars, targetVars, freezeVars, bound,
                                   ladderVars, goneSeen, unwinding, outcome, intVars>>
  ELSE Finish("stat", "finStat", "post")

FinRecord == Finish("record", "finRecord", "finStat")
FinStat   == Finish("stat", "finStat", IF unwinding THEN "cleanup" ELSE "post")

\* Where _cleanup_run_target returns to.
Cleaned == IF unwinding THEN pc' = "over" /\ outcome' = "raised"
                        ELSE pc' = "finRecord" /\ UNCHANGED outcome

\* One wait of _cleanup_run_target: the target has ended, or the timeout sends
\* the next signal (s, where "none" only moves on; an unsignalable target gets nothing).
CleanWait(here, s, late) ==
  /\ pc = here
  /\ \/ Dead /\ Polled /\ Cleaned
     \/ /\ ~Dead /\ pc' = late
        /\ tsig' = IF CanSignal /\ s # "none" THEN s ELSE tsig
        /\ UNCHANGED <<tgt, stopper, outcome>>
  /\ UNCHANGED <<procVars, configVars, freezeVars, bound, ladderVars, goneSeen, unwinding,
                 intVars>>

\* Mutant of CleanTerm: the function returns after SIGTERM and its 2 s.
CleanTermGivesUp ==
  /\ pc = "cleanTerm" /\ Polled /\ Cleaned
  /\ UNCHANGED <<procVars, configVars, freezeVars, bound, ladderVars, goneSeen, unwinding,
                 intVars>>

\* 0.5 s of grace, SIGTERM, 2 s, SIGKILL, and a wait without a timeout.
CleanGrace == CleanWait("cleanup", "TERM", "cleanTerm")
CleanTerm  == CleanWait("cleanTerm", "KILL", "cleanKill")
CleanKill  == Dead /\ CleanWait("cleanKill", "none", "cleanKill")

\* What the rest of the session reads of the ladder, for the dumps and meta.json:
\* the memory plan still active, if the recording is good, and the intervals still
\* active; but the call graph that was asked for.
MemoryRead == result["record"] = "ok" /\ "memory" \in active
Meta(o)    == o \in IF o = "dwarf" THEN asked ELSE active

\* Both results are in hand; what follows makes the report from them.
Post ==
  /\ pc = "post"
  /\ pc' = "over" /\ outcome' = "report"
  /\ UNCHANGED <<procVars, configVars, targetVars, freezeVars, bound, ladderVars,
                 goneSeen, unwinding, intVars>>

-----------------------------------------------------------------------------
(* SIGINT reaches vperf: from a driver, or from the terminal, whose Ctrl-C *)
(* reaches the perf children too.  Inside the try it goes to the except    *)
(* branch; anywhere else it leaves _collect_combined.                      *)

Interrupt ==
  /\ pc # "over" /\ ints < MaxInterrupts
  /\ ints' = ints + 1
  /\ hit' = hit \cup {Region(pc)}
  /\ IF pc \in TryPc \cup BindPc
     THEN pc' = "handler" /\ UNCHANGED <<outcome, bound>>
     ELSE pc' = "over" /\ outcome' = "raised" /\ bound' = [p \in Procs |-> FALSE]
  /\ ForgetStartup
  /\ IF pc' = "handler" /\ mode = "attach" THEN UNCHANGED <<active, using, refused>>
                                           ELSE ForgetPlan
  /\ \/ TerminalInt /\ terminal' = TRUE
     \/ UNCHANGED <<procVars, terminal>>
  /\ goneSeen' = FALSE
  /\ UNCHANGED <<configVars, targetVars, freezeVars, unwinding>>

Thread ==
  \/ SpawnTarget \/ SettleTarget \/ Look \/ Freeze \/ EnterTry
  \/ LaunchStat \/ BindStat \/ LaunchRecord \/ BindRecord \/ SettleStat \/ SettleRecord
  \/ Cont \/ Mark \/ MonitorSee \/ MonitorEnd \/ Handler \/ After
  \/ FinRecord \/ FinStat
  \/ CleanGrace \/ CleanTerm \/ CleanKill \/ Post

\* Nothing is left to do once vperf is out of the session.
Over == pc = "over" /\ UNCHANGED vars

Next ==
  \/ Thread \/ Interrupt \/ Over
  \/ TargetExit \/ ParentReaps
  \/ \E p \in Procs : CollectorExit(p) \/ CollectorKilled(p)

\* The vperf thread runs, its timeouts strike, and SIGKILL kills; nobody else
\* (the target, perf, the user) is bound to do anything.
Fairness == /\ WF_vars(Thread)
            /\ WF_vars(TargetKilled)
            /\ \A p \in Procs : WF_vars(CollectorKilled(p))

Spec == Init /\ [][Next]_vars /\ Fairness

-----------------------------------------------------------------------------
(* Properties.  `hit` says where the SIGINTs landed: what the try promises *)
(* it promises for an interrupt inside it, and once.                       *)

Promised(regions) == pc = "over" /\ hit \subseteq regions

\* However the session ends, by itself or by one SIGINT anywhere in the try, no
\* collector it started outlives it: an orphan would hold the PMU for good.
NoOrphanCollector == Promised({"try"}) => \A p \in Procs : child[p] # "running"

\* A target this session froze is running again (or dead) when it ends.
TargetRestored == Promised({"try", "bind"}) => stopper # "us"

\* A target vperf started has been waited for when the session ends.
OwnedTargetReaped ==
  Promised({"try", "bind"}) /\ mode = "run" => tgt \in {"absent", "gone"}

\* Only a freeze the session took is ever continued: a target somebody else
\* had stopped is still stopped, unless it has died.
OthersFreezeKept == [][stopper = "other" => stopper' = "other" \/ tgt' = "zombie"]_vars

\* The ladder never starts a second collector of a kind over a live one, which
\* would fight it for the counters and the output file.
NoLiveRelaunch ==
  /\ pc = "launchStat" => child["stat"] # "running"
  /\ pc = "launchRecord" => child["record"] # "running"

\* A recording that is reported has its memory events read out and kept from the CPU
\* samples if and only if they are in it, however the ladder was left.  Whatever
\* else was asked for and is not in it, a recording with it was refused before; and
\* what is reported was not.
RecordMatchesPlan ==
  outcome = "report" /\ result["record"] = "ok" =>
    /\ MemoryRead <=> "memory" \in using["record"]
    /\ \A o \in (asked \ {"interval"}) \ using["record"] : \E r \in refused : o \in r
    /\ using["record"] \subseteq asked /\ using["record"] \notin refused

\* The owned target is only killed when nothing is measuring it any more.
KilledUnmeasured ==
  tsig # "none" /\ "bind" \notin hit => \A p \in Procs : child[p] # "running"

\* stop() returns the status of a recording that ended well, or as SIGINT asks,
\* before its patience ran out.
FlushedInTime ==
  /\ op["record"] \in {"idle", "stop_wait"} /\ op'["record"] = "done"
  /\ code["record"] \in {"ok", "int"}

\* When vperf alone was interrupted, such a recording counts: its samples are
\* not thrown away as those of a failed record.
RecordingKept == [][FlushedInTime /\ ~terminal => result'["record"] = "ok"]_vars

\* The same for every SIGINT, a terminal's Ctrl-C included.
CtrlCKeepsRecording == [][FlushedInTime => result'["record"] = "ok"]_vars

\* cli.py says of attach that an interrupt before the collectors are up leaves
\* nothing to report, and that one once the collectors run produces a report.
ReportOnceCollecting ==
  [][Interrupt /\ mode = "attach" /\ (\E p \in Procs : Running(p))
       => outcome' # "raised"]_vars

\* collector.py says of an owned target that it "is ours to kill" when an
\* interrupt unwinds run mode: at whatever point that one interrupt came.
InterruptKillsOwnedTarget ==
  pc = "over" /\ mode = "run" /\ ints = 1 => tgt \in {"absent", "gone", "zombie"}

\* test_collector.py asks of meta.json that it name the call graph perf was given.
MetaNamesTheCallGraph ==
  pc = "after" /\ Running("record") => (Meta("dwarf") <=> "dwarf" \in using["record"])

\* The ladder drops the intervals from meta.json where perf stat runs without them.
MetaNamesTheIntervals ==
  pc = "after" /\ Running("stat") => (Meta("interval") <=> "interval" \in using["stat"])

\* The session keeps its promise (SessionPromise): what it holds is its freeze of
\* the target, the target it started, and the collectors that run.
Held == {r \in {"freeze", "target"} \cup Procs :
           CASE r = "freeze" -> stopper = "us"
             [] r = "target" -> mode = "run" /\ tgt \notin {"absent", "gone"}
             [] OTHER -> child[r] = "running"}

Phase == CASE pc = "over" -> "over" [] pc \in LatePc -> "closing" [] OTHER -> "opening"

Promise == INSTANCE SessionPromise
             WITH Resources <- {"freeze", "target"} \cup Procs,
                  phase <- Phase, held <- Held, lost <- ~(hit \subseteq {"try"})

PromiseKept == Promise!Spec

\* An attached session ends whatever the target and the collectors do; an owned
\* target's end ends the session.
SessionEnds == (mode = "attach" \/ Dead) ~> pc = "over"
=============================================================================
