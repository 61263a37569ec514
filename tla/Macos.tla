---------------------------------- MODULE Macos ----------------------------------
(***************************************************************************)
(* vperf/backends/macos.py: collect_macos runs `sample` over a target in   *)
(* windows of a second, or over a pid once, while a thread (_MacSampler)   *)
(* asks `ps` for its CPU time and its resident set.                        *)
(*                                                                         *)
(* The clock counts in the step parse_sample spaces the leaves of one dump *)
(* by.  The resident set, read and saved beside, is left out.              *)
(***************************************************************************)
EXTENDS Integers, Sequences, FiniteSets, SequencesExt, FiniteSetsExt, Functions

CONSTANTS Dumps,       \* bound: the call graphs `sample` may print
          Window,      \* one window of `sample`
          Durations,   \* bound: what may be given as duration; Nothing: until the target exits
          Nothing,     \* None
          MaxClock,    \* bound
          MaxReadings  \* bound: the times the thread gets round

ASSUME MacosConstants == /\ Window \in Nat \ {0} /\ MaxClock \in Nat /\ MaxReadings \in Nat
                         /\ Nothing \notin Nat /\ Durations \subseteq Nat \cup {Nothing}
                         /\ \A d \in Dumps : d \in Seq(Range(d)) /\ \A i \in DOMAIN d : d[i].indent \in Nat

VARIABLES
  mode, duration,
  clock,
  target,   \* running, exited and not waited for, or reaped; the CPU time it has used
  termed,   \* SIGTERM was sent to it
  step,     \* where collect_macos is
  cut,      \* where an interrupt met it
  run_t0, base, \* when the run began, and the window in it
  windows,  \* history: the dumps that came, each with its base
  script,   \* script_samples
  thread,   \* the sampler: where it is, its t0 and its now
  stopped,  \* _stop is set
  turns, cpu, \* the turns it took; its list of readings
  stat,     \* task-clock and the intervals, and history: of how many readings each is
  saved     \* the files written

macVars == <<mode, duration, clock, target, termed, step, cut, run_t0, base, windows, script, thread,
          stopped, turns, cpu, stat, saved>>

collecting == <<cut, run_t0, base, windows, script, stat, saved>>
sampling   == <<thread, turns, cpu>>

-----------------------------------------------------------------------------
(* parse_sample.  A line of a call graph is a thread, or a frame that is   *)
(* called by the last line less indented.  Indentation is counted from the *)
(* thread's, so every frame is deeper: for one that is not, the code would *)
(* pop the root and raise.                                                 *)

IsThread(l) == l.indent = 0

\* The frame lines, each with its thread and the lines it is called through, and those
\* that call.  A line pops the open ones that are not less indented; before the first
\* thread there is no root, and nothing is kept.
NoGraph == [root |-> 0, stack |-> <<>>, calls |-> {}, nodes |-> <<>>]

GraphLine(dump, g, i) ==
  IF IsThread(dump[i]) THEN [g EXCEPT !.root = i, !.stack = <<>>]
  ELSE IF g.root = 0 THEN g
  ELSE LET over == {k \in DOMAIN g.stack : dump[g.stack[k]].indent < dump[i].indent}
           up   == SubSeq(g.stack, 1, Max(over \cup {0})) IN
       [root |-> g.root, stack |-> Append(up, i), calls |-> g.calls \cup Range(up),
        nodes |-> Append(g.nodes, [root |-> g.root, path |-> Append(up, i)])]

CallGraph(dump) == FoldLeft(LAMBDA g, i : GraphLine(dump, g, i), NoGraph, [i \in DOMAIN dump |-> i])

\* _collect_leaves: one sample of each leaf, the leaf first, a step after the last.
KeepLeaf(calls, leaves, n) == IF Last(n.path) \in calls THEN leaves ELSE Append(leaves, n)

ParseSample(dump) ==
  LET g == CallGraph(dump)
      leaves == FoldLeft(LAMBDA kept, n : KeepLeaf(g.calls, kept, n), <<>>, g.nodes)
  IN [k \in DOMAIN leaves |->
        [tid |-> dump[leaves[k].root].sym, time |-> k - 1, period |-> dump[Last(leaves[k].path)].count,
         frames |-> [i \in DOMAIN leaves[k].path |-> dump[Reverse(leaves[k].path)[i]].sym]]]

\* Mutant of Anchored: a window's times start at 0, as `sample` gives them.
AnchoredNowhere(samples, at) == samples

\* s.time += base
Anchored(samples, at) == [k \in DOMAIN samples |-> [samples[k] EXCEPT !.time = @ + at]]

\* An attach has one dump, drawn out over the time asked for.
Asked == IF duration = Nothing \/ duration = 0 THEN 10 * Window ELSE duration
Stretched(samples) ==
  LET n == Len(samples) IN
  [k \in DOMAIN samples |->
     [samples[k] EXCEPT !.time = IF n < 2 THEN 0 ELSE (@ * Asked) \div (n - 1)]]

\* How long `sample` is told to take: a second, or the whole seconds of an attach.
Seconds == IF mode = "run" THEN Window ELSE Max({Window, (Asked \div Window) * Window})

-----------------------------------------------------------------------------
(* collect_macos.                                                          *)

MacInit ==
  /\ mode \in {"run", "attach"} /\ duration \in Durations
  /\ clock = 0 /\ target = [st |-> "running", cpu |-> 0] /\ termed = FALSE
  /\ step = IF mode = "run" THEN "settle" ELSE "start"
  /\ cut = Nothing /\ run_t0 = 0 /\ base = 0 /\ windows = <<>> /\ script = <<>>
  /\ thread = [pc |-> "off", t0 |-> Nothing, now |-> Nothing] /\ stopped = FALSE
  /\ turns = 0 /\ cpu = <<>>
  /\ stat = [total |-> Nothing, seen |-> 0, intervals |-> <<>>, drawn |-> 0, elapsed |-> Nothing]
  /\ saved = {}

\* _settle, for as long as it takes.
Settle ==
  /\ step = "settle" /\ step' = "start"
  /\ UNCHANGED <<mode, duration, clock, target, termed, collecting, sampling, stopped>>

\* sampler.start()
Start ==
  /\ step = "start" /\ step' = IF mode = "run" THEN "loop" ELSE "sample"
  /\ thread' = [thread EXCEPT !.pc = "begin"] /\ run_t0' = clock
  /\ UNCHANGED <<mode, duration, clock, target, termed, cut, base, windows, script, stopped, turns,
                 cpu, stat, saved>>

Reaped == IF mode = "run" /\ target.st = "exited" THEN [target EXCEPT !.st = "reaped"] ELSE target

\* while target.poll() is None, and the deadline.
Loop ==
  /\ step = "loop" /\ target' = Reaped
  /\ IF target'.st = "reaped" \/ (duration # Nothing /\ clock - run_t0 >= duration)
     THEN step' = "finally" /\ base' = base
     ELSE step' = "sample"  /\ base' = clock - run_t0
  /\ UNCHANGED <<mode, duration, clock, termed, cut, run_t0, windows, script, sampling, stopped,
                 stat, saved>>

\* run_sample returns: its time is over, or the target.
Sample(dump) ==
  /\ step = "sample" /\ (clock - run_t0 - base >= Seconds \/ target.st # "running")
  /\ windows' = Append(windows, [at |-> base, dump |-> dump])
  /\ script' = script \o (IF mode = "run" THEN Anchored(ParseSample(dump), base)
                          ELSE Stretched(ParseSample(dump)))
  /\ step' = IF mode = "run" THEN "loop" ELSE "finally"
  /\ UNCHANGED <<mode, duration, clock, target, termed, cut, run_t0, base, sampling, stopped, stat,
                 saved>>

\* ... with an error, and nothing is kept of the window.
SampleFails ==
  /\ step = "sample" /\ step' = IF mode = "run" THEN "loop" ELSE "finally"
  /\ UNCHANGED <<mode, duration, clock, target, termed, collecting, sampling, stopped>>

\* Mutant of Finally: the target is ended when its time is up, and not on an interrupt.
FinallyInTime ==
  /\ step = "finally" /\ target' = Reaped
  /\ termed' = (cut = Nothing /\ mode = "run" /\ target'.st = "running")
  /\ step' = IF cut = Nothing THEN "stop" ELSE "raised"
  /\ UNCHANGED <<mode, duration, clock, collecting, sampling, stopped>>

Finally ==
  /\ step = "finally" /\ target' = Reaped
  /\ termed' = (mode = "run" /\ target'.st = "running")
  /\ step' = IF cut = Nothing THEN "stop" ELSE "raised"
  /\ UNCHANGED <<mode, duration, clock, collecting, sampling, stopped>>

\* sampler.stop(): the thread has ended, or hangs in a `ps` for the two seconds stop()
\* waits; the lists are its own either way.
Stop ==
  /\ step = "stop" /\ stopped' = TRUE /\ step' = "join"
  /\ UNCHANGED <<mode, duration, clock, target, termed, collecting, sampling>>

Join ==
  /\ step = "join" /\ thread.pc \in {"begin", "ps", "ended"} /\ step' = "total"
  /\ saved' = saved \cup {"script.txt"}
  /\ windows' = <<>> /\ script' = <<>> /\ run_t0' = 0 /\ base' = 0     \* not needed any more
  /\ UNCHANGED <<mode, duration, clock, target, termed, cut, sampling, stopped, stat>>

\* task-clock: the peak over the first.
Total ==
  /\ step = "total" /\ step' = IF cpu = <<>> THEN "save" ELSE "intervals"
  /\ stat' = IF cpu = <<>> THEN stat
             ELSE [stat EXCEPT !.total = Max({cpu[i].cpu : i \in DOMAIN cpu}) - cpu[1].cpu,
                               !.seen = Len(cpu)]
  /\ UNCHANGED <<mode, duration, clock, target, termed, cut, run_t0, base, windows, script, sampling,
                 stopped, saved>>

\* _cpu_intervals: what was used between two readings, from the earlier one on, if it
\* is a rise over a time.
Between(i) == [at |-> cpu[i].at, wide |-> cpu[i+1].at - cpu[i].at, ms |-> cpu[i+1].cpu - cpu[i].cpu]
CpuIntervals == [i \in {i \in 1..(Len(cpu) - 1) : Between(i).wide > 0 /\ Between(i).ms >= 0} |-> Between(i)]

Intervals ==
  /\ step = "intervals" /\ step' = "save"
  /\ stat' = [stat EXCEPT !.intervals = CpuIntervals, !.drawn = Len(cpu)]
  /\ UNCHANGED <<mode, duration, clock, target, termed, cut, run_t0, base, windows, script, sampling,
                 stopped, saved>>

\* The rest: elapsed is the last reading's moment; meta.json.
Save ==
  /\ step = "save" /\ step' = "done"
  /\ stat' = [stat EXCEPT !.elapsed = IF cpu # <<>> THEN Last(cpu).at ELSE duration]
  /\ saved' = saved \cup {"meta.json"}
  /\ UNCHANGED <<mode, duration, clock, target, termed, cut, run_t0, base, windows, script, sampling,
                 stopped>>

\* Ctrl-C.  Only the loop is inside the try.
Interrupt ==
  /\ step \notin {"done", "raised"} /\ cut = Nothing /\ cut' = step
  /\ step' = IF step \in {"loop", "sample"} THEN "finally" ELSE "raised"
  /\ UNCHANGED <<mode, duration, clock, target, termed, run_t0, base, windows, script, sampling,
                 stopped, stat, saved>>

Collect == \/ Settle \/ Start \/ Loop \/ SampleFails \/ (\E dump \in Dumps : Sample(dump)) \/ Finally
           \/ Stop \/ Join \/ Total \/ Intervals \/ Save \/ Interrupt

-----------------------------------------------------------------------------
(* _MacSampler._run, the target and the clock.                             *)

main == <<mode, duration, clock, target, termed, step, collecting, stopped>>

Begin ==
  /\ thread.pc = "begin" /\ thread' = [thread EXCEPT !.t0 = clock, !.pc = "wait"]
  /\ UNCHANGED <<main, turns, cpu>>

\* The 50 ms between two turns are a moment at least.
Turn ==
  /\ thread.pc = "wait" /\ (stopped \/ thread.now # clock - thread.t0)
  /\ thread' = IF stopped THEN [pc |-> "ended", t0 |-> Nothing, now |-> Nothing]
                                     ELSE [thread EXCEPT !.pc = "ps", !.now = clock - thread.t0]
  /\ (stopped \/ turns < MaxReadings) /\ turns' = IF stopped THEN turns ELSE turns + 1
  /\ UNCHANGED <<main, cpu>>

\* Mutant of PsCpuSeconds: the 0.00 of a process that has exited is a reading.
PsCpuAnything == IF target.st = "reaped" THEN {Nothing} ELSE {Nothing, IF target.st = "running" THEN target.cpu ELSE 0}

\* _ps_cpu_seconds: ps may fail; an exited process reads 0, and 0 is no reading.
PsCpuSeconds == IF target.st = "running" /\ target.cpu > 0 THEN {Nothing, target.cpu} ELSE {Nothing}

Read ==
  /\ thread.pc = "ps" /\ thread' = [thread EXCEPT !.pc = "wait"]
  /\ \E c \in PsCpuSeconds :
       cpu' = IF c = Nothing THEN cpu ELSE Append(cpu, [at |-> thread.now, cpu |-> c])
  /\ UNCHANGED <<main, turns>>

\* Nobody sees what the thread does once collect_macos has ended.
Sampler == step \notin {"done", "raised"} /\ (Begin \/ Turn \/ Read)

Exit ==
  /\ target.st = "running" /\ target' = [target EXCEPT !.st = "exited"]
  /\ UNCHANGED <<mode, duration, clock, termed, step, collecting, stopped, sampling>>

\* A moment passes; the target computes, on one core.
Tick ==
  /\ clock < MaxClock /\ clock' = clock + 1 /\ step \notin {"done", "raised"}
  /\ target' = IF target.st = "running" THEN [target EXCEPT !.cpu = @ + 1] ELSE target
  /\ UNCHANGED <<mode, duration, termed, step, collecting, stopped, sampling>>

MacNext == Collect \/ Sampler \/ Exit \/ Tick

MacSpec == MacInit /\ [][MacNext]_macVars

-----------------------------------------------------------------------------
(* Properties.                                                             *)

\* Line i calls line j, by the indentation alone.
Calls(dump, i, j) == /\ i < j /\ 0 < dump[i].indent
                     /\ \A k \in (i+1)..j : dump[i].indent < dump[k].indent

Leading(dump, j) == {i \in DOMAIN dump : i = j \/ Calls(dump, i, j)}

\* The line of the thread a line is of, 0 before the first.
ThreadOf(dump, j) == Max({t \in 1..j : IsThread(dump[t])} \cup {0})

\* Whether samples are of dump: one for every line of a thread that calls none, in their
\* order, with the lines that lead there as its frames, the line's own first.
IsOf(dump, samples) ==
  LET leaves == {j \in DOMAIN dump : /\ ~IsThread(dump[j]) /\ ThreadOf(dump, j) # 0
                                     /\ \A k \in DOMAIN dump : ~Calls(dump, j, k)}
  IN /\ Len(samples) = Cardinality(leaves)
     /\ \A j \in leaves :
          LET s == samples[Cardinality({l \in leaves : l <= j})]
              stack == Leading(dump, j) IN
          /\ s.tid = dump[ThreadOf(dump, j)].sym /\ s.period = dump[j].count
          /\ Len(s.frames) = Cardinality(stack)
          /\ \A i \in stack : s.frames[Cardinality({k \in stack : k >= i})] = dump[i].sym

\* The steps a window has.
Room == IF mode = "run" THEN Window ELSE Asked + 1

\* script.txt is the dumps, in order, and its times go on from window to window: none
\* is before its window began, none before an earlier one's and none as late as the
\* next window's begin - unless a window has more leaves than steps.
ScriptIsTheDumps ==
  LET Leaves(n) == Len(ParseSample(windows[n].dump))
      From(n)   == SumFunctionOnSet([w \in DOMAIN windows |-> Leaves(w)], 1..n)
      Of(n)     == SubSeq(script, From(n-1) + 1, From(n))
  IN step = "join" =>
     /\ \A n \in DOMAIN windows :
          /\ IsOf(windows[n].dump, Of(n))
          /\ \A k \in DOMAIN Of(n) : Of(n)[k].time >= windows[n].at
     /\ (\A n \in DOMAIN windows : Leaves(n) <= Room)
          => \A i, j \in DOMAIN script : i < j => script[i].time < script[j].time

\* The CPU time: what the timeline adds up to is the total, and both are what the
\* target used between the first reading and the last - unless stop() left the thread
\* in a `ps`, and then one reading may be in the one and not yet in the other.
CpuAddsUp ==
  step = "done" /\ stat.total # Nothing =>
    /\ stat.seen <= stat.drawn /\ stat.drawn <= stat.seen + 1
    /\ stat.total = cpu[stat.seen].cpu - cpu[1].cpu
    /\ LET drawn == [i \in DOMAIN stat.intervals |-> stat.intervals[i].ms] IN
       SumFunction(drawn) = cpu[stat.drawn].cpu - cpu[1].cpu

\* A target vperf started does not outlive it unasked: however the sampling ends, it
\* has exited or been sent SIGTERM.  (Before the try nothing would do it.)
TargetIsEnded ==
  mode = "run" /\ step \in {"done", "raised"} /\ cut \notin {"settle", "start", "finally"}
    => target.st # "running" \/ termed
=============================================================================
