-------------------------------- MODULE Cycle --------------------------------
(***************************************************************************)
(* `vperf cycle`: vperf/cli.py, cmd_cycle.  The main thread submits the    *)
(* warm-up and the measured runs to a pool of worker threads and collects  *)
(* their results; each worker probes the machine once for the process,     *)
(* runs the target under the counting pass and computes its metrics.  A    *)
(* SIGINT may reach the main thread between any two steps.                 *)
(*                                                                         *)
(* A run is its index: 1..Warmup warm up, the ones after it are measured.  *)
(***************************************************************************)
EXTENDS Integers, FiniteSets, Sequences

CONSTANTS Runs, Warmup,    \* -n and --warmup
          Cores,           \* physical cores of the machine
          JobChoices,      \* the values of -j a cycle may be started with
          MaxInterrupts    \* bound: how many SIGINTs reach vperf

ASSUME CycleAssumption == /\ Runs \in Nat /\ Warmup \in Nat /\ Cores \in Nat \ {0}
                          /\ JobChoices \subseteq Nat \ {0} /\ MaxInterrupts \in Nat

Total    == Runs + Warmup
Idx      == 1..Total
Measured == {i \in Idx : i > Warmup}
NoCore   == -1

VARIABLES
  jobs,       \* max_workers
  pinned,     \* pin_cpus is not None
  pc,         \* where the main thread is
  submitted,  \* how many runs the pool has been given
  run,        \* what has become of each run
  taken,      \* the futures as_completed has yielded
  results,    \* the results dict: the core of each measured run
  probed,     \* _PROBE_CACHE holds the capabilities
  base,       \* the temporary directory is "there" or "removed"
  table,      \* the rows of the TSV
  outcome,    \* how the command ended
  ints        \* SIGINTs so far

mainVars == <<pc, submitted, taken, results, base, table, outcome, ints>>
poolVars == <<run, probed>>
cycleVars == <<jobs, pinned, mainVars, poolVars>>

Working == {"look", "probe", "target"}
Ended   == {"ok", "bad"}
Busy    == {i \in Idx : run[i] \in Working}

\* Mutant of MayPin: pin with more runs at once than cores.
MayPinAlways(j) == TRUE

\* pin_cpus is set only when every run at once can have a core of its own.
MayPin(j) == j <= Cores

\* pin_cpus[(idx - 1) % len(pin_cpus)]
PinnedTo(i) == (i - 1) % Cores

CoreOf(i) == IF pinned THEN PinnedTo(i) ELSE NoCore

CycleInit ==
  /\ jobs \in JobChoices
  /\ pinned \in BOOLEAN /\ (pinned => MayPin(jobs))   \* nor with --no-pin, or no taskset
  /\ pc = "submit" /\ submitted = 0
  /\ run = [i \in Idx |-> "none"] /\ taken = {} /\ results = [i \in {} |-> NoCore]
  /\ probed = FALSE /\ base = "there" /\ table = <<>> /\ outcome = "none" /\ ints = 0

-----------------------------------------------------------------------------
(* The main thread.                                                        *)

Submit ==
  /\ pc = "submit" /\ submitted < Total
  /\ submitted' = submitted + 1
  /\ run' = [run EXCEPT ![submitted + 1] = "queued"]
  /\ UNCHANGED <<jobs, pinned, pc, taken, results, base, table, outcome, ints, probed>>

Submitted ==
  /\ pc = "submit" /\ submitted = Total
  /\ pc' = "collect"
  /\ UNCHANGED <<jobs, pinned, submitted, taken, results, base, table, outcome, ints, poolVars>>

\* fut.result() of a failed run raises, out of the loop and into the pool's exit.
Raise ==
  /\ pc' = "drain" /\ outcome' = "raised"
  /\ UNCHANGED <<results, base>>

Keep(i) == results' = [k \in DOMAIN results \cup {i} |-> IF k = i THEN CoreOf(i) ELSE results[k]]

\* Mutants of Collect: a failed run is passed over; it leaves for the clean-up
\* without the pool's exit.
CollectPassesOver(i) ==
  /\ pc = "collect" /\ i \notin taken /\ run[i] \in Ended
  /\ taken' = taken \cup {i}
  /\ IF i > Warmup /\ run[i] = "ok" THEN Keep(i) ELSE UNCHANGED results
  /\ UNCHANGED <<jobs, pinned, pc, submitted, base, table, outcome, ints, poolVars>>
CollectLeaves(i) ==
  /\ pc = "collect" /\ i \notin taken /\ run[i] \in Ended
  /\ taken' = taken \cup {i}
  /\ IF run[i] = "bad" THEN pc' = "clean" /\ UNCHANGED <<results, base, outcome>>
     ELSE IF i > Warmup THEN Keep(i) /\ UNCHANGED <<pc, base, outcome>>
     ELSE UNCHANGED <<pc, results, base, outcome>>
  /\ UNCHANGED <<jobs, pinned, submitted, table, ints, poolVars>>

\* as_completed yields the runs that have ended, in any order.
Collect(i) ==
  /\ pc = "collect" /\ i \notin taken /\ run[i] \in Ended
  /\ taken' = taken \cup {i}
  /\ IF run[i] = "bad" THEN Raise
     ELSE IF i > Warmup THEN Keep(i) /\ UNCHANGED <<pc, base, outcome>>
     ELSE UNCHANGED <<pc, results, base, outcome>>
  /\ UNCHANGED <<jobs, pinned, submitted, table, ints, poolVars>>

Collected ==
  /\ pc = "collect" /\ taken = Idx
  /\ pc' = "clean"
  /\ UNCHANGED <<jobs, pinned, submitted, taken, results, base, table, outcome, ints, poolVars>>

\* Mutant of Drained: the exit waits for runs that were never submitted.
DrainedAll ==
  /\ pc \in {"drain", "exit"} /\ \A i \in Idx : run[i] \in Ended
  /\ pc' = "over"
  /\ UNCHANGED <<jobs, pinned, submitted, taken, results, base, table, outcome, ints, poolVars>>

\* Leaving the `with` block, or the interpreter, waits for every run submitted;
\* none is cancelled, and the directory stays.
Drained ==
  /\ pc \in {"drain", "exit"} /\ \A i \in 1..submitted : run[i] \in Ended
  /\ pc' = "over"
  /\ UNCHANGED <<jobs, pinned, submitted, taken, results, base, table, outcome, ints, poolVars>>

Clean ==
  /\ pc = "clean"
  /\ base' = "removed" /\ pc' = "table"
  /\ UNCHANGED <<jobs, pinned, submitted, taken, results, table, outcome, ints, poolVars>>

\* The n-th of sorted(results).
Nth(n) == CHOOSE i \in DOMAIN results : Cardinality({k \in DOMAIN results : k <= i}) = n

\* One row per result, in the order of the runs; the n-th row is called run n and
\* the cpu column is put beside it by position.
Write ==
  /\ pc = "table"
  /\ table' = [r \in 1..Cardinality(DOMAIN results) |-> [of |-> Nth(r), cpu |-> results[Nth(r)]]]
  /\ pc' = "over" /\ outcome' = "table"
  /\ UNCHANGED <<jobs, pinned, submitted, taken, results, base, ints, poolVars>>

\* A KeyboardInterrupt in the block leaves it through the pool's exit; one there
\* leaves that, and the interpreter waits for the workers in its stead; one there
\* ends the process at once, whatever still runs.
Interrupt ==
  /\ ints < MaxInterrupts /\ ints' = ints + 1
  /\ \/ pc \in {"submit", "collect"} /\ pc' = "drain" /\ outcome' = "interrupted"
     \/ pc \in {"drain", "clean", "table"} /\ pc' = "exit" /\ outcome' = "interrupted"
     \/ pc = "exit" /\ pc' = "over" /\ outcome' = "abandoned"
  /\ UNCHANGED <<jobs, pinned, submitted, taken, results, base, table, poolVars>>

-----------------------------------------------------------------------------
(* The workers.  They are threads of this process: what their targets do   *)
(* once it has ended is not followed.                                      *)

Becomes(i, st) == run' = [run EXCEPT ![i] = st]

\* An idle worker takes the run that was submitted first.
Begin(i) ==
  /\ pc # "over" /\ run[i] = "queued" /\ \A k \in 1..(i - 1) : run[k] # "queued"
  /\ Cardinality(Busy) < jobs
  /\ Becomes(i, "look")
  /\ UNCHANGED <<jobs, pinned, mainVars, probed>>

\* _probe_capabilities looks for the cache, and fills it a second or so later.
Look(i) ==
  /\ pc # "over" /\ run[i] = "look"
  /\ Becomes(i, IF probed THEN "target" ELSE "probe")
  /\ UNCHANGED <<jobs, pinned, mainVars, probed>>

Probe(i, works) ==
  /\ pc # "over" /\ run[i] = "probe"
  /\ Becomes(i, IF works THEN "target" ELSE "bad")
  /\ probed' = (probed \/ works)
  /\ UNCHANGED <<jobs, pinned, mainVars>>

\* The target has ended; perf stat counted it, or collect() raises.
TargetEnds(i, counted) ==
  /\ pc # "over" /\ run[i] = "target"
  /\ Becomes(i, IF counted THEN "ok" ELSE "bad")
  /\ UNCHANGED <<jobs, pinned, mainVars, probed>>

Main == \/ Submit \/ Submitted \/ Collected \/ Drained \/ Clean \/ Write
        \/ \E i \in Idx : Collect(i)

Worker(i) == \/ Begin(i) \/ Look(i)
             \/ \E works \in BOOLEAN : Probe(i, works)

CycleOver == pc = "over" /\ UNCHANGED cycleVars

CycleNext == \/ Main \/ Interrupt \/ CycleOver
        \/ \E i \in Idx : Worker(i) \/ \E counted \in BOOLEAN : TargetEnds(i, counted)

\* The threads of the process go on; the target is the user's, and nothing here
\* makes it end.
Fairness == WF_cycleVars(Main) /\ \A i \in Idx : WF_cycleVars(Worker(i))

CycleSpec == CycleInit /\ [][CycleNext]_cycleVars /\ Fairness

-----------------------------------------------------------------------------
(* Properties.                                                             *)

CycleTypeOK ==
  /\ jobs \in JobChoices /\ pinned \in BOOLEAN
  /\ pc \in {"submit", "collect", "drain", "exit", "clean", "table", "over"}
  /\ submitted \in 0..Total
  /\ run \in [Idx -> {"none", "queued"} \cup Working \cup Ended]
  /\ taken \subseteq Idx
  /\ DOMAIN results \subseteq Measured
  /\ \A i \in DOMAIN results : results[i] \in 0..(Cores - 1) \cup {NoCore}
  /\ probed \in BOOLEAN /\ base \in {"there", "removed"}
  /\ outcome \in {"none", "table", "raised", "interrupted", "abandoned"}
  /\ ints \in 0..MaxInterrupts

\* A table has exactly one row for every measured run, in their order, each with
\* the core its run was pinned to: the comparison it is fed to never sees a
\* warm-up, a hole, or a failed run.
TableIsTheRuns ==
  outcome = "table" =>
    /\ Len(table) = Runs
    /\ \A r \in 1..Runs : /\ table[r] = [of |-> Warmup + r, cpu |-> CoreOf(Warmup + r)]
                          /\ run[Warmup + r] = "ok"

\* No run works, or waits for a worker, once its directory is removed or the
\* command is over, however it ended: only a SIGINT that cuts short the interpreter's
\* own wait for the workers leaves runs behind, and it takes one before it to get there.
NothingRunsOn ==
  base = "removed" \/ (pc = "over" /\ (outcome = "abandoned" => ints < 2))
    => \A i \in Idx : run[i] \notin Working \cup {"queued"}

\* Two runs share a core only after a run between them has overtaken the earlier
\* one: as long as runs end in their order, each has a core of its own.
SharedOnlyByOvertaking ==
  \A i, j \in Busy : pinned /\ i < j /\ CoreOf(i) = CoreOf(j)
    => \E k \in (i + 1)..(j - 1) : run[k] \in Ended

\* README.md says that the runs are pinned round-robin to distinct physical cores
\* so that they do not contend: each pinned run has a core of its own.
CoreOfItsOwn == \A i, j \in Busy : pinned /\ i # j => CoreOf(i) # CoreOf(j)

\* Unless some target runs for ever, the command ends, whatever run fails and
\* wherever it is interrupted.
CycleEnds == []<>(\A i \in Idx : run[i] # "target") => <>(pc = "over")
=============================================================================
