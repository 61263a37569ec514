# TLA+ models of vperf

vperf profiles a command (`vperf run`), a running process (`vperf attach`) or
many runs of a command (`vperf cycle`) by driving Linux `perf` and turning what
it prints into a report. These modules model what vperf does *around* perf: the
processes it starts, freezes, signals, waits for and kills, the files it
leaves, what an interrupt at any moment does to all of them, and how the dumps
become a report: scheduler events CPU and wait time, samples a profile and a
flame graph, memory rows a tab, sampler readings curves, and the page's script a
view of all that for what the reader picks. TLC checks every
module on small instances; TLAPS proves most of the safety properties for every
value of the constants.

To check a run: `tlc -config MCSession.cfg MCSession.tla`. To check the proofs
of a module: `tlapm SessionProofs.tla`. `PROJECT.json` lists the runs, the
mutants, the theorems, the hazards, the findings, and the source lines each
definition translates.

## 1. The system

| Part | State it keeps | Operations | What is hard about it |
|---|---|---|---|
| **perf child handle** (`perf.py`) | the child, its status, `stop()`'s `interrupted` flag | `start_perf`, `poll`, `wait`, `stop`, `reap`, `join`, `run_perf` | the child ends, hangs or is signalled between any two steps of an escalation |
| **combined session** (`collector.py`, `_collect_combined`, first half) | the target, `target_paused`, `target_ready`, both collectors' handles and start-up statuses, the options still active | freeze, launch, retry with less, resume, monitor, interrupt handler, clean-up | target, two collectors and the user's SIGINT act on their own; every exit path must undo what was done |
| **dumps and profile directory** (`collector.py`, second half; `load_profile`) | the files of the profile directory, two dump children, the memory report kept so far | stat parse, `perf script` beside `perf mem report`, carve, retry ladder, retire, timelines, `meta.json`, replay | two writers, retries that reopen a file, failures that leave half a file, directories used before |
| **wait ledger** (`wait.py`) | a series of accounting points per tid; waits and slices | `parse_wait_script`, `_fold_thread`, `ThreadWait.fold` | lines lost, late or wrong; tids handed out again; a sum that has to come out exactly |
| **cycle** (`cli.py` `cmd_cycle`, `cycle.py`) | a thread pool, futures, results, a temporary directory | submit, collect, drain on failure, pin, tabulate | several workers, failures and interrupts in the middle, directory removed at the end |
| **capability probes** (`doctor.py`, `_probe_capabilities`) | a process-wide cache | look, probe, fill | filled by several workers without a lock |
| **samplers** (`_RssSampler`, `_FreqSampler`) | a list a thread appends to | start, sample, stop | joined with a timeout; the list is handed out all the same |
| **curve placement** (`report_html.py`) | — | clock bias, overlap, anchor, buckets | two clocks that differ by what nobody measured, a thread that starts late |
| **separate-pass collection** (`collect()`) | one pass per tool, each a run of the command | stat, record, wait, memory passes | the passes see different runs of the target; each may be refused and asked for again |
| **perf script reader, profile** (`parsers.py`, `stacks.py`) | the sample being read, the folded counters | a line at a time; `build_profile` | what commits a sample and what drops one; the server's fold and the page's of the same samples |
| **flame graph** (`flamegraph.py`, `_JS`) | — | tree, layout, rows cut off, zoom | a frame told apart by its place in the picture |
| **memory analysis** (`memory.py`, `_JS`) | counters, and the same rows per time slice | parse, ship, add up for a scope and a window | one report counted twice, by two programs |
| **report page** (`_JS`) | scope, window, drag, timer, chart cache, what each view shows | selector, buttons, mouse, redraw timer, resize | redraws that lag, a cache, numbers that are not |
| **macOS backend** (`backends/macos.py`) | `sample(1)` windows, a sampler thread | collect, settle, parse | a target that exits between two steps, an interrupt in the loop |
| **attach driver** (`bench/clickbench_profiles.sh`) | a server, a vperf child, the marker file | wait for the freeze, wait for the recording, interrupt | polls another program's state and a file an earlier run may have left |
| **metrics, timeline, diff, cycle summary, terminal report, benchmark helpers** | — | formulas and layout over tables | — |

How they interact. `cmd_run` and `cmd_attach` call `collect()`, which calls
`_collect_combined`. That starts perf through `PerfProcess` handles: first the
two collectors (`perf stat`, `perf record`) on the frozen target, then, once
they are stopped, the two dump children (`perf script`, `perf mem report`)
reading the `perf.data` the first ones wrote. The script dump is carved into
`script.txt` and `wait.txt`; the latter feeds the wait ledger, the former the
profile. With one of counting and recording switched off, `collect()` goes
through passes of its own instead, one run of the command for each; on macOS
through `collect_macos`. Two sampler threads run beside the recording, and their
readings are placed on perf's clock when the report is made. The report is an
HTML page: the server draws the whole run, the page's script draws it again for
the threads and the window the reader picks. `meta.json` is written last, and `load_profile` (for `vperf report` and `vperf diff`) takes
a directory with a `meta.json` for a profile. `cmd_cycle` runs only the counting
pass, through `run_perf`, from several worker threads at once. Everything shares
a terminal's process group with the perf children: a Ctrl-C reaches all of them.
An outside driver talks to an attach session only by its freeze of the target
(seen in `/proc`), the marker file `recording.started`, and SIGINT.

What makes each part correct, in one line:

- handle: `stop()` and `join()` return, never call an escalated stop clean, and
  leave no live child that has not been sent SIGKILL;
- session: whatever it froze, started or opened it has given back when it is
  over, however it ends; what was recorded is kept;
- dumps: every file has one writer at a time, the recording outlives its
  readers, and the report is made of whole files of this session;
- ledger: CPU plus waits is exactly the span, and an exact dump gives exactly
  what the thread did; every window of it adds up;
- cycle: a table is exactly the measured runs, and nothing runs on;
- passes: no more is asked of perf, and no oftener, than needed, and what
  `meta.json` says of the dumps is true of them;
- curves: a reading is drawn where it was taken, whatever the clocks;
- reader and profile: the samples are those of the dump, and what the page shows
  of a selection is what the server would make of it;
- flame graph: a zoom is a subtree, a frame lies within its caller;
- memory: the tab's numbers for the whole run are the server's, and windows that
  meet add up;
- page: everything shown is of what is picked;
- macOS: the samples are the dumps in order, the CPU time adds up, and the target
  does not outlive its profile.

## 2. The modules

```
PerfProcess ──── Session ──────── SessionPromise   (Session implements it)
     │      └─── Dumps
PerfProcessProofs ── SessionProofs    (with the refinement)
                └─── DumpsProofs      (and of Memory)
Memory
WaitLedger ── WaitWindow   ┐
Cycle                      ┴ LedgerCycleProofs
Passes                     ┐
Macos                      ┴ CollectProofs
Curves                     ┐
Browser                    │
Profile ──┬── Report       ┴ PageProofs
Flame   ──┘   (the dump, the profile, the page's folds of it)
```

`MC<module>` are the modules TLC is run on; their `.cfg` files give the
constants values. `Profile` and `Flame` have no state and are checked through
`Report`, which feeds them. `SumTheorems` and `FoldTheorems` hold the lemmas the
proofs share: the induction over numbers and over the subsets of a finite set,
what a sum over a set comes to, and what the folds of the community modules do,
step by step.

### PerfProcess

The children and the one handle each of them has. `child`, `code` and `sig` are
the operating system's side (running or not, how it ended, the strongest signal
received); `op` is where the handle's `stop()`, `join()` or `reap()` stands;
`interrupted` and `result` are the code's. One action is one blocking call or
signal: `StopPoll`, `StopInt`, `StopWait`, `StopKill` and `StopBlock` are the
steps of `stop()`, `JoinWait`, `ReapSend`, `ReapWait` and `ReapLast` those of
`join()` and `reap()`. The children take `ExitSelf`, `ExitOnInt`, `ExitOnTerm`
and `ExitOnKill` whenever they may. `ProcNext` lets an unrestrained caller
start, stop, join and restart any child in any order, more than the code's
callers do. Time is not counted: a wait with a timeout may time out
whenever the child is still running.

Return codes are kept up to what `stop()` tells apart: 0, the two forms of SIGINT,
death by a stronger signal, and everything else.

### Session and SessionPromise

`_collect_combined` from the target's start to the moment both collectors'
results are read. `pc` names the place in the function; every variable in the
first half of the list is a local or a process of that name. The actions, in the
order of the code: `SpawnTarget`/`SettleTarget` (run mode) or `Look` (attach
mode, any state of the target), `Freeze`, `EnterTry`; `LaunchStat`, `BindStat`,
`SettleStat` and the same for `record` with the ladder `first → bare → cpu →
fp` of options given up; `Cont`, `Mark`; `MonitorSee`/`MonitorEnd`; `Handler`
and `After` (the except branch and the code after the try); `FinRecord` and
`FinStat` (`PerfProcess` stops); `CleanGrace`, `CleanTerm`, `CleanKill`
(`_cleanup_run_target`); `Post`. `Interrupt` may strike at every `pc` and goes
where Python would take it: to the except branch inside the try, out of the
function elsewhere. `hit` records in which region it struck, so that the
properties can say for which interrupts the code promises something: `pre`
(before the try), `bind` (between `Popen` returning and the handle being
assigned, inside the try but out of its handler's reach), `try`, and `late`.
`asked`, `active`, `using` and `refused` are the options asked for, those still
active, those each child was really given, and those of the recordings perf
refused. What reads them past the ladder is the second half of the function:
`MemoryRead` (the memory events are read out and kept from the samples) and `Meta`
(what `meta.json` says), the one from what is active, the other in part from what
was asked for.

`SessionPromise` is the abstract view: a set of things held, taken only while
opening, all given back at the end unless an interrupt was lost outside the
protected region. The refinement maps `Held` to the freeze, the owned target and
the live collectors.

### Dumps

`_collect_combined` past the collectors, to `meta.json`, and `load_profile`. The
state is the profile directory: `files[f]` says whether a file is absent, from
an earlier session, unfinished, whole, or rewritten, and for the memory report
which of four kinds it is. The two dump children are `PerfProcess` children, so a
`join()` that times out goes through the whole of `reap()`. The ladder of sort
keys has `Rungs` attempts; the first is the deferred child, the others
run one at a time (`Retry` is one step of `run_perf`, whose child is joined
before anything else happens). `Abort` is a SIGINT at any point, or an I/O error
at a point that writes; both leave the function with no report.

### WaitLedger and WaitWindow

One thread's life as the scheduler's tracepoints print it, and what
`parse_wait_script` and `_fold_thread` make of the lines. The scheduler is the
environment: `Tick`, `SwitchOut`, `SwitchIn`, `Exit`, `Reborn` print lines that
may be lost, stamped late, or wrong by a little. The code is `AddPoint`, `AddSwitch` (pairing by time),
`Cut` (what is past the exit), `Drop` (neighbours), `Start`, `Visit`, `Gap`,
`Charge`. `trueCpu` and `trueWait` are what really happened, followed as long as
the dump is exact. `WaitWindow` adds `ThreadWait.fold`: the CPU and waits of a
window, in exact fractions of the span.

### Cycle

`cmd_cycle` with its pool: the main thread's `Submit`, `Collect`, drain,
clean-up and table; each worker's `Begin`, `Look`, `Probe` and its target. A run
is its index; the warm-ups come first. `CoreOf` is the pinning. A SIGINT leaves the
loop through the pool's exit (`drain`), one there leaves that and has the
interpreter wait for the workers (`exit`), and one there ends the process with
whatever still runs (`abandoned`): the only way out over running targets, which
`NothingRunsOn` names, and for which the code promises nothing.

### Passes

`collect()` where it does not hand over to `_collect_combined`: either counting or
recording is off, and every pass is a perf command of its own over the target.
`ask` is what was asked for and what the machine offers; `rung` is the recording
that will be asked for next, and `gone` the commands perf was given so far. A
command may fail with its output opened or not. `Stat` and `Record` retry as the
code does; `Script`, `Report`, `Wait` and `Memory` make the dumps; `Retire` and
`Meta` end it; `Abort` is an error or a SIGINT anywhere. A file is known by
the command it is of, so that the properties can ask which recording a report
belongs to.

### Curves

The two sampler threads beside the combined recording, each with a first turn
that may come late (`t0` is read there), readings, and a `stop()` that gives
up waiting; the recording's own stamps; and, once all is `drawn`, the clock of
perf ahead by any of `Offsets`, or behind. `Bias`, `Place`, `Drawn`, `Bucket` are
`_sample_clock_bias`, `_place_curve` and the script's buckets, as functions of
that state; `MaxClockBias` and `FirstSampleSlack` are the cutoff and the slack of
the first. An offset past the cutoff makes two recordings of one, and the first
part of `CurveFollowsTheSamples` says that nothing else does (section 6, 13).

### Browser

The script of the report page as an event loop: every action is one handler,
with all it redraws. A window is a pair of fractions of the run, counted in the
narrowest selection, or `NaN`, with JavaScript's rules for it. `chart`, `line`,
`notes`, `drawn`, `bar`, `flame` are what the page shows; `cache` is the one
curve it keeps; `refreshTimer` is the redraw that lags behind the mouse.

### Profile, Flame, Report

`Report` reads a dump a line at a time as `parse_perf_script` does; the
alternatives of a line are the classes its regular expressions tell apart.
`Profile` is `build_profile` with the rows `_sample_payload` ships, and the
page's folds of them for a scope and a window. A sample is taken at its own time;
`Period` gives the weights of the samples in their order, in the run powers of
two, so that a sum says which samples are in it.
`Flame` is the tree, the layout, what is cut off, and the page's zoom, which
knows a frame by its x and its row alone. Its offsets are whole samples and compared
exactly (section 7).

### Memory

`parse_mem_report` row by row; each row is counted into the server's profile,
into its thread's, and into `detail`, the rows shipped to the page. `RenderMemory`
is the tab's sum for a scope and a window by the overlap of slices with it
(a slice counts in parts of `Whole`, which every width of a clipped slice divides,
so that shares are whole numbers), `MemChart` the timeline.

### Macos

`collect_macos`: the loop of `sample` windows or the single one of an attach,
the `finally`, the stop of the sampler and the files; `_MacSampler`'s thread;
the target, that may exit at any moment; and a clock. `ParseSample` is
`parse_sample` over a call graph given as indented lines: `GraphLine` folds them with
a stack, as the code does, and `KeepLeaf` keeps the nodes without a child. What a
sample should be is said without a stack (`IsOf`): a line calls another if it is less
indented than all from there on, a sample belongs to every line of a thread that
calls none, and its frames are the lines that call it.

## 3. What the runs check

| Run | Bounds | Shows |
|---|---|---|
| `perf_process` | two children, restarted freely | a clean result is a clean end (`NoCleanEscalation`), `join` leaks nothing (`JoinNeverLeaks`), the calls return (`HandleReturns`) |
| `session` | both modes, three option sets, two SIGINTs | the target thaws, collectors and target are gone, the ladder never doubles a collector, a recording that is reported is read as what it is and lacks only what perf refused, the owned target outlives its measuring, somebody else's freeze and a flushed recording are kept, `SessionPromise`, and the session ends |
| `dumps` | five-rung ladder cut to three, both kinds of directory | one writer, `perf.data` retired unread, the report whole, the ladder's best kept, a clean profile replays as reported, and the dumping ends |
| `wait_ledger` | five ticks, four points, one faulty point, lag and skew of one | the ledger balances, slices partition the span, an exact dump is the truth, windows add up |
| `cycle` | one warm-up, three runs, 1–3 jobs, two cores, two SIGINTs | the table is the runs, nothing runs on unless a second SIGINT cuts the interpreter's wait short, cores are shared only after an overtaking, the command ends |
| `passes` | no bound: every call, every answer of perf | the retries descend and end on the plainest command, owed memory is recorded, `meta.json` is the directory, samples, window, curves and co-joined report are of one recording |
| `passes_target` | as above | **violated**: an attach whose recording is refused may profile its own `sleep` (section 6) |
| `curves` | four moments, clocks together, two apart either way and past the cutoff either way, three buckets | a curve is where its readings were taken, and one recording is taken for two only past the cutoff; a list handed out grows by one reading at most |
| `browser` | three steps of run, a thread, two groups, one without waits | the page shows what is picked |
| `report` | five lines of five headers and four frames | the samples are the dump's, the page's folds are the server's for every scope and window, a zoom is the tree |
| `memory` | three rows of sixteen, two sections, slices of two in a window of four | the tab counts the report, its chart stacks the same, windows add up |
| `macos` | four moments, three readings, two call graphs | the script is the dumps, the CPU time adds up, the target is ended |

Why the bounds are enough. The handles of two children share nothing, so two
show every interleaving a property about one of them can meet. The
session has exactly two collectors and one target; two SIGINTs give the one in
the try and the one in its handler, and a third finds nothing new because the
handler's own code is left by the second. The three option sets walk all
of the ladder's branches: nothing to give up, one thing, and everything. Three
rungs are a first, a middle and a last one; the theorems
hold for any number. In the ledger, four points are enough for a lead, a wait, a
skew, an exit and a successor, and for a window to cut each of them; balance
and partition are proved without a bound. Three runs over two cores are the
smallest cycle in which the pinning wraps; the proof has no bound. `Passes` needs
none: its retries are finitely many. In four moments a sampler can start late,
miss the window at either end, and read after the stop; the theorems about curves
have no bound. An offset of nine is past the cutoff of five whatever perf's time to
finish, one of two never is. Three steps give a window room to be moved and to meet either
end of the run, and with one thread and two groups a scope can change under a
pending redraw; `PageShowsWhatIsPicked` has no bound. Five lines are two samples
with three frames between them, one with four, or a skipped event between two
others; a deeper stack than the three frames and rows kept is among them. Three
rows are
two that fold into one and one that does not, in one slice or two, in two
sections. In `macos` two windows of two moments fit, the second cut short by the
target, the deadline or an interrupt; a call graph has two leaves under one caller,
two threads, one of them ended by the next, and a frame before the first, which is
in none; `ScriptHoldsTheDumps` has no bound.

Every property of a passing run has a mutant in `PROJECT.json`: one definition
of the model changed the way a slip in the code would change it, under which
TLC finds the property violated.

The type invariants are not run: each is part of the invariant proved of its
module.

### Counterexamples beside the runs

A sentence of the documentation or of a comment that the code does not keep is a
finding, and where the model can show it there is a configuration for it:
`tlc -config MCSessionCtrlC.cfg MCSession.tla`, for one, ends with a
counterexample to its property. They are no part of the runs.

| Configuration | Module | Property it refutes |
|---|---|---|
| `MCSessionCtrlC` | `MCSession` | `CtrlCKeepsRecording` |
| `MCSessionReport` | `MCSession` | `ReportOnceCollecting` |
| `MCSessionOwned` | `MCSession` | `InterruptKillsOwnedTarget` |
| `MCSessionMeta` | `MCSession` | `MetaNamesTheCallGraph`, and with `-continue` `MetaNamesTheIntervals` |
| `MCDumpsReplay` | `MCDumps` | `ReplayIsTheReport` |
| `MCDumpsRetire` | `MCDumps` | `EarlierRecordingKept` |
| `MCWaitExit` | `MCWaitLedger` | `OnCpuIsNeverWait` |
| `MCCycleCores` | `MCCycle` | `CoreOfItsOwn` |
| `MCCurvesBlank` | `MCCurves` | `BlankWhereUnmeasured` |
| `MCBrowserPan` | `MCBrowser` | `PanMovesTheWindow` |
| `MCReportRows` | `MCReport` | `CutRowsAreItsOwn`, and with `-continue` `NoTransientRoot` |
| `MCMemoryOne` | `MCMemory` | `OneSliceIsTheReport`, and with `-continue` `EmptySlicesAreEmpty` |

### Fairness

- **vperf's own threads** (`WF(Thread)`, `WF(Main)`, `WF(Worker(i))`, the handle
  steps): they are ordinary threads that the system schedules, and all their
  waits but three have a timeout. The three that do not (`stop()`'s last wait,
  the last wait of `_cleanup_run_target`, the pool's shutdown, in the block or by
  the interpreter) are enabled only once what they wait for has happened, so
  fairness does not assume it.
- **SIGKILL** (`ExitOnKill`, `TargetKilled`, `CollectorKilled`): the kernel
  delivers it.
- Nothing else is fair: not the target, not perf reacting to SIGINT or SIGTERM,
  not the user. `SessionEnds` is therefore stated for attach mode, and for run
  mode once the target is dead; `CycleEnds` for cycles no target of which runs
  for ever. The other modules have no liveness to check: folds over finite
  lists, an event loop that owes nobody a step, and passes each of which is one
  bounded command after another.

Deadlock is checked where the system may not stop: in `perf_process`, `session`,
`dumps`, `wait_ledger`, `cycle`, `passes` and `report`, whose finished states
stutter. `curves`, `browser`, `memory` and `macos` may stop: their clock, their
readings or their rows are bounded, or nobody need move the mouse.

## 4. What is proved

For every value of the constants, from the named assumptions of the modules
alone, all evaluated by TLC on every run (`ProcsAssumption`, `SessionAssumption`,
`DumpsAssumption`, `LedgerAssumption`, `CycleAssumption`, `CurveConstants`,
`BrowserConstants`, `ProfileConstants`, `FlameConstants`, `ReportConstants`,
`MemoryConstants`, `MacosConstants`; `Passes` has no constants). They say that
bounds are numbers, that the processes are those of the code, and that `None` is
none of the values it stands beside. `MacosConstants` also says that a dump is a
sequence of lines, each with its indentation. `MemoryConstants` also asks `Whole` to be
divided by every width a clipped slice can have, as twelve is by those of a window
of four: the unit in which the model counts what the page counts in fractions.

| Module | Of | Invariant | Theorems |
|---|---|---|---|
| `PerfProcessProofs` | `PerfProcess` | `ProcInv` | `ProcTypeCorrect`, `CleanMeansClean`, `NothingLeaks`, `StopMeansGone`, `SignalsInOrder` |
| `SessionProofs` | `Session` | `SessionInv` | `SessionTypeCorrect`, `FreezeAlwaysLifted`, `CollectorsAccounted`, `OwnedTargetAccounted`, `OneCollectorOfAKind`, `SessionResultsClean` |
| | | and `PlanInv`, `OthersInv`, `KeptInv`, `KillInv` | `RecordingIsAsPlanned`, `OthersFreezeUntouched`, `FlushedIsKept`, `TargetOutlivesMeasuring` |
| | | (uses `SessionInv`) | `SessionKeepsPromise`, the refinement |
| `DumpsProofs` | `Dumps` | `DumpInv` | `DumpTypeCorrect`, `OneWriterAtATime`, `RecordingOutlivesReaders`, `ReportsAreWhole`, `LadderLosesNothing`, `CleanReplays` |
| | `Memory` | `MemInv` | `TabIsServer` |
| `LedgerCycleProofs` | `WaitLedger` | `LedgerInv` | `LedgerTypeCorrect`, `LedgerBalances`, `WaitsPartitionSpan` |
| | | and `TrueInv` | `LedgerTellsTheTruth` |
| | `WaitWindow` | (uses `LedgerInv`) | `WindowsAddUp`, `WindowsCutAnywhereAdd` |
| | `Cycle` | `CycleInv`, `TableInv` | `CycleTypeCorrect`, `QuietAtTheEnd`, `SharedCoreNeedsOvertaking`, `TableHoldsTheRuns` |
| `CollectProofs` | `Passes` | `PassesInv` | `PassesTypeCorrect`, `LadderAlwaysDescends`, `MetaIsTrue`, `ProfileIsOfOneRecording` |
| | `Macos` | `MacosInv` | `MacosTypeCorrect`, `TargetAlwaysEnded`, `CpuTimeAddsUp` |
| | | and `ScriptInv` | `ScriptHoldsTheDumps` |
| `PageProofs` | `Curves` | `CurvesInv` | `CurvesTypeCorrect`, `OneReadingAtMost`, `CurvesAreTrue` |
| | `Browser` | `BrowserInv` | `BrowserTypeCorrect`, `PageShowsWhatIsPicked` |
| | `Report` | `ReportInv` | `ReportTypeCorrect`, `SamplesAreOfTheDump` |
| | `Flame` | — | `ZoomFollowsTheTree`, and of the reports `ZoomsFollowTheTree` |
| | `Profile` | (uses `ReportType`) | `PageIsServer`, `NothingIsRenamed` |

`LedgerTellsTheTruth` has a hypothesis besides, `Paired`: the switch's line is no
further from the runtime's than the window in which `_add_switch` pairs them
(`wait.py:79-82`). Beyond it the code takes the two for different moments, and
the ledger is not the truth; the run has lags on the near side only.

Why each invariant is what it is:

- **`ProcInv`** ties the signal a live child has received to the place its handle
  has reached (`LiveSig`). Without it a clean result could not be told from
  one that an escalation produced: the property speaks of the end, the reason
  lies in the order of the steps.
- **`SessionInv`** adds to it where a freeze may exist (`FreezeInv`: only between
  the SIGSTOP and the SIGCONT, and always with `paused` set), who holds a live
  collector (`HeldInv`: a bound handle or the one step before binding), where no
  collector has been started yet (`RelaunchInv`), and which parts of the
  function can be running with which history (`PlaceInv`). "Nothing is left at
  the end" follows because each of these names who will undo what.
- **`DumpInv`** follows each child from its start to the join that settles it
  (`ChildrenInv`), each reported part's file (`PartsInv`), the ladder's two
  memories against each other (`LadderInv`: the report kept is exactly the best
  one perf has offered) and, in a new directory, what is *not* reported
  (`FreshInv`).
- **`LedgerInv`** states the balance up to the point visited last (`Account`) and
  that the points still to come lie at or after it and inside the span
  (`Ahead`): the sort, and the cut at the exit, are what make that so.
- **`CycleInv`** counts: at most `jobs` runs are busy (`Room`), in the order of
  their submission (`Fifo`). Two runs on one core are at least `Cores` apart
  (`SameCore`), so if none between them had ended, more than `Cores` would be
  busy. The cardinality facts come from `FiniteSetTheorems`. `Past` says what has
  ended by the main thread's place, and that being `abandoned` takes two SIGINTs.

- The four beside **`SessionInv`** each say what one property needs of the steps
  before it: `PlanInv` that a recording whose handle is held was started with what
  is still active, or has failed in a way `stop()` cannot mend (`UsingInv`,
  `Doomed`), that every set of options refused has all that is still active in it
  (`RefusedInv`) and that whatever is not was refused (`DroppedInv`); `OthersInv` that
  somebody else's freeze is of a target this session has not stopped; `KeptInv`
  that nobody but a terminal signals a child before `stop()` does, and that its
  flag is up while it waits; `KillInv` where the owned target may be signalled
  (not while a collector measures it, unless it is dead or an interrupt cost a
  handle).
- **`PassesInv`** gives each command of the history its pass and each pass its
  place (`HistoryInv`); a recording's weight, memory events before DWARF, falls
  with each refusal, so none is asked for twice. `MemoryInv` says that wanted
  memory is in the recording or owed, `RecordingInv` which command the files,
  the window and the curves are of, `DumpsInv` the same of the dumps reported.
- **`CurvesInv`** is little (`LateInv`, `OriginInv`, and `StampsInv`, the order
  of the stamps, whatever integer the offset is); the theorem is about arithmetic: `BiasIs` and `PlaceIs` give the
  value of what the code computes, `AnchoredLeavesOut` that a curve is anchored
  only when a reading falls out of the run, `BucketIsTheWindow` the rounding.
- **`BrowserInv`** needs two things beside the property: that the cache never
  holds a curve under another's key (`CacheInv`), and that every window a
  drag can make of numbers and `NaN` is one (`SelectionIsWindow`).
- **`TrueInv`** follows the exact dump into the reading (`TrueRead`: the points are
  the thread's own, in order) and through the fold (`TrueFold`: what is charged
  so far is what the thread did up to the point visited last).
- **`TableInv`** says that each result is of the run it is filed under, and that none
  is missing once all are taken (`SortedRuns`: sorted, they are in their order).
- **`MacosInv`**: the readings rise with the thread's clock (`ClockInv`, `RisingInv`), so
  the peak is the last one and every interval counts; `StatInv` says which
  readings the total and the intervals are of, `EndedInv` where the target may
  still run.
- **`ScriptInv`** has three parts. `IsGraph`, along the lines of a dump: the stack lists
  the lines that are open (`Open`), the nodes are those of the threads' lines, each with
  what is open at it, and the calls are those among them; so a leaf of the parser is a
  line that calls none, and the rank of a line among the leaves is the place of its
  sample (`ParsedTells`). `ScriptIs`, along the windows: the samples up to a window
  are as many as its predecessors have leaves. `RunInv`: a window that came has
  taken its whole time before the next begins, unless the target has ended, and then
  none begins; so the times rise wherever a window has a step for each leaf. An attach
  has one window, drawn out over the time asked for (`Share`).
- **`ReportInv`** holds the sample in hand against the last header of the dump, and the
  samples done against the headers before it (`InHand`); a line read changes
  nothing that was said of earlier lines (`Frozen`).
- **The flame graph** has no state, and its theorem is about every fold of chains: a
  frame begins where its siblings before it end (`BeginsAre`), so its subtree is
  what lies within its width (`Nested`, `SpansItsTree`), and two frames of a row
  lie apart (`Beside`). `ZoomsFollowTheTree` adds that what the page folds of a
  report is such a fold.
- **`PageIsServer`** runs the page's folds and the server's side by side. A row is its
  sample by index (`Fit`, `PageIs`), so a window of the rows is the window of the
  samples (`WithinBoth`), and every table of the page is the server's table by index
  after every row (`Agree`, `AgreeStep`). What the server does after its loop must
  then do nothing to the numbers, and it does not: `NothingIsRenamed` shows that the
  renaming of threads at the end of `build_profile` never finds a name to
  replace, because the loop already keeps the last name that is not transient
  (finding 16).

- **`TabIsServer`**: `MemInv` says that the rows kept by slice are the rows folded, all
  of them and each thread's (`ToldInv`, a sum over the rows for every counter). The
  server's numbers and the page's are then sums over the same rows by other keys
  (`SumFibres`): by thread in `HtmlIs`, by slice in `ChartIsTheReport`. A slice in the
  window counts whole and two windows that meet share it out (`SliceCounts`); for
  the latter it does not matter which rows the cap leaves out, only that there
  are as many as it asks for (`HeaviestExist`).

How the folds are reasoned about. A fold over a sequence or a set is a recursive
function chosen by its equation, which no prover expands by itself. `FoldTheorems`
takes the step as a constant operator, proves that the recursive function exists
(`FoldExists`, as a union of finite approximations) and that a fold has runs
(`LeftRuns`: a value after each prefix, each by one step from the one before); an
instance of the module with the step of `build_profile`, `foldWindow`, `parse_sample`
and so on
gives a proof the runs of that fold, and `NumberInduction` (the least number
outside a set) or `SubsetInduction` takes an invariant along them. So what these
folds compute is proved for every input without an induction theorem over an
operator.

Only model-checked:

- liveness (`HandleReturns`, `SessionEnds`, `DumpsEnd`, `CycleEnds`): fairness
  and ENABLED are out of the prover's reach. Every safety invariant and action
  property of a run has its theorem.

No module declares a RECURSIVE operator.

## 5. Hazards

`PROJECT.json` lists them with their lines and the properties that watch over
them. Those without a property say why: some the code leaves open (nothing is
promised, so nothing can be checked), the others wait for a module of the plan.

## 6. Where the code and its words part

Each is a finding in `PROJECT.json`, with the sentence it contradicts. Those TLC
has a counterexample for name its configuration.

The session, the dumps, the ledger and the cycle:

1. A Ctrl-C at a terminal reaches `perf record` too. If it has ended before
   `stop()` polls it, its −2 is taken for a failure and the partial recording,
   which the comment promises to keep, is thrown away (`MCSessionCtrlC`).
2. An interrupt after the try and before the collectors are stopped leaves an
   attach session without the report `cli.py` promises (`MCSessionReport`).
3. One interrupt in the start-up grace, before the try, leaves the owned target
   behind (`MCSessionOwned`).
4. A dump that failed leaves a file, and a replay shows a part the session did
   not report (`MCDumpsReplay`).
5. A session that recorded nothing retires an earlier session's `perf.data`,
   which the comment in `_retire_raw` says survives (`MCDumpsRetire`).
6. A thread that exits while it runs has its last burst charged as a wait
   (`MCWaitExit`).
7. Pinning by the run's index puts two runs on a core once one has overtaken
   another (`MCCycleCores`).
8. A thread of the target that never leaves its core is dropped as a neighbour;
   the window of a thread with a single accounting point misses its CPU; a
   cycle's workers probe the machine once each, not "once per process"; after the
   ladder has stepped down, `meta.json` names the call graph that was asked for, and
   intervals a `perf stat` that runs has not been given (`MCSessionMeta`).

The separate passes and the samplers:

9. An attach whose recording perf refuses for its memory events is retried
   without `-p`: the report is about the `sleep` that stands in for a target (the
   run `passes_target`).
10. `_FreqSampler` is defined twice, and the second takes no `interval_ms`: the
    counting pass never has a frequency.
11. After a refused recording and a retry, the curves are of the run that was
    thrown away; after a memory pass of its own, the slices lie outside the
    CPU samples' window; an empty wait pass does have a reason.
12. `vperf run` exits with the command's status only if the combined session ran.

The report:

13. Buckets that nothing was measured in are 0 and not blank
    (`MCCurvesBlank`); the message for readings that miss the window is
    named by a variable that does not exist; a measured placement is described as
    not applied; two curves on one clock may be placed by different rules; one
    recording's clocks may be more than a day apart, after a suspension that
    perf's leaves out, and are then taken for those of two.
14. A drag inside the selection sets it to NaN (`MCBrowserPan`); a selection
    with no wait to split leaves the bar of the one before; a resize redraws one
    of two charts; the hotspots' CPU time is the whole run's for any selection.
15. The last row of a flame graph does not partition its width, and a row cut
    off is charged to a frame it is not under (`MCReportRows`).
16. A thread renamed by its exec keeps `perf-exec` as the root of its earlier
    chains (`MCReportRows`): the renaming meant for it has never anything to
    rename, whatever the samples (`NothingIsRenamed` in `PageProofs`).
17. A memory report of one slice counts nothing over the whole run, and an
    empty slice between two far ones is drawn as part of the first
    (`MCMemoryOne`).

macOS:

18. Samples that end in an inner frame are in no stack; a dump of more than a
    thousand leaves runs past the next one's beginning; an interrupt ends
    without a report.

## 7. Not modelled, and why

- **The attach driver** (`clickbench_profiles.sh`): a script beside the program;
  what it may expect of an attach session is what `SessionPromise` says.
- **Metrics, timeline, cycle statistics, diff**: formulas, each of which a
  definition would only repeat, with nothing to check it against. The **terminal
  report** and the drawing of the page are layout of numbers the modules have.
- **The capability probes**: one run of perf each and a verdict on its status.
  `Cycle` has the race on their cache; elsewhere what they found is a choice.
- The text of everything: argument lists, event names, the grammar of the
  dumps, warnings, perf stat's CSV. A line is of one of the classes the regular
  expressions tell apart, a dump is whole, partial or empty.
- The samplers composed with the whole session: `Curves` has the part of it they
  run beside. `Dumps` takes "has a timeline" as a choice.
- `ps`'s resident set on macOS, read and saved beside the CPU time; `macos_doctor`.
- The delay bands of the ledger and the dTLB columns of the memory tab, which are
  folded as the counters beside them are.
- A second session on the same target or directory at the same time. `Session`
  has one, and nobody else stops the target between the look and the SIGSTOP.
- What children do once vperf has left the function: an orphan stays an orphan, and
  so does a cycle's target once a second SIGINT has cut short the interpreter's wait
  for the workers.
- The skip of rectangles of at most 0.01 px (`flamegraph.py:180`, and the page's
  copy), the rounding of x to decimals and the `FLAME_EPS` that allows for it:
  `Flame` has exact offsets, so the zoom is checked for frames that are drawn and
  wider than that.
- A call graph with a frame indented no deeper than its thread, which would pop the
  root and raise an IndexError in `parse_sample` (`macos.py:221`): `sample` indents
  frames below their thread, and `Macos` counts indentation from there.
- Download and build scripts: nothing in them is stateful.

## 8. What is left

In the order of what matters most:

1. **The driver's handshake** (freeze seen in `/proc`, `recording.started`,
   SIGINT, its timeouts) composed with an abstract session (`SessionPromise`
   widened by the freeze and the marker), and two sessions on one pid.
2. **`Session` with the samplers in it**, so that an interrupt finds them too, and
   one chain from `Session` through `Dumps` to `Report`.
3. **perf stat's CSV**: interval rows merged, `not counted` values, the ratios and
   when they are `n/a`; checked against a reference definition.
4. **Proofs** of what those modules will promise; of those there are, only liveness
   has none.
