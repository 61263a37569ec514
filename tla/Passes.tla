-------------------------------- MODULE Passes --------------------------------
(***************************************************************************)
(* A profile taken in separate passes: vperf/collector.py, collect() past  *)
(* the hand-over to _collect_combined, with _memory_plan, _memory_meta and *)
(* _wait_meta.  --no-stat records only, a cycle's run counts only.  Every  *)
(* pass is a perf command of its own over the target - launched again with *)
(* it, or attached again - and one perf refuses is asked again for less.   *)
(***************************************************************************)
EXTENDS Naturals, Sequences, FiniteSets

VARIABLES
  ask,       \* what collect() was asked for, and what this host's perf can do
  pc,        \* where collect() is
  rung,      \* the recording it would ask for next
  gone,      \* history: the perf commands run over the target, with their status
  on,        \* the samplers running
  curve,     \* history: the commands a sampler has run along with
  window,    \* record_launch_t0, record_exit_t0: the first and last command between
  files,     \* the profile directory; 0: not there, n: of the n-th command
  reported,  \* the dumps the ProfileData names, complete
  plan,      \* memory_plan is not None: the recording has the memory events too
  fallback,  \* fallback_memory_plan is not None: a recording had to do without
  wait,      \* what the wait pass came to
  cojoined,  \* memory_cojoined
  meta,      \* meta.json
  outcome    \* how collect() ended

vars == <<ask, pc, rung, gone, on, curve, window, files, reported, plan, fallback, wait, cojoined,
          meta, outcome>>

\* use_stat and use_record together are _collect_combined's; here it is one of them.
Asks == [record : BOOLEAN, memory : BOOLEAN, wait : BOOLEAN, dwarf : BOOLEAN,
         ival   : BOOLEAN,   \* -I
         attach : BOOLEAN,   \* a pid, and not a command
         backed : BOOLEAN,   \* _memory_plan finds IBS, or PEBS and its events
         keep   : BOOLEAN]   \* --keep-perf-data

Raw   == {"perf.data", "perf_wait.data", "perf_mem.data"}
Text  == {"stat", "script", "mem", "wait"}     \* stat.csv, script.txt, mem_report.txt, wait.txt
Files == Raw \cup Text

Samplers == {"freq", "rss"}

\* A command: what it is for, what it asks of perf, and whether it names the target
\* (-p, or the target's command line) or only the sleep an attach waits with.
Command(pass, mem, dwarf, ival) ==
  [pass |-> pass, mem |-> mem, dwarf |-> dwarf, ival |-> ival, target |-> TRUE]

\* The plan is looked for only when memory is wanted: requested_memory_plan.
Requested(a) == a.memory /\ a.backed

Init ==
  /\ ask \in {a \in Asks : (a.record => ~a.ival) /\ (~a.record => ~a.dwarf) /\ (~a.memory => ~a.backed)}
  /\ pc = IF ask.record THEN "start" ELSE "stat"
  /\ rung = Command("record", Requested(ask), ask.dwarf, FALSE)
  /\ gone = <<>> /\ on = {} /\ curve = [s \in Samplers |-> {}] /\ window = <<0, 0>>
  /\ files = [f \in Files |-> 0] /\ reported = {}
  /\ plan = Requested(ask) /\ fallback = FALSE
  /\ wait = IF ask.wait THEN "failed" ELSE "disabled"
  /\ cojoined = FALSE /\ meta = "absent" /\ outcome = "none"

-----------------------------------------------------------------------------
(* perf over the target.                                                   *)

This == Len(gone) + 1

\* run_perf on a recording or counting command.  A command that fails may have
\* opened its output or not; perf's status is also the target's.
Perf(c, ok, out) ==
  /\ gone' = Append(gone, [cmd |-> c, ok |-> ok])
  /\ curve' = [s \in Samplers |-> IF s \in on THEN curve[s] \cup {This} ELSE curve[s]]
  /\ \/ files' = [files EXCEPT ![out] = This]
     \/ ~ok /\ UNCHANGED files

\* Mutant of Stat: the retry keeps -I.
StatSame ==
  /\ pc = "stat"
  /\ \E ok \in BOOLEAN :
       LET ival == ask.ival IN
       /\ Perf(Command("stat", FALSE, FALSE, ival), ok, "stat")
       /\ IF ok \/ ~ival \/ gone # <<>>
          THEN /\ pc' = IF ok THEN "wait" ELSE "over"
               /\ outcome' = IF ok THEN outcome ELSE "refused"
          ELSE UNCHANGED <<pc, outcome>>
  /\ UNCHANGED <<ask, rung, on, window, reported, plan, fallback, wait, cojoined, meta>>

\* perf stat; one that fails with -I is run once more without.
Stat ==
  /\ pc = "stat"
  /\ \E ok \in BOOLEAN :
       LET ival == ask.ival /\ gone = <<>> IN
       /\ Perf(Command("stat", FALSE, FALSE, ival), ok, "stat")
       /\ IF ok \/ ~ival
          THEN /\ pc' = IF ok THEN "wait" ELSE "over"
               /\ outcome' = IF ok THEN outcome ELSE "refused"
          ELSE UNCHANGED <<pc, outcome>>
  /\ UNCHANGED <<ask, rung, on, window, reported, plan, fallback, wait, cojoined, meta>>

\* The samplers start with the first recording; only a pid can be asked its RSS.
\* (The one started before the counting pass never does: its constructor takes no
\* interval_ms, and the TypeError is swallowed.)
StartSamplers ==
  /\ pc = "start" /\ pc' = "record"
  /\ \E rss \in BOOLEAN : on' = {"freq"} \cup (IF rss /\ ask.attach THEN {"rss"} ELSE {})
  /\ window' = <<This, 0>>
  /\ UNCHANGED <<ask, rung, gone, curve, files, reported, plan, fallback, wait, cojoined, meta, outcome>>

\* What is asked after a recording that failed: frame pointers in DWARF's place,
\* then no memory events (in the mode first asked for), then frame pointers.  The
\* arguments of the second are made anew, and -p is not among them.
Weaker(c) ==
  CASE c.dwarf -> {[c EXCEPT !.dwarf = FALSE]}
    [] c.mem /\ ~c.dwarf -> {[c EXCEPT !.mem = FALSE, !.dwarf = ask.dwarf, !.target = ~ask.attach]}
    [] OTHER -> {}

\* Mutant of Record: the samplers run on, into the next passes.
RecordSampled ==
  /\ pc = "record"
  /\ \E ok \in BOOLEAN :
       /\ Perf(rung, ok, "perf.data")
       /\ window' = IF ok THEN <<window[1], This>> ELSE window
       /\ pc' = IF ok THEN "script" ELSE IF Weaker(rung) = {} THEN "over" ELSE "record"
       /\ outcome' = IF ~ok /\ Weaker(rung) = {} THEN "refused" ELSE outcome
       /\ IF ok \/ Weaker(rung) = {} THEN UNCHANGED <<rung, plan, fallback>>
          ELSE /\ rung' \in Weaker(rung)
               /\ plan' = rung'.mem
               /\ fallback' = (fallback \/ (plan /\ ~rung'.mem))
  /\ UNCHANGED <<ask, on, reported, wait, cojoined, meta>>

\* perf record.  The samplers are stopped after the first command, whatever came
\* of it; record_exit_t0 is read after the last.
Record ==
  /\ pc = "record"
  /\ \E ok \in BOOLEAN :
       /\ Perf(rung, ok, "perf.data")
       /\ window' = IF ok THEN <<window[1], This>> ELSE window
       /\ pc' = IF ok THEN "script" ELSE IF Weaker(rung) = {} THEN "over" ELSE "record"
       /\ outcome' = IF ~ok /\ Weaker(rung) = {} THEN "refused" ELSE outcome
       /\ IF ok \/ Weaker(rung) = {} THEN UNCHANGED <<rung, plan, fallback>>
          ELSE /\ rung' \in Weaker(rung)
               /\ plan' = rung'.mem
               /\ fallback' = (fallback \/ (plan /\ ~rung'.mem))
  /\ on' = {}
  /\ UNCHANGED <<ask, reported, wait, cojoined, meta>>

-----------------------------------------------------------------------------
(* The dumps of perf.data, and the wait and memory passes.                 *)

\* A dump of the recording raw into text f: reported if it came off; if not, what
\* perf wrote of it stays.
Dump(raw, f) ==
  /\ files' = [files EXCEPT ![f] = files[raw]]
  /\ reported' \in {reported, reported \cup {f}}

\* perf script, and its output compacted; a dump that fails is a warning.
Script ==
  /\ pc = "script" /\ Dump("perf.data", "script")
  /\ pc' = IF plan THEN "report" ELSE "wait"
  /\ UNCHANGED <<ask, rung, gone, on, curve, window, plan, fallback, wait, cojoined, meta, outcome>>

\* _memory_report of the recording the memory events share with the samples.
Report ==
  /\ pc = "report" /\ Dump("perf.data", "mem")
  /\ cojoined' = ("mem" \in reported')
  /\ pc' = "wait"
  /\ UNCHANGED <<ask, rung, gone, on, curve, window, plan, fallback, wait, meta, outcome>>

\* A pass that records into raw of its own and dumps that into f.
OwnPass(c, raw, f) ==
  \/ Perf(c, FALSE, raw) /\ UNCHANGED reported
  \/ /\ gone' = Append(gone, [cmd |-> c, ok |-> TRUE])
     /\ curve' = [s \in Samplers |-> IF s \in on THEN curve[s] \cup {This} ELSE curve[s]]
     /\ files' = [files EXCEPT ![raw] = This, ![f] = This]
     /\ reported' \in {reported, reported \cup {f}}

Unrun == UNCHANGED <<gone, curve, files, reported>>

\* The scheduler tracepoints, if probe_wait finds them, over one more run.
Wait ==
  /\ pc = "wait" /\ pc' = "memory"
  /\ \/ ~ask.wait /\ Unrun /\ UNCHANGED wait
     \/ ask.wait /\ Unrun /\ wait' = "unavailable"
     \/ /\ ask.wait /\ OwnPass(Command("wait", FALSE, FALSE, FALSE), "perf_wait.data", "wait")
        /\ wait' = IF "wait" \in reported' THEN "enabled" ELSE IF gone'[This].ok THEN "empty" ELSE wait
  /\ UNCHANGED <<ask, rung, on, window, plan, fallback, cojoined, meta, outcome>>

\* memory_pass_plan: what the recording did without, or all of it if none was made.
Owed == fallback \/ (~ask.record /\ Requested(ask))

\* Memory events alone, into a file of their own, and their report.
Memory ==
  /\ pc = "memory" /\ pc' = "retire"
  /\ IF Owed THEN OwnPass(Command("memory", TRUE, ask.dwarf, FALSE), "perf_mem.data", "mem") ELSE Unrun
  /\ UNCHANGED <<ask, rung, on, window, plan, fallback, wait, cojoined, meta, outcome>>

-----------------------------------------------------------------------------
(* The recordings go, the curves and meta.json come.                       *)

\* raw_names: the recordings this call made, or tried to.
Made == (IF ask.record THEN {"perf.data"} ELSE {})
        \cup (IF wait \in {"failed", "empty", "enabled"} THEN {"perf_wait.data"} ELSE {})
        \cup (IF Owed THEN {"perf_mem.data"} ELSE {})

\* The file memory_data_path names: the shared recording's, or the pass's own.
DataFile == IF Owed THEN "perf_mem.data" ELSE IF plan /\ ask.record THEN "perf.data" ELSE "none"

Retire ==
  /\ pc = "retire" /\ pc' = "meta"
  /\ files' = [f \in Files |-> IF ~ask.keep /\ f \in Made THEN 0 ELSE files[f]]
  /\ UNCHANGED <<ask, rung, gone, on, curve, window, reported, plan, fallback, wait, cojoined, meta, outcome>>

\* Mutant of Meta: the shared recording is named whatever the memory report is of.
MetaShared ==
  /\ pc = "meta" /\ pc' = "over"
  /\ meta' = [memory |-> "mem" \in reported, cojoined |-> cojoined,
              data   |-> IF ask.record THEN "perf.data" ELSE DataFile,
              wait   |-> wait = "enabled",
              reason |-> IF wait \in {"enabled", "failed"} THEN "none" ELSE wait]
  /\ outcome' = "report"
  /\ UNCHANGED <<ask, rung, gone, on, curve, window, files, reported, plan, fallback, wait, cojoined>>

\* freq.json and rss.json are written, then meta.json.
Meta ==
  /\ pc = "meta" /\ pc' = "over"
  /\ meta' = [memory |-> "mem" \in reported, cojoined |-> cojoined, data |-> DataFile,
              wait   |-> wait = "enabled",
              reason |-> IF wait \in {"enabled", "failed"} THEN "none" ELSE wait]
  /\ outcome' = "report"
  /\ UNCHANGED <<ask, rung, gone, on, curve, window, files, reported, plan, fallback, wait, cojoined>>

\* A perf that overruns its timeout is a PerfError, nothing here catches one, nor
\* a SIGINT: the samplers are left to the end of the process.
Abort ==
  /\ pc # "over" /\ pc' = "over" /\ outcome' = "raised"
  /\ UNCHANGED <<ask, rung, gone, on, curve, window, files, reported, plan, fallback, wait, cojoined, meta>>

Next == \/ Stat \/ StartSamplers \/ Record \/ Script \/ Report \/ Wait \/ Memory \/ Retire
        \/ Meta \/ Abort
        \/ pc = "over" /\ UNCHANGED vars

Spec == Init /\ [][Next]_vars

-----------------------------------------------------------------------------
(* Properties.                                                             *)

Done    == outcome = "report"
Pass(n) == gone[n].cmd.pass
First   == gone[1]

\* The retries: no command is given perf twice, a pass that succeeded is not run
\* again, and collect() gives up only on the plainest command there is.  (Every
\* command is one more run of the target.)  Memory that was asked for and the host can
\* give is recorded: with the samples, or in a pass of its own when perf would not take
\* both.
LadderDescends ==
  /\ \A i, j \in 1..Len(gone) : i < j => /\ gone[i].cmd # gone[j].cmd
                                         /\ Pass(i) = Pass(j) => ~gone[i].ok
  /\ outcome = "refused" =>
       \E last \in {gone[Len(gone)]} :
          ~last.ok /\ ~last.cmd.mem /\ ~last.cmd.ival /\ ~last.cmd.dwarf
  /\ Done /\ Requested(ask) =>
       \E n \in 1..Len(gone) : gone[n].cmd.mem /\ (gone[n].ok \/ Pass(n) = "memory")

\* What meta.json says is what was done: the memory report is of the recording it
\* names, which is the samples' own exactly when it says co-joined, and was made
\* with memory events; the reason it gives for no wait dump is the true one.
MetaIsTheDirectory ==
  Done => /\ meta.memory => /\ Pass(files["mem"]) = (IF meta.cojoined THEN "record" ELSE "memory")
                            /\ meta.data = (IF meta.cojoined THEN "perf.data" ELSE "perf_mem.data")
                            /\ gone[files["mem"]].ok /\ gone[files["mem"]].cmd.mem
          /\ meta.wait <=> "wait" \in reported
          /\ (\E n \in 1..Len(gone) : Pass(n) = "wait" /\ gone[n].ok)
               <=> meta.wait \/ meta.reason = "empty"

\* The samples, a co-joined memory report and record_exit_t0 are of one recording;
\* so are record_launch_t0 and the curves, if perf took the first command it was given.
OneRecording ==
  Done /\ "script" \in reported =>
    /\ window[2] = files["script"] /\ gone[files["script"]].ok
    /\ meta.cojoined => files["mem"] = files["script"]
    /\ First.ok => /\ window[1] = files["script"]
                   /\ curve["freq"] = {files["script"]} /\ curve["rss"] \subseteq curve["freq"]

\* Every pass is over the target: what is counted and recorded is the pid given.
OverTheTarget == \A n \in 1..Len(gone) : gone[n].cmd.target
=============================================================================
