-------------------------------- MODULE Dumps --------------------------------
(***************************************************************************)
(* What a session makes of its recording: vperf/collector.py, the part of  *)
(* _collect_combined past _finish_collector, with _memory_report,          *)
(* _wait_artifact, _compact_script_file, _compact_mem_report, _retire_raw  *)
(* and _write_meta, and load_profile, which reads the directory back.      *)
(*                                                                         *)
(* Two perf children read perf.data at once, each writing a file of its    *)
(* own (script.txt, mem_report.txt) that vperf rewrites when it has joined *)
(* it; a file is named by its child.  Only the children's deferred starts  *)
(* are processes here: a retry of the memory report is a subprocess.run,   *)
(* which kills what it leaves early, and is one step.                      *)
(***************************************************************************)
EXTENDS PerfProcess

CONSTANT Rungs          \* how many times _memory_report may try (5 in the code)

ASSUME DumpsAssumption == Procs = {"script", "mem"} /\ Rungs \in Nat \ {0}

VARIABLES
  session,      \* what the session got so far; it does not change
  pc,           \* where the vperf thread is
  files,        \* the profile directory
  attempt,      \* the rung of the memory report's ladder
  best,         \* last_report_text: is there a report without threads to fall back on
  reported,     \* the parts the ProfileData returned to the caller has
  outcome,      \* how _collect_combined ended
  loaded,       \* the parts load_profile found
  offered       \* history: the kinds of memory report with samples perf has given

dumpVars == <<session, pc, files, attempt, best, reported, outcome, loaded, offered>>
vars     == <<procVars, dumpVars>>

Timelines == {"freq", "rss"}
Files     == {"data", "stat", "script", "wait", "mem", "meta"} \cup Timelines

\* A memory report perf ended well on: no samples or (an argument refused) nothing
\* in it at all, samples without threads, or all that was asked for.
Reports == {"empty", "bare", "full"}
Samples == {"bare", "full"}

\* Of an earlier session, unfinished, with nothing in it (wait.txt only), as
\* perf or vperf meant it, and script.txt once carved or compacted.
Content == {"absent", "old", "part", "blank", "whole", "cut"} \cup Reports

Pc == {"stat", "startScript", "startMem", "joinScript", "carve", "found", "joinMem", "retry",
       "settle", "compact", "retire", "freq", "rss", "meta", "over", "replayed"}

\* What else the session was asked for (wait events, samplers, --keep-perf-data)
\* is read in one place each, and chosen there.
Sessions == [recordOk : BOOLEAN,   \* record_ok: a recording to dump
             memory   : BOOLEAN,   \* active_memory_plan is not None
             reused   : BOOLEAN]   \* -o names an earlier profile's directory

DumpTypeOK ==
  /\ ProcTypeOK
  /\ session \in Sessions
  /\ pc \in Pc
  /\ files \in [Files -> Content]
  /\ attempt \in 0..Rungs
  /\ best \in BOOLEAN
  /\ reported \in SUBSET Files
  /\ loaded \in SUBSET Files
  /\ outcome \in {"none", "report", "raised"}
  /\ offered \in SUBSET Samples

Before == IF session.reused THEN "old" ELSE "absent"

\* The collectors are gone.  A perf that failed may have stopped before or after
\* it opened its output.
Init ==
  /\ ProcInit
  /\ session \in Sessions
  /\ \E data \in IF session.recordOk THEN {"whole"} ELSE {Before, "part"},
        stat \in {Before, "part", "whole"} :
       files = [f \in Files |-> IF f = "data" THEN data ELSE IF f = "stat" THEN stat ELSE Before]
  /\ pc = "stat"
  /\ attempt = 0 /\ best = FALSE /\ offered = {}
  /\ reported = {} /\ loaded = {}
  /\ outcome = "none"

-----------------------------------------------------------------------------
(* The children.                                                           *)

Output(p) == IF p = "mem" THEN Reports ELSE {"whole"}

\* A dump that ends of itself with status 0 is complete; one that fails, or is
\* cut short by a signal, is not, whatever its status.  SIGKILL writes no more.
\* (What a child does once the function is left is not followed.)
DumpEnds(p) ==
  /\ pc \notin {"over", "replayed"}
  /\ \/ sig[p] # "KILL" /\ Exit(p, "ok") /\ \E c \in Output(p) : files' = [files EXCEPT ![p] = c]
     \/ (Exit(p, "error") \/ ExitOnInt(p) \/ ExitOnTerm(p)) /\ UNCHANGED files
  /\ UNCHANGED <<session, pc, attempt, best, reported, outcome, loaded, offered>>

-----------------------------------------------------------------------------
(* perf stat's file, and the two starts.                                   *)

\* A file perf stat opened and never filled parses to no thread.
Parses == files["stat"] \in {"old", "whole"}

ReadStat ==
  /\ pc = "stat"
  /\ reported' = IF Parses THEN {"stat"} ELSE {}
  /\ pc' = "startScript"
  /\ UNCHANGED <<procVars, session, files, attempt, best, outcome, loaded, offered>>

WantMem == session.recordOk /\ session.memory

\* run_perf(..., stdout_file, defer=True): the file is truncated, the child runs.
Start(p) == Spawn(p) /\ files' = [files EXCEPT ![p] = "part"]

StartScript ==
  /\ pc = "startScript"
  /\ IF session.recordOk THEN Start("script") ELSE UNCHANGED <<procVars, files>>
  /\ pc' = "startMem"
  /\ UNCHANGED <<session, attempt, best, reported, outcome, loaded, offered>>

StartMem ==
  /\ pc = "startMem"
  /\ IF WantMem THEN Start("mem") ELSE UNCHANGED <<procVars, files>>
  /\ pc' = IF session.recordOk THEN "joinScript" ELSE "retire"
  /\ UNCHANGED <<session, attempt, best, reported, outcome, loaded, offered>>

-----------------------------------------------------------------------------
(* script.txt: joined, then rewritten in place.                            *)

AfterScript == IF WantMem THEN "joinMem" ELSE "retire"

\* Mutant of JoinScript: a failed dump goes straight to the end.
JoinScriptGivesUp ==
  /\ pc = "joinScript"
  /\ \/ JoinStep("script") /\ UNCHANGED <<pc, reported>>
     \/ /\ op["script"] = "done"
        /\ pc' = IF result["script"] = "ok" THEN "carve" ELSE "retire"
        /\ reported' = IF result["script"] = "ok" THEN reported \cup {"script"} ELSE reported
        /\ UNCHANGED procVars
  /\ UNCHANGED <<session, files, attempt, best, outcome, loaded, offered>>

\* A dump that failed or overran is a warning, and its file stays where it is.
JoinScript ==
  /\ pc = "joinScript"
  /\ \/ JoinStep("script") /\ UNCHANGED <<pc, reported>>
     \/ /\ op["script"] = "done"
        /\ pc' = IF result["script"] = "ok" THEN "carve" ELSE AfterScript
        /\ reported' = IF result["script"] = "ok" THEN reported \cup {"script"} ELSE reported
        /\ UNCHANGED procVars
  /\ UNCHANGED <<session, files, attempt, best, outcome, loaded, offered>>

\* Through a file beside it and os.replace: script.txt is never half rewritten.
\* wait.txt is opened in place, whether or not a wait sample turns up.
Carve ==
  /\ pc = "carve"
  /\ \/ \E c \in {"whole", "blank"} :                       \* wait events were asked for
          files' = [files EXCEPT !["script"] = "cut", !["wait"] = c] /\ pc' = "found"
     \/ files' = [files EXCEPT !["script"] = "cut"] /\ pc' = AfterScript
  /\ UNCHANGED <<procVars, session, attempt, best, reported, outcome, loaded, offered>>

\* Mutant of Found: an empty wait.txt is left behind.
FoundLeaves ==
  /\ pc = "found"
  /\ reported' = IF files["wait"] = "blank" THEN reported ELSE reported \cup {"wait"}
  /\ pc' = AfterScript
  /\ UNCHANGED <<procVars, session, files, attempt, best, outcome, loaded, offered>>

\* A wait.txt no sample went to is removed.
Found ==
  /\ pc = "found"
  /\ IF files["wait"] = "blank"
     THEN files' = [files EXCEPT !["wait"] = "absent"] /\ UNCHANGED reported
     ELSE reported' = reported \cup {"wait"} /\ UNCHANGED files
  /\ pc' = AfterScript
  /\ UNCHANGED <<procVars, session, attempt, best, outcome, loaded, offered>>

-----------------------------------------------------------------------------
(* mem_report.txt: a ladder of sort keys, each attempt reopening the file. *)

\* Mutant of Judge: the ladder's last rung comes round again.
JudgeStuck(r) ==
  /\ best' = CASE r = "full" -> FALSE [] r = "bare" -> TRUE [] OTHER -> best
  /\ offered' = offered \cup ({r} \cap Samples)
  /\ IF r = "full" THEN pc' = "compact" /\ reported' = reported \cup {"mem"} /\ attempt' = 0
     ELSE pc' = "retry" /\ attempt' = (attempt + 1) % Rungs /\ UNCHANGED reported

\* Mutant of Judge: a report without threads is not kept for later.
JudgeForgets(r) ==
  /\ UNCHANGED best
  /\ offered' = offered \cup ({r} \cap Samples)
  /\ IF r = "full" THEN pc' = "compact" /\ reported' = reported \cup {"mem"} /\ attempt' = 0
     ELSE /\ attempt' = attempt + 1
          /\ pc' = IF attempt + 1 < Rungs THEN "retry" ELSE "settle"
          /\ UNCHANGED reported

\* What the loop makes of an attempt: of "failed", or of the report it left.
Judge(r) ==
  /\ best' = CASE r = "full" -> FALSE [] r = "bare" -> TRUE [] OTHER -> best
  /\ offered' = offered \cup ({r} \cap Samples)
  /\ IF r = "full" THEN pc' = "compact" /\ reported' = reported \cup {"mem"} /\ attempt' = 0
     ELSE /\ attempt' = attempt + 1
          /\ pc' = IF attempt + 1 < Rungs THEN "retry" ELSE "settle"
          /\ UNCHANGED reported

\* The first attempt is the deferred child's.  An attempt also counts as failed
\* when perf ended well and the report cannot be read.
JoinMem ==
  /\ pc = "joinMem"
  /\ \/ JoinStep("mem") /\ UNCHANGED <<pc, attempt, best, reported, offered>>
     \/ /\ op["mem"] = "done"
        /\ \E r \in Reports \cup {"failed"} :
             /\ r # "failed" => result["mem"] = "ok" /\ r = files["mem"]
             /\ Judge(r)
        /\ UNCHANGED procVars
  /\ UNCHANGED <<session, files, outcome, loaded>>

Retry ==
  /\ pc = "retry"
  /\ \E r \in Reports \cup {"failed"}, c \in Reports \cup {"part"} :
       /\ r # "failed" => r = c
       /\ Judge(r) /\ files' = [files EXCEPT !["mem"] = c]
  /\ UNCHANGED <<procVars, session, outcome, loaded>>

\* Mutant of Settle: the text kept is not written back.
SettleNoWrite ==
  /\ pc = "settle"
  /\ IF best THEN reported' = reported \cup {"mem"} /\ pc' = "compact"
     ELSE pc' = "retire" /\ UNCHANGED reported
  /\ UNCHANGED <<procVars, session, files, attempt, best, outcome, loaded, offered>>

\* The ladder is over: a report without threads is better than none, and goes
\* back over whatever later attempts have left in the file.
Settle ==
  /\ pc = "settle"
  /\ IF best THEN /\ files' = [files EXCEPT !["mem"] = "bare"]
                  /\ reported' = reported \cup {"mem"} /\ pc' = "compact"
     ELSE pc' = "retire" /\ UNCHANGED <<files, reported>>
  /\ attempt' = 0 /\ best' = FALSE                \* read nowhere any more
  /\ UNCHANGED <<procVars, session, outcome, loaded, offered>>

\* _compact_mem_report: rewritten through os.replace, to the same cells.
Compact ==
  /\ pc = "compact"
  /\ pc' = "retire"
  /\ UNCHANGED <<procVars, session, files, attempt, best, reported, outcome, loaded, offered>>

-----------------------------------------------------------------------------
(* The recording goes, the timelines and meta.json come.                   *)

Retire ==
  /\ pc = "retire"
  /\ \E keep \in BOOLEAN :
       files' = IF keep THEN files ELSE [files EXCEPT !["data"] = "absent"]
  /\ pc' = "freq"
  /\ UNCHANGED <<procVars, session, attempt, best, reported, outcome, loaded, offered>>

\* A sampler's timeline, if it has one.
Write(f, next) ==
  /\ pc = f
  /\ \/ files' = [files EXCEPT ![f] = "whole"] /\ reported' = reported \cup {f}
     \/ UNCHANGED <<files, reported>>
  /\ pc' = next
  /\ UNCHANGED <<procVars, session, attempt, best, outcome, loaded, offered>>

WriteFreq == Write("freq", "rss")
WriteRss  == Write("rss", "meta")

WriteMeta ==
  /\ pc = "meta"
  /\ files' = [files EXCEPT !["meta"] = "whole"]
  /\ pc' = "over" /\ outcome' = "report"
  /\ UNCHANGED <<procVars, session, attempt, best, reported, loaded, offered>>

-----------------------------------------------------------------------------
(* A SIGINT anywhere, or an I/O error where a file is written, leaves the  *)
(* function at once; nothing here catches either.  What was being written  *)
(* in place stays as it is.                                                *)

Writing == CASE pc = "startScript" /\ session.recordOk -> "script"
             [] pc = "startMem" /\ WantMem             -> "mem"
             [] pc = "carve"                           -> "wait"
             [] pc = "retry"                           -> "mem"
             [] pc = "settle" /\ best                  -> "mem"
             [] pc \in {"freq", "rss", "meta"}         -> pc
             [] OTHER                                  -> "none"

Abort ==
  /\ pc \notin {"over", "replayed"}
  /\ pc' = "over" /\ outcome' = "raised" /\ reported' = {}
  /\ \/ UNCHANGED files
     \/ Writing # "none" /\ files' = [files EXCEPT ![Writing] = "part"]
  /\ attempt' = 0 /\ best' = FALSE /\ offered' = {}
  /\ UNCHANGED <<procVars, session, loaded>>

\* load_profile: no profile without a meta.json that parses; past it, a part is
\* there if its file is.
Replay ==
  /\ pc = "over" /\ files["meta"] \in {"old", "whole"}
  /\ loaded' = {f \in Files \ {"data", "meta", "stat"} : files[f] # "absent"}
               \cup (IF Parses THEN {"stat"} ELSE {})
  /\ pc' = "replayed"
  /\ UNCHANGED <<procVars, session, files, attempt, best, reported, outcome, offered>>

Thread ==
  \/ ReadStat \/ StartScript \/ StartMem \/ JoinScript \/ Carve \/ Found
  \/ JoinMem \/ Retry \/ Settle \/ Compact
  \/ Retire \/ WriteFreq \/ WriteRss \/ WriteMeta

Over == pc \in {"over", "replayed"} /\ UNCHANGED vars

Next == Thread \/ Abort \/ Replay \/ Over \/ \E p \in Procs : DumpEnds(p)

\* The vperf thread runs and its timeouts strike; perf is not bound to end.
Spec == Init /\ [][Next]_vars /\ WF_vars(Thread)

-----------------------------------------------------------------------------
(* Properties.                                                             *)

Quiet(p) == child[p] # "running" \/ sig[p] = "KILL"

\* vperf reads and rewrites a dump only when no perf child can still be writing
\* it, and hands out none that can still change.
OneWriter ==
  /\ pc \in {"carve", "found"} => Quiet("script")
  /\ pc \in {"retry", "settle", "compact"} => Quiet("mem")
  /\ outcome = "report" => \A p \in Procs : Quiet(p)

\* perf.data is removed once nothing reads it any more.
RetiredUnread == pc \in {"retire", "freq", "rss", "meta"} => \A p \in Procs : Quiet(p)

WholeOf(f) == CASE f = "script" -> {"cut"} [] f = "mem" -> {"bare", "full"} [] OTHER -> {"whole"}

\* Once meta.json is there, every dump the report is made from is this session's,
\* complete, and in the form the parsers expect, and stays so.  (stat_threads.csv,
\* which perf stat writes, is read whoever wrote it.)
ReportIsWhole ==
  outcome = "report" => \A f \in reported \ {"stat"} : files[f] \in WholeOf(f)

\* The ladder loses nothing: a memory report with samples any attempt gave is
\* reported, and one with threads wins over one without.
LadderKeepsBest ==
  outcome = "report" => /\ "mem" \in reported <=> offered # {}
                        /\ "full" \in offered => files["mem"] = "full"

Fresh == pc = "replayed" /\ outcome = "report" /\ ~session.reused

\* vperf report on a new profile whose dumps all came off shows what the session
\* itself reported, no more and no less.
ReplayOfAClean ==
  Fresh /\ (session.recordOk => "script" \in reported) /\ (WantMem => "mem" \in reported)
    => loaded = reported

\* The same of any new profile: the text artifacts in the directory are the report.
ReplayIsTheReport == Fresh => loaded = reported

\* A perf.data an earlier run left in the directory is not removed by this one.
EarlierRecordingKept == [][files["data"] = "old" => files'["data"] = "old"]_vars

\* However its children behave, the dumping ends.
DumpsEnd == pc = "stat" ~> pc \in {"over", "replayed"}
=============================================================================
