-------------------------------- MODULE Curves --------------------------------
(***************************************************************************)
(* The RSS and frequency curves.  vperf/collector.py: _RssSampler and      *)
(* _FreqSampler, threads beside the recording of _collect_combined, and    *)
(* the clock it stamps.  vperf/report_html.py: _sample_clock_bias and      *)
(* _place_curve, which put the readings on perf's clock, and the buckets   *)
(* and words the browser draws of them.                                    *)
(*                                                                         *)
(* Time is ticks of the samplers' clock; perf prints `off' ticks more, or  *)
(* fewer.  A reading is known by the tick it was taken at.                 *)
(***************************************************************************)
EXTENDS Integers, FiniteSets, FiniteSetsExt

CONSTANTS Ticks,    \* bound: how long a session takes
          Offsets,  \* how far perf's clock may be ahead, or behind when negative
  MaxClockBias,     \* _MAX_CLOCK_BIAS_S
  FirstSampleSlack, \* _FIRST_SAMPLE_SLACK_S
          NBuckets, \* NBUCKETS
          None      \* Python's None, JavaScript's NaN

ASSUME CurveConstants == /\ Ticks \in Nat /\ Offsets \subseteq Int /\ NBuckets \in Nat \ {0}
                         /\ MaxClockBias \in Nat /\ FirstSampleSlack \in Nat
                         /\ None \notin Int

VARIABLES
  now,
  pc,       \* where _collect_combined is
  thread,   \* the samplers' threads
  told,     \* the samplers whose stop event is set
  t0,       \* a sampler's origin
  series,   \* the readings it has appended
  late,     \* history: those appended after the event was set
  first, last,   \* the first and the last sample
  launch, exit,  \* record_launch_t0, record_exit_t0
  off       \* perf's clock less the samplers', for the report to find out

curvesVars == <<now, pc, thread, told, t0, series, late, first, last, launch, exit, off>>

Samplers == {"freq", "rss"}
All(v)   == [s \in Samplers |-> v]

CurvesInit ==
  /\ now = 0 /\ pc = "start"
  /\ thread = All("none") /\ told = {} /\ t0 = All(None) /\ series = All({}) /\ late = All(0)
  /\ first = None /\ last = None /\ launch = None /\ exit = None /\ off = None

-----------------------------------------------------------------------------
(* The session.                                                            *)

threads == <<thread, told, t0, series, late>>
stamps  == <<first, last, launch, exit, off>>

Tick == now < Ticks /\ pc \notin {"start", "drawn"} /\ now' = now + 1 /\ UNCHANGED <<pc, threads, stamps>>

\* start() of those asked for that could be built; perf record is up already.
StartSamplers ==
  /\ pc = "start" /\ pc' = "launch"
  /\ \E asked \in SUBSET Samplers : thread' = [s \in Samplers |-> IF s \in asked THEN "new" ELSE "none"]
  /\ UNCHANGED <<now, told, t0, series, late, stamps>>

\* record_launch_t0; the target is continued right after.
Launch ==
  /\ pc = "launch" /\ pc' = "record" /\ launch' = now
  /\ UNCHANGED <<now, threads, first, last, exit, off>>

\* perf takes a sample.  The target is frozen until Launch.
Sample ==
  /\ pc = "record" /\ last' = now /\ first' = IF first = None THEN now ELSE first
  /\ UNCHANGED <<now, pc, threads, launch, exit, off>>

\* The monitor returns and the record collector is told to finish: no more samples,
\* but perf has its data to write.
Interrupt == pc = "record" /\ pc' = "flush" /\ UNCHANGED <<now, threads, stamps>>

\* _finish_collector has returned: record_exit_t0.
Exit ==
  /\ pc = "flush" /\ pc' = "stop" /\ exit' = now
  /\ UNCHANGED <<now, threads, first, last, launch, off>>

\* stop(): the event, then a join that gives up after two seconds: the next step may
\* come at any time.
Stop(s) ==
  /\ pc = "stop" /\ s \notin told /\ (s = "rss" => "freq" \in told)
  /\ told' = told \cup {s}
  /\ UNCHANGED <<now, pc, thread, t0, series, late, stamps>>

\* freq.json, rss.json, the origins in meta.json: what a thread appends from here on
\* is in neither.
Save ==
  /\ pc = "stop" /\ told = Samplers /\ pc' = "drawn" /\ off' \in Offsets
  /\ now' = 0 /\ thread' = All("none")
  /\ UNCHANGED <<told, t0, series, late, first, last, launch, exit>>

-----------------------------------------------------------------------------
(* A sampler's thread: _run.                                               *)

Begin(s) ==
  /\ pc # "drawn" /\ thread[s] = "new"
  /\ thread' = [thread EXCEPT ![s] = "loop"] /\ t0' = [t0 EXCEPT ![s] = now]
  /\ UNCHANGED <<now, pc, told, series, late, stamps>>

\* Mutant of Loop: the event is not asked for.
LoopOn(s) ==
  /\ pc # "drawn" /\ thread[s] = "loop" /\ now \notin series[s]
  /\ thread' = [thread EXCEPT ![s] = "read"]
  /\ UNCHANGED <<now, pc, told, t0, series, late, stamps>>

\* The loop asks for the event, before every reading; the interval between two is a
\* tick, which the event cuts short.
Loop(s) ==
  /\ pc # "drawn" /\ thread[s] = "loop" /\ (s \in told \/ now \notin series[s])
  /\ thread' = [thread EXCEPT ![s] = IF s \in told THEN "ended" ELSE "read"]
  /\ UNCHANGED <<now, pc, told, t0, series, late, stamps>>

\* A target that has gone gives no reading.
Read(s) ==
  /\ pc # "drawn" /\ thread[s] = "read" /\ thread' = [thread EXCEPT ![s] = "loop"]
  /\ \/ /\ series' = [series EXCEPT ![s] = @ \cup {now}]
        /\ late' = [late EXCEPT ![s] = IF s \in told THEN @ + 1 ELSE @]
     \/ s = "rss" /\ pc \notin {"start", "launch"} /\ UNCHANGED <<series, late>>
  /\ UNCHANGED <<now, pc, told, t0, stamps>>

CurvesNext ==
  \/ Tick \/ StartSamplers \/ Launch \/ Sample \/ Interrupt \/ Exit \/ Save
  \/ \E s \in Samplers : Stop(s) \/ Begin(s) \/ Loop(s) \/ Read(s)

CurvesSpec == CurvesInit /\ [][CurvesNext]_curvesVars

-----------------------------------------------------------------------------
(* The report of what was saved: where each curve goes.                    *)

T0   == first + off       \* the samples' times, as perf prints them
TEnd == last + off
Span == TEnd - T0         \* TSPAN

\* Mutant of Bias: the first sample against the launch.
BiasOfTheFirst == IF launch = None \/ exit = None THEN None ELSE T0 - launch

\* _sample_clock_bias: the last sample against the exit, checked by what a clock may
\* be wrong by at all, and by the first sample against the launch.
Bias ==
  IF launch = None \/ exit = None \/ exit <= launch THEN None
  ELSE LET bias == TEnd - exit IN
       IF bias > MaxClockBias \/ -bias > MaxClockBias THEN None
       ELSE IF (T0 - launch) - bias < -FirstSampleSlack THEN None ELSE bias

Readings(s) == {x - t0[s] : x \in series[s]}

\* _series_overlap: the readings an origin puts on the sample window.
Overlap(s, origin) == {x \in Readings(s) : T0 <= origin + x /\ origin + x <= TEnd}

\* _place_curve: the offset measured, or the first reading on the first sample,
\* whichever puts more of the readings on the window.
Place(s) ==
  LET raw == t0[s] IN
  IF raw = None \/ Bias = None THEN [kind |-> "recorded", origin |-> raw]
  ELSE IF Cardinality(Overlap(s, T0)) > Cardinality(Overlap(s, raw + Bias))
       THEN [kind |-> "anchored", origin |-> T0]
       ELSE [kind |-> "measured", origin |-> raw + Bias]

Kinds == {Place(s).kind : s \in Samplers}

\* Where the reading of tick x is drawn, on perf's clock.
Drawn(s, x) == Place(s).origin + (x - t0[s])
CurveOf(s)    == IF t0[s] = None THEN {} ELSE series[s]

-----------------------------------------------------------------------------
(* The charts: freqSvg, rssBuckets and rssSvg.                             *)

\* The readings the frequency lines run through.
FreqPlotted == {x \in CurveOf("freq") : Drawn("freq", x) \in T0..TEnd}

Bucket(t) == IF Span = 0 THEN (IF t = T0 THEN 0 ELSE NBuckets)
             ELSE ((t - T0) * NBuckets) \div Span

Held == 0..(NBuckets - 1)

\* counts: the buckets a reading falls into; one outside the window is left out.
Filled == {Bucket(Drawn("rss", x)) : x \in CurveOf("rss")} \cap Held

\* What a bucket shows: 0 as the Float64Array had it, a reading of its own, or the
\* one before it.  (Values are not modelled: a reading is known by its bucket.)
RssBucket(i) ==
  IF Filled = {} \/ i < Min(Filled) \/ i > Max(Filled) THEN "zero"
  ELSE IF i \in Filled THEN "measured" ELSE "held"

\* lo and hi of rssSvg: the part of the chart that is not NaN.
Plotted == {i \in Held : RssBucket(i) # None}

-----------------------------------------------------------------------------
(* Properties.                                                             *)

Calibrated == pc = "drawn" /\ first # None
Both       == {"freq", "rss"} \subseteq {s \in Samplers : t0[s] # None}

\* A recording whose samples lie between its two stamps is taken for two only when
\* the clocks are further apart than the cutoff, perf's time to finish included.  A
\* curve placed by the measured offset is never late: a reading is drawn on the
\* sample of its own moment, or earlier by the time perf took to finish after its
\* last sample.  Anchoring wins only where the measurement leaves readings out, and
\* two curves placed by one rule keep the moments they share together, and show the
\* same of them, but for the very end of the window.
CurveFollowsTheSamples ==
  Calibrated =>
    /\ \/ Bias # None \/ exit <= launch
       \/ off > MaxClockBias \/ (exit - last) - off > MaxClockBias
    /\ \A s \in Samplers, x \in 0..Ticks :
         x \in CurveOf(s) /\ Place(s).kind = "measured"
           => Drawn(s, x) - (x + off) = last - exit /\ last <= exit
    /\ \A s \in Samplers : Place(s).kind = "anchored"
         => \E x \in CurveOf(s) : ~ (x + Bias \in T0..TEnd)
    /\ Both /\ Kinds \in {{"measured"}, {"recorded"}}
         => \A x \in CurveOf("freq") \cap CurveOf("rss") :
              /\ Drawn("freq", x) = Drawn("rss", x)
              /\ Span > 0 => (Bucket(Drawn("rss", x)) \in Held <=> x \in FreqPlotted /\ Drawn("rss", x) # TEnd)

\* stop() hands out a list its thread may still append to: one reading at most, the
\* one it was taking.
OneLateReading == \A s \in Samplers : late[s] <= 1

\* "Those buckets stay NaN and the chart leaves them blank."
BlankWhereUnmeasured ==
  Calibrated /\ Span > 0 /\ CurveOf("rss") # {} =>
    \A i \in Plotted : \E a, b \in Filled : a <= i /\ i <= b
=============================================================================
