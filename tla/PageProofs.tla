------------------------------ MODULE PageProofs ------------------------------
(***************************************************************************)
(* What holds of the report page: of the curves it draws, for any number   *)
(* of ticks, any offset of the two clocks and any number of buckets; and   *)
(* of what it shows, for every set of threads, every length of run and     *)
(* every way of working it.                                                *)
(***************************************************************************)
EXTENDS Curves, Browser, Report, SumTheorems, FiniteSetTheorems, SequenceTheorems, TLAPS

-----------------------------------------------------------------------------
(* The curves: Curves.                                                     *)

CurvesType ==
  /\ now \in 0..Ticks
  /\ pc \in {"start", "launch", "record", "flush", "stop", "drawn"}
  /\ thread \in [Samplers -> {"none", "new", "loop", "read", "ended"}]
  /\ told \in SUBSET Samplers
  /\ t0 \in [Samplers -> Nat \cup {None}]
  /\ series \in [Samplers -> SUBSET (0..Ticks)]
  /\ late \in [Samplers -> Nat]
  /\ first \in Nat \cup {None} /\ last \in Nat \cup {None}
  /\ launch \in Nat \cup {None} /\ exit \in Nat \cup {None}
  /\ off \in Int \cup {None}

\* A thread told to stop finishes the reading it is at, and takes no other.
LateInv ==
  \A s \in Samplers : /\ late[s] <= 1
                      /\ s \notin told \/ thread[s] = "read" => late[s] = 0

\* A reading has an origin: the thread sets it before its first.
OriginInv ==
  \A s \in Samplers : series[s] # {} \/ thread[s] \in {"loop", "read"} => t0[s] # None

\* The samples lie between the stamps, which are taken in this order.
StampsInv ==
  /\ pc \in {"start", "launch"} => first = None
  /\ pc \notin {"start", "launch"} => launch # None /\ (pc # "drawn" => launch <= now)
  /\ first = None <=> last = None
  /\ first # None => launch <= first /\ first <= last /\ (pc # "drawn" => last <= now)
  /\ pc \in {"stop", "drawn"} => exit # None /\ (last # None => last <= exit)
  /\ pc = "drawn" => off # None

CurvesInv == CurvesType /\ LateInv /\ OriginInv /\ StampsInv

-----------------------------------------------------------------------------
LEMMA InitCurves == CurvesInit => CurvesInv
  BY CurveConstants DEF CurvesInit, CurvesInv, CurvesType, LateInv, OriginInv, StampsInv, All

LEMMA NextCurves == CurvesInv /\ [CurvesNext]_curvesVars => CurvesInv'
<1> SUFFICES ASSUME CurvesInv, [CurvesNext]_curvesVars PROVE CurvesInv'
  OBVIOUS
<1> USE CurveConstants DEF CurvesInv, CurvesType, LateInv, OriginInv, StampsInv, threads, stamps
<1>1. CASE Tick
  BY <1>1 DEF Tick
<1>2. CASE StartSamplers
  BY <1>2 DEF StartSamplers
<1>3. CASE Launch
  BY <1>3 DEF Launch
<1>4. CASE Sample
  BY <1>4 DEF Sample
<1>5. CASE Interrupt
  BY <1>5 DEF Interrupt
<1>6. CASE Exit
  BY <1>6 DEF Exit
<1>7. CASE Save
  BY <1>7 DEF Save, All
<1>8. ASSUME NEW s \in Samplers, Stop(s) PROVE CurvesInv'
  BY <1>8 DEF Stop
<1>9. ASSUME NEW s \in Samplers, Begin(s) PROVE CurvesInv'
  BY <1>9 DEF Begin
<1>10. ASSUME NEW s \in Samplers, Loop(s) PROVE CurvesInv'
  BY <1>10 DEF Loop
<1>11. ASSUME NEW s \in Samplers, Read(s) PROVE CurvesInv'
  BY <1>11 DEF Read
<1>12. CASE UNCHANGED curvesVars
  BY <1>12 DEF curvesVars
<1> QED
  BY <1>1, <1>2, <1>3, <1>4, <1>5, <1>6, <1>7, <1>8, <1>9, <1>10, <1>11, <1>12 DEF CurvesNext

LEMMA CurvesInvariant == CurvesSpec => []CurvesInv
  BY InitCurves, NextCurves, PTL DEF CurvesSpec

\* The variables of the sampler threads and of the report hold what they should.
THEOREM CurvesTypeCorrect == CurvesSpec => []CurvesType
<1>1. CurvesInv => CurvesType
  BY DEF CurvesInv
<1> QED
  BY <1>1, CurvesInvariant, PTL

\* stop() gives up on a thread after two seconds; whatever the thread does, the list
\* gains one reading more at most.
THEOREM OneReadingAtMost == CurvesSpec => []OneLateReading
<1>1. CurvesInv => OneLateReading
  BY DEF CurvesInv, LateInv, OneLateReading
<1> QED
  BY <1>1, CurvesInvariant, PTL

-----------------------------------------------------------------------------
(* The report.                                                             *)

\* The samples lie between the stamps, so the measurement stands unless it is past the
\* cutoff, and is the clocks' difference less the time perf took to finish.
LEMMA BiasIs ==
  ASSUME CurvesInv, Calibrated
  PROVE  /\ first \in Nat /\ last \in Nat /\ launch \in Nat /\ exit \in Nat /\ off \in Int
         /\ first <= last /\ last <= exit
         /\ Bias = IF \/ exit <= launch
                      \/ (last + off) - exit > MaxClockBias \/ -((last + off) - exit) > MaxClockBias
                   THEN None ELSE (last + off) - exit
<1>1. /\ first \in Nat /\ last \in Nat /\ launch \in Nat /\ exit \in Nat /\ off \in Int
      /\ launch <= first /\ first <= last /\ last <= exit
  BY CurveConstants DEF CurvesInv, CurvesType, StampsInv, Calibrated
<1>2. launch # None /\ exit # None
  BY <1>1, CurveConstants
<1>3. ~ ((T0 - launch) - (TEnd - exit) < -FirstSampleSlack)
  BY <1>1, CurveConstants DEF T0, TEnd
<1> QED
  BY <1>1, <1>2, <1>3 DEF Bias, TEnd

\* Which placement, and what of it.
LEMMA PlaceIs ==
  ASSUME NEW s \in Samplers, CurvesInv, Calibrated
  PROVE  /\ Place(s).kind \in {"recorded", "anchored", "measured"}
         /\ Place(s).kind = "recorded" => Place(s).origin = t0[s]
         /\ Place(s).kind = "measured" => /\ t0[s] # None /\ Bias # None
                                          /\ Place(s).origin = t0[s] + Bias
         /\ Place(s).kind = "anchored" =>
              /\ t0[s] # None /\ Bias # None
              /\ Cardinality(Overlap(s, T0)) > Cardinality(Overlap(s, t0[s] + Bias))
  BY DEF Place

LEMMA ReadingsFinite ==
  ASSUME NEW s \in Samplers, CurvesInv, t0[s] # None
  PROVE  IsFiniteSet(Readings(s)) /\ Readings(s) \subseteq Int /\ t0[s] \in Nat
         /\ series[s] \subseteq Nat /\ CurveOf(s) = series[s]
<1>1. t0[s] \in Nat /\ series[s] \subseteq 0..Ticks
  BY CurveConstants DEF CurvesInv, CurvesType
<1>2. Readings(s) \subseteq (-t0[s])..(Ticks - t0[s])
  BY <1>1, CurveConstants DEF Readings
<1>3. IsFiniteSet((-t0[s])..(Ticks - t0[s]))
  BY <1>1, CurveConstants, FS_Interval
<1>4. IsFiniteSet(Readings(s))
  BY <1>2, <1>3, FS_Subset
<1> QED
  BY <1>1, <1>2, <1>4 DEF CurveOf

\* More readings on the window by one placement than by another: the other leaves
\* one out.
LEMMA AnchoredLeavesOut ==
  ASSUME NEW s \in Samplers, CurvesInv, Calibrated, Place(s).kind = "anchored"
  PROVE  \E x \in CurveOf(s) : ~ (x + Bias \in T0..TEnd)
<1>1. /\ t0[s] # None /\ Bias # None
      /\ Cardinality(Overlap(s, T0)) > Cardinality(Overlap(s, t0[s] + Bias))
  BY PlaceIs
<1>2. /\ IsFiniteSet(Readings(s)) /\ Readings(s) \subseteq Int /\ t0[s] \in Nat
      /\ series[s] \subseteq Nat /\ CurveOf(s) = series[s]
  BY <1>1, ReadingsFinite
<1>3. T0 \in Int /\ TEnd \in Int /\ Bias \in Int
  BY <1>1, BiasIs DEF T0, TEnd
<1> SUFFICES ASSUME \A x \in CurveOf(s) : x + Bias \in T0..TEnd PROVE FALSE
  OBVIOUS
<1>4. Overlap(s, t0[s] + Bias) = Readings(s)
  <2> SUFFICES ASSUME NEW x \in series[s]
               PROVE  T0 <= t0[s] + Bias + (x - t0[s]) /\ t0[s] + Bias + (x - t0[s]) <= TEnd
    BY DEF Overlap, Readings
  <2>1. x + Bias \in T0..TEnd /\ x \in Nat
    BY <1>2
  <2> QED BY <2>1, <1>2, <1>3
<1>5. Overlap(s, T0) \subseteq Readings(s)
  BY DEF Overlap
<1>6. Cardinality(Overlap(s, T0)) <= Cardinality(Readings(s))
  BY <1>2, <1>5, FS_Subset
<1>7. Cardinality(Readings(s)) \in Nat /\ Cardinality(Overlap(s, T0)) \in Nat
  BY <1>2, <1>5, FS_Subset, FS_CardinalityType
<1> QED
  BY <1>1, <1>4, <1>6, <1>7

\* A bucket of the chart is a moment of the window, its end apart.
LEMMA BucketIsTheWindow ==
  ASSUME NEW a \in Int, NEW n \in Nat \ {0}, NEW w \in Nat \ {0}
  PROVE  (a * n) \div w \in 0..(n - 1) <=> 0 <= a /\ a < w
<1> DEFINE q == (a * n) \div w
<1>1. q \in Int /\ w * q <= a * n /\ a * n < w * q + w
  <2>1. a * n \in Int
    OBVIOUS
  <2> QED BY <2>1
<1> HIDE DEF q
<1>2. ASSUME 0 <= a, a < w PROVE q \in 0..(n - 1)
  <2>1. 0 <= a * n /\ a * n < w * n
    BY <1>2
  <2>2. 0 <= q
    <3> SUFFICES ASSUME q <= -1 PROVE FALSE
      BY <1>1
    <3>1. w * q <= -w
      BY <1>1
    <3> QED BY <3>1, <2>1, <1>1
  <2>3. q < n
    <3> SUFFICES ASSUME n <= q PROVE FALSE
      BY <1>1
    <3>1. w * n <= w * q
      BY <1>1
    <3> QED BY <3>1, <2>1, <1>1
  <2> QED BY <2>2, <2>3, <1>1
<1>3. ASSUME q \in 0..(n - 1) PROVE 0 <= a /\ a < w
  <2>1. 0 <= a
    <3> SUFFICES ASSUME a <= -1 PROVE FALSE
      OBVIOUS
    <3>1. a * n < 0
      OBVIOUS
    <3>2. 0 <= w * q
      BY <1>3
    <3> QED BY <3>1, <3>2, <1>1
  <2>2. a < w
    <3> SUFFICES ASSUME w <= a PROVE FALSE
      OBVIOUS
    <3>1. w * n <= a * n
      OBVIOUS
    <3>2. w * q <= w * (n - 1) /\ w * (n - 1) = w * n - w
      BY <1>3
    <3> QED BY <3>1, <3>2, <1>1
  <2> QED BY <2>1, <2>2
<1> QED
  BY <1>2, <1>3 DEF q

LEMMA Follows ==
  ASSUME CurvesInv, Calibrated PROVE CurveFollowsTheSamples
<1>0. /\ first \in Nat /\ last \in Nat /\ launch \in Nat /\ exit \in Nat /\ off \in Int
      /\ first <= last /\ last <= exit /\ (Bias # None => Bias = (last + off) - exit)
  BY BiasIs
<1>1. \/ Bias # None \/ exit <= launch
      \/ off > MaxClockBias \/ (exit - last) - off > MaxClockBias
  <2>1. SUFFICES ASSUME Bias = None, exit > launch
                 PROVE  off > MaxClockBias \/ (exit - last) - off > MaxClockBias
    BY <1>0
  <2>2. (last + off) - exit > MaxClockBias \/ -((last + off) - exit) > MaxClockBias
    BY <2>1, <1>0, BiasIs, CurveConstants
  <2> QED BY <2>2, <1>0, CurveConstants
<1>2. ASSUME NEW s \in Samplers, NEW x \in 0..Ticks, x \in CurveOf(s), Place(s).kind = "measured"
      PROVE  Drawn(s, x) - (x + off) = last - exit /\ last <= exit
  <2>1. t0[s] # None /\ Bias # None /\ Place(s).origin = t0[s] + Bias
    BY <1>2, PlaceIs
  <2>2. t0[s] \in Nat
    BY <2>1, ReadingsFinite
  <2>3. Bias = (last + off) - exit
    BY <1>0, <2>1
  <2>4. x \in Nat
    BY CurveConstants
  <2> QED BY <1>0, <2>1, <2>2, <2>3, <2>4 DEF Drawn
<1>3. ASSUME NEW s \in Samplers, Place(s).kind = "anchored"
      PROVE  \E x \in CurveOf(s) : ~ (x + Bias \in T0..TEnd)
  BY <1>3, AnchoredLeavesOut
<1>4. ASSUME Both, Kinds \in {{"measured"}, {"recorded"}},
             NEW x \in CurveOf("freq") \cap CurveOf("rss")
      PROVE  /\ Drawn("freq", x) = Drawn("rss", x)
             /\ Span > 0 => (Bucket(Drawn("rss", x)) \in Held
                             <=> x \in FreqPlotted /\ Drawn("rss", x) # TEnd)
  <2>1. "freq" \in Samplers /\ "rss" \in Samplers
    BY DEF Samplers
  <2>2. t0["freq"] # None /\ t0["rss"] # None
    BY <1>4 DEF Both
  <2>3. t0["freq"] \in Nat /\ t0["rss"] \in Nat /\ x \in Nat
    BY <2>1, <2>2, <1>4, ReadingsFinite
  <2>4. Place("freq").kind = Place("rss").kind /\ Place("rss").kind \in {"measured", "recorded"}
    BY <1>4, <2>1 DEF Kinds
  <2>5. Drawn("freq", x) = Drawn("rss", x) /\ Drawn("rss", x) \in Int
    <3>1. CASE Place("rss").kind = "recorded"
      BY <2>1, <2>3, <2>4, <3>1, PlaceIs DEF Drawn
    <3>2. CASE Place("rss").kind = "measured"
      <4>1. Bias # None /\ Bias \in Int
        BY <2>1, <3>2, <1>0, PlaceIs
      <4>2. Drawn("freq", x) = x + Bias /\ Drawn("rss", x) = x + Bias
        BY <2>1, <2>3, <2>4, <3>2, <4>1, PlaceIs DEF Drawn
      <4> QED BY <4>1, <4>2, <2>3
    <3> QED BY <2>4, <3>1, <3>2
  <2>6. ASSUME Span > 0
        PROVE  Bucket(Drawn("rss", x)) \in Held <=> x \in FreqPlotted /\ Drawn("rss", x) # TEnd
    <3> DEFINE t == Drawn("rss", x)
    <3>1. Span \in Nat \ {0} /\ Span = TEnd - T0 /\ T0 \in Int /\ TEnd \in Int
      BY <2>6, <1>0 DEF Span, T0, TEnd
    <3>2. x \in FreqPlotted <=> t \in T0..TEnd
      BY <1>4, <2>5 DEF FreqPlotted
    <3>3. Bucket(t) = ((t - T0) * NBuckets) \div Span
      BY <3>1 DEF Bucket
    <3>4. t - T0 \in Int /\ t \in Int /\ NBuckets \in Nat \ {0}
      BY <2>5, <3>1, CurveConstants
    <3> HIDE DEF t
    <3>5. Bucket(t) \in 0..(NBuckets - 1) <=> 0 <= t - T0 /\ t - T0 < Span
      <4> DEFINE a == t - T0
      <4>1. ((a * NBuckets) \div Span) \in 0..(NBuckets - 1) <=> 0 <= a /\ a < Span
        <5> HIDE DEF a
        <5> QED BY <3>1, <3>4, BucketIsTheWindow DEF a
      <4> QED BY <3>3, <4>1
    <3> QED BY <3>1, <3>2, <3>4, <3>5 DEF Held, t
  <2> QED BY <2>5, <2>6
<1> QED
  BY <1>1, <1>2, <1>3, <1>4 DEF CurveFollowsTheSamples

\* For any number of ticks, any offset of the clocks, ahead or behind, and any number
\* of buckets: only an offset past the cutoff makes two recordings of one; a curve
\* placed by the measured offset shows a reading at its own moment, less the time
\* perf took to finish; one is anchored only when the measurement leaves a reading
\* out; two curves placed alike show the same moments of the window.
THEOREM CurvesAreTrue == CurvesSpec => []CurveFollowsTheSamples
<1>1. CurvesInv => CurveFollowsTheSamples
  BY Follows DEF CurveFollowsTheSamples
<1> QED
  BY <1>1, CurvesInvariant, PTL

-----------------------------------------------------------------------------
(* The page: Browser.                                                      *)

Number == Int \cup {NaN}

\* A window of the run, in order and a step wide, or none.
IsWindow(a, b) == \/ a = NaN /\ b = NaN
                  \/ a \in Time /\ b \in Time /\ (a < b \/ a = Steps)

DragInv == /\ drag.mode \in {"none", "left", "right", "pan", "new"}
           /\ drag.mode = "new" => drag.anchor \in Time

BrowserType ==
  /\ scope \in Scopes /\ grouped \in BOOLEAN /\ refreshTimer \in BOOLEAN /\ chartMode \in Modes
  /\ IsWindow(timeStart, timeEnd) /\ DragInv

\* The cache never holds one curve under the key of another.
CacheOK(k) ==
  /\ k = [key |-> k.key, curve |-> k.curve]
  /\ \A mode \in {"util", "mem"} : \A s \in Scopes : k.key = Key(mode, s) => k.curve = Curve(mode, s)
CacheInv == CacheOK(cache)

ChartInv == /\ line = Picked /\ notes = Active(Picked)
            /\ chart = [curve |-> Curve(chartMode, scope), start |-> timeStart, end |-> timeEnd]

TabsInv == /\ drawn = Picked \/ (refreshTimer /\ drag.mode # "none")
           /\ WaitBar(drawn) = drawn => bar = drawn
           /\ flame = NoFlame \/ flame = [of |-> drawn, zoomed |-> flame.zoomed]

BrowserInv == BrowserType /\ CacheInv /\ ChartInv /\ TabsInv

-----------------------------------------------------------------------------
(* Numbers.                                                                *)

LEMMA Numbers ==
  ASSUME NEW a \in Number, NEW b \in Number
  PROVE  /\ MinOf(a, b) \in Number /\ MaxOf(a, b) \in Number /\ Plus(a, b) \in Number
         /\ NaN \in {a, b} => MinOf(a, b) = NaN /\ MaxOf(a, b) = NaN /\ Plus(a, b) = NaN
         /\ NaN \notin {a, b} => /\ a \in Int /\ b \in Int /\ Plus(a, b) = a + b
                                 /\ MinOf(a, b) = (IF a < b THEN a ELSE b)
                                 /\ MaxOf(a, b) = (IF a < b THEN b ELSE a)
  BY BrowserConstants DEF Number, MinOf, MaxOf, Plus

\* setSelection makes a window of whatever it is given.
LEMMA SelectionIsWindow ==
  ASSUME NEW x \in Number, NEW y \in Number
  PROVE  IsWindow(Selection(x, y)[1], Selection(x, y)[2])
<1> DEFINE lo == MinOf(x, y)
           hi == MaxOf(x, y)
           cut == MinOf(Steps, lo)
           start == MaxOf(0, cut)
           wide == Plus(start, 1)
           far == MaxOf(wide, hi)
           end == MinOf(Steps, far)
<1>0. Selection(x, y)[1] = start /\ Selection(x, y)[2] = end
  BY DEF Selection
<1>1. Steps \in Nat /\ Steps > 1 /\ Steps \in Number /\ 0 \in Number /\ 1 \in Number /\ NaN \notin Int
  BY BrowserConstants DEF Number
<1>2. lo \in Number /\ hi \in Number
  BY Numbers
<1> HIDE DEF lo, hi
<1>3. cut \in Number
  BY <1>1, <1>2, Numbers
<1> HIDE DEF cut
<1>4. start \in Number
  BY <1>1, <1>3, Numbers
<1> HIDE DEF start
<1>5. wide \in Number
  BY <1>1, <1>4, Numbers
<1> HIDE DEF wide
<1>6. far \in Number
  BY <1>2, <1>5, Numbers
<1> HIDE DEF far
<1>7. CASE NaN \in {x, y}
  <2>1. lo = NaN /\ hi = NaN
    BY <1>7, Numbers DEF lo, hi
  <2>2. cut = NaN
    BY <1>1, <1>2, <2>1, Numbers DEF cut
  <2>3. start = NaN
    BY <1>1, <1>3, <2>2, Numbers DEF start
  <2>4. far = NaN
    BY <1>2, <1>5, <2>1, Numbers DEF far
  <2>5. end = NaN
    BY <1>1, <1>6, <2>4, Numbers
  <2> QED
    BY <1>0, <2>3, <2>5 DEF IsWindow
<1>8. CASE NaN \notin {x, y}
  <2>1. lo \in Int /\ hi \in Int
    BY <1>8, Numbers DEF lo, hi
  <2>2. cut \in Int /\ cut <= Steps
    BY <1>1, <2>1 DEF cut, MinOf
  <2>3. start \in 0..Steps
    BY <1>1, <2>2 DEF start, MaxOf
  <2>4. wide = start + 1
    BY <1>1, <2>3 DEF wide, Plus
  <2>5. far \in Int /\ far >= start + 1
    BY <1>1, <2>1, <2>3, <2>4 DEF far, MaxOf
  <2>6. end \in 0..Steps /\ (start < end \/ start = Steps)
    BY <1>1, <2>3, <2>5 DEF MinOf
  <2> HIDE DEF end
  <2> QED
    BY <1>0, <2>3, <2>6 DEF IsWindow, Time
<1> QED
  BY <1>7, <1>8

\* ... and so wherever the mouse drags a border, a window or a new one.
LEMMA DraggedIsWindow ==
  ASSUME NEW d, d.mode \in {"left", "right", "pan", "new"}, d.mode = "new" => d.anchor \in Time,
         NEW f \in Time, NEW a \in Number, NEW b \in Number
  PROVE  IsWindow(Dragged(d, f, a, b)[1], Dragged(d, f, a, b)[2])
<1>0. f \in Number /\ 1 \in Number /\ -1 \in Number /\ NaN \in Number /\ 0 \in Number
  BY BrowserConstants DEF Number, Time
<1>1. CASE d.mode = "left"
  <2>1. Plus(b, -1) \in Number
    BY <1>0, Numbers
  <2>2. MinOf(f, Plus(b, -1)) \in Number
    BY <1>0, <2>1, Numbers
  <2> QED
    BY <1>1, <2>2, SelectionIsWindow DEF Dragged
<1>2. CASE d.mode = "right"
  <2>1. Plus(a, 1) \in Number
    BY <1>0, Numbers
  <2>2. MaxOf(f, Plus(a, 1)) \in Number
    BY <1>0, <2>1, Numbers
  <2> QED
    BY <1>2, <2>2, SelectionIsWindow DEF Dragged
<1>3. CASE d.mode = "pan"
  <2> DEFINE lo == MaxOf(0, MinOf(Steps - d.width, Plus(d.grab, Plus(f, NaN))))
  <2>1. Plus(f, NaN) = NaN
    BY DEF Plus
  <2>2. Plus(d.grab, Plus(f, NaN)) = NaN
    BY <2>1 DEF Plus
  <2>3. lo = NaN
    BY <2>2 DEF MinOf, MaxOf
  <2>4. Plus(lo, d.width) = NaN
    BY <2>3 DEF Plus
  <2>5. Dragged(d, f, a, b) = Selection(NaN, NaN)
    BY <1>3, <2>3, <2>4 DEF Dragged
  <2> QED
    BY <1>0, <2>5, SelectionIsWindow
<1>4. CASE d.mode = "new"
  <2>1. d.anchor \in Number
    BY <1>4 DEF Number, Time
  <2>2. MinOf(d.anchor, f) \in Number /\ MaxOf(d.anchor, f) \in Number
    BY <1>0, <2>1, Numbers
  <2> QED
    BY <1>4, <2>2, SelectionIsWindow DEF Dragged
<1> QED
  BY <1>1, <1>2, <1>3, <1>4

-----------------------------------------------------------------------------
(* Drawing.                                                                *)

\* Two curves that are kept under one key are one curve.
LEMMA KeysTell ==
  ASSUME NEW m \in {"util", "mem"}, NEW n \in {"util", "mem"}, NEW s \in Scopes, NEW t \in Scopes,
         Key(m, s) = Key(n, t)
  PROVE  Curve(m, s) = Curve(n, t)
<1>1. CASE m = "util" /\ n = "util"
  BY <1>1 DEF Key, Curve
<1>2. CASE m = "util" /\ n = "mem"
  BY <1>2 DEF Key
<1>3. CASE m = "mem" /\ n = "util"
  BY <1>3 DEF Key
<1>4. CASE m = "mem" /\ n = "mem"
  BY <1>4 DEF Curve
<1> QED
  BY <1>1, <1>2, <1>3, <1>4

\* A cache whose key is thrown away fits nothing.
LEMMA NoKeyFits == ASSUME NEW k, CacheOK(k) PROVE CacheOK([k EXCEPT !.key = NoKey])
<1>1. [k EXCEPT !.key = NoKey] = [key |-> NoKey, curve |-> k.curve]
  BY DEF CacheOK
<1>2. \A mode \in {"util", "mem"} : \A s \in Scopes : NoKey # Key(mode, s)
  BY DEF NoKey, Key
<1> QED
  BY <1>1, <1>2 DEF CacheOK

\* The chart is the curve asked for, whether it was kept or not.
LEMMA ChartRight ==
  ASSUME NEW mode \in Modes, NEW s \in Scopes, NEW a, NEW b, NEW k, CacheOK(k),
         RenderChart(mode, View(s, a, b), k)
  PROVE  /\ chart' = [curve |-> Curve(mode, s), start |-> a, end |-> b]
         /\ line' = View(s, a, b) /\ notes' = Active(View(s, a, b)) /\ CacheOK(cache')
<1>0. View(s, a, b).scope = s /\ View(s, a, b).start = a /\ View(s, a, b).end = b
  BY DEF View
<1> DEFINE fits  == mode # "freq" /\ k.key = Key(mode, s)
           curve == IF fits THEN k.curve ELSE Curve(mode, s)
<1>1. /\ chart' = [curve |-> curve, start |-> a, end |-> b]
      /\ cache' = IF mode = "freq" THEN k ELSE [key |-> Key(mode, s), curve |-> curve]
      /\ line' = View(s, a, b) /\ notes' = Active(View(s, a, b))
  BY <1>0 DEF RenderChart
<1>2. curve = Curve(mode, s)
  BY DEF CacheOK, Modes
<1> HIDE DEF curve
<1>3. CASE mode = "freq"
  BY <1>1, <1>2, <1>3
<1>4. CASE mode # "freq"
  <2>1. cache' = [key |-> Key(mode, s), curve |-> Curve(mode, s)] /\ mode \in {"util", "mem"}
    BY <1>1, <1>2, <1>4 DEF Modes
  <2>2. CacheOK(cache')
    BY <2>1, KeysTell DEF CacheOK
  <2> QED
    BY <1>1, <1>2, <2>2
<1> QED
  BY <1>3, <1>4

\* renderScoped draws all of it, of one scope and window.
LEMMA ScopedRight ==
  ASSUME BrowserInv, NEW s \in Scopes, NEW a, NEW b, NEW k, CacheOK(k), RenderScoped(View(s, a, b), k),
         scope' = s, timeStart' = a, timeEnd' = b, chartMode' = chartMode
  PROVE  refreshTimer' \in BOOLEAN /\ CacheInv' /\ ChartInv' /\ TabsInv'
<1>1. Picked' = View(s, a, b) /\ chartMode \in Modes
  BY DEF Picked, BrowserInv, BrowserType
<1>2. /\ chart' = [curve |-> Curve(chartMode, s), start |-> a, end |-> b]
      /\ line' = View(s, a, b) /\ notes' = Active(View(s, a, b)) /\ CacheOK(cache')
  BY <1>1, ChartRight DEF RenderScoped
<1>3. /\ refreshTimer' = FALSE /\ drawn' = View(s, a, b) /\ bar' = WaitBar(View(s, a, b))
      /\ flame' \in {NoFlame, Flame(View(s, a, b))}
  BY DEF RenderScoped
<1>4. ChartInv'
  BY <1>1, <1>2 DEF ChartInv
<1>5. TabsInv'
  <2>1. WaitBar(drawn)' = drawn' => bar' = drawn'
    BY <1>3 DEF WaitBar
  <2>2. flame' = NoFlame \/ flame' = [of |-> drawn', zoomed |-> flame'.zoomed]
    BY <1>3 DEF Flame
  <2> QED
    BY <1>1, <1>3, <2>1, <2>2 DEF TabsInv, NoFlame
<1> QED
  BY <1>2, <1>3, <1>4, <1>5 DEF CacheInv

-----------------------------------------------------------------------------
(* What the reader does.                                                   *)

LEMMA InitBrowser == Init => BrowserInv
<1> SUFFICES ASSUME Init PROVE BrowserInv
  OBVIOUS
<1>1. BrowserType
  <2>1. IsWindow(timeStart, timeEnd)
    BY BrowserConstants DEF Init, IsWindow, Time
  <2> QED
    BY <2>1 DEF Init, BrowserType, DragInv, Scopes, Modes
<1>2. CacheInv
  <2>1. cache = [key |-> Key("util", Everything), curve |-> Curve("util", Everything)] /\ Everything \in Scopes
    BY DEF Init, Scopes
  <2> QED
    BY <2>1, KeysTell DEF CacheInv, CacheOK
<1>3. ChartInv
  <2>1. Whole = Picked
    BY DEF Init, Whole, Picked
  <2>2. Active(Picked) = FALSE
    BY BrowserConstants DEF Init, Picked, View, Active, Lt
  <2>3. notes = Active(Picked)
    BY <2>2 DEF Init
  <2> QED
    BY <2>1, <2>3 DEF Init, ChartInv
<1>4. TabsInv
  BY DEF Init, TabsInv, Whole, Picked
<1> QED
  BY <1>1, <1>2, <1>3, <1>4 DEF BrowserInv

LEMMA ScopeStep ==
  ASSUME BrowserInv, NEW s \in Scopes, SetScope(s), grouped' \in BOOLEAN
  PROVE  BrowserInv'
<1>1. CacheOK([cache EXCEPT !.key = NoKey])
  BY NoKeyFits DEF BrowserInv, CacheInv
<1>2. refreshTimer' \in BOOLEAN /\ CacheInv' /\ ChartInv' /\ TabsInv'
  BY <1>1, ScopedRight DEF SetScope
<1> QED
  BY <1>2 DEF BrowserInv, BrowserType, DragInv, SetScope

LEMMA ModeStep ==
  ASSUME BrowserInv, NEW mode \in Modes, SetChartMode(mode)
  PROVE  BrowserInv'
<1>1. /\ chart' = [curve |-> Curve(mode, scope), start |-> timeStart, end |-> timeEnd]
      /\ line' = Picked /\ notes' = Active(Picked) /\ CacheOK(cache')
  BY ChartRight DEF BrowserInv, BrowserType, CacheInv, SetChartMode, Picked
<1>2. chartMode' = mode /\ UNCHANGED <<scope, grouped, timeStart, timeEnd, drag, refreshTimer, drawn, bar, flame>>
  BY DEF SetChartMode, tabs
<1>3. Picked' = Picked
  BY <1>2 DEF Picked
<1> QED
  BY <1>1, <1>2, <1>3 DEF BrowserInv, BrowserType, DragInv, CacheInv, ChartInv, TabsInv, WaitBar

LEMMA ResizeStep == ASSUME BrowserInv, OnResize PROVE BrowserInv'
<1>1. CacheOK([cache EXCEPT !.key = NoKey])
  BY NoKeyFits DEF BrowserInv, CacheInv
<1>2. /\ chart' = [curve |-> Curve(chartMode, scope), start |-> timeStart, end |-> timeEnd]
      /\ line' = Picked /\ notes' = Active(Picked) /\ CacheOK(cache')
  BY <1>1, ChartRight DEF BrowserInv, BrowserType, OnResize, Picked
<1>3. UNCHANGED <<scope, grouped, timeStart, timeEnd, drag, refreshTimer, chartMode, drawn, bar, flame>>
  BY DEF OnResize, tabs
<1>4. Picked' = Picked
  BY <1>3 DEF Picked
<1> QED
  BY <1>2, <1>3, <1>4 DEF BrowserInv, BrowserType, DragInv, CacheInv, ChartInv, TabsInv, WaitBar

LEMMA ZoomStep == ASSUME BrowserInv, NEW in \in BOOLEAN, Zoom(in) PROVE BrowserInv'
<1>1. /\ flame = [of |-> drawn, zoomed |-> flame.zoomed] /\ flame' = [flame EXCEPT !.zoomed = in]
      /\ UNCHANGED <<scope, grouped, timeStart, timeEnd, drag, refreshTimer, chartMode, cache, chart,
                     line, notes, drawn, bar>>
  BY DEF Zoom, BrowserInv, TabsInv
<1>2. flame' = [of |-> drawn', zoomed |-> flame'.zoomed]
  BY <1>1
<1>3. Picked' = Picked
  BY <1>1 DEF Picked
<1> QED
  BY <1>1, <1>2, <1>3 DEF BrowserInv, BrowserType, DragInv, CacheInv, ChartInv, TabsInv, WaitBar

\* setSelection while the mouse is down.
LEMMA LiveStep ==
  ASSUME BrowserInv, NEW w, IsWindow(w[1], w[2]), Live(w), DragInv', drag'.mode # "none"
  PROVE  BrowserInv'
<1>1. /\ chart' = [curve |-> Curve(chartMode, scope), start |-> w[1], end |-> w[2]]
      /\ line' = View(scope, w[1], w[2]) /\ notes' = Active(View(scope, w[1], w[2])) /\ CacheOK(cache')
  BY ChartRight DEF BrowserInv, BrowserType, CacheInv, Live
<1>2. /\ timeStart' = w[1] /\ timeEnd' = w[2] /\ refreshTimer' = TRUE
      /\ UNCHANGED <<scope, grouped, chartMode, drawn, bar, flame>>
  BY DEF Live, tabs
<1>3. Picked' = View(scope, w[1], w[2])
  BY <1>2 DEF Picked
<1>4. BrowserType'
  BY <1>2 DEF BrowserInv, BrowserType, IsWindow, Time
<1>5. TabsInv'
  BY <1>2 DEF BrowserInv, TabsInv, WaitBar
<1> QED
  BY <1>1, <1>2, <1>3, <1>4, <1>5 DEF BrowserInv, CacheInv, ChartInv

LEMMA WindowNumbers == ASSUME BrowserType PROVE timeStart \in Number /\ timeEnd \in Number
  BY DEF BrowserType, IsWindow, Number, Time

LEMMA DownStep == ASSUME BrowserInv, NEW f \in Time, Down(f) PROVE BrowserInv'
<1>1. PICK mode \in {"left", "right", "pan", "new"} :
        /\ drag' = CASE mode = "pan" -> [mode |-> mode, grab |-> f, width |-> timeEnd - timeStart]
                     [] mode = "new" -> [mode |-> mode, anchor |-> f]
                     [] OTHER -> [mode |-> mode]
        /\ Live(IF mode = "new" THEN Dragged(drag', f, f, f) ELSE Dragged(drag', f, timeStart, timeEnd))
  BY DEF Down
<1>2. drag'.mode = mode /\ (mode = "new" => drag'.anchor = f)
  BY <1>1
<1>3. f \in Number /\ timeStart \in Number /\ timeEnd \in Number
  BY WindowNumbers DEF BrowserInv, Number, Time
<1>4. DragInv'
  BY <1>2 DEF DragInv, Time
<1>5. CASE mode = "new"
  <2>1. Live(Dragged(drag', f, f, f))
    BY <1>1, <1>5
  <2>2. IsWindow(Dragged(drag', f, f, f)[1], Dragged(drag', f, f, f)[2])
    BY <1>2, <1>3, DraggedIsWindow
  <2> QED
    BY <1>2, <1>4, <2>1, <2>2, LiveStep
<1>6. CASE mode # "new"
  <2>1. Live(Dragged(drag', f, timeStart, timeEnd))
    BY <1>1, <1>6
  <2>2. IsWindow(Dragged(drag', f, timeStart, timeEnd)[1], Dragged(drag', f, timeStart, timeEnd)[2])
    BY <1>2, <1>3, DraggedIsWindow
  <2> QED
    BY <1>2, <1>4, <2>1, <2>2, LiveStep
<1> QED
  BY <1>5, <1>6

LEMMA MoveStep == ASSUME BrowserInv, NEW f \in Time, Move(f) PROVE BrowserInv'
<1>1. drag.mode # "none" /\ drag' = drag /\ Live(Dragged(drag, f, timeStart, timeEnd)) /\ DragInv
  BY DEF Move, BrowserInv, BrowserType
<1>2. timeStart \in Number /\ timeEnd \in Number
  BY WindowNumbers DEF BrowserInv
<1>3. IsWindow(Dragged(drag, f, timeStart, timeEnd)[1], Dragged(drag, f, timeStart, timeEnd)[2])
  BY <1>1, <1>2, DraggedIsWindow DEF DragInv
<1>4. DragInv'
  BY <1>1 DEF DragInv, Time
<1> QED
  BY <1>1, <1>3, <1>4, LiveStep

LEMMA DrawnSteps == ASSUME BrowserInv, Up \/ Refresh \/ Reset PROVE BrowserInv'
<1>0. CacheOK(cache) /\ scope \in Scopes
  BY DEF BrowserInv, BrowserType, CacheInv
<1>1. CASE Up
  <2>1. refreshTimer' \in BOOLEAN /\ CacheInv' /\ ChartInv' /\ TabsInv'
    BY <1>0, <1>1, ScopedRight DEF Up, Picked
  <2> QED
    BY <1>1, <2>1 DEF Up, BrowserInv, BrowserType, DragInv
<1>2. CASE Refresh
  <2>1. refreshTimer' \in BOOLEAN /\ CacheInv' /\ ChartInv' /\ TabsInv'
    BY <1>0, <1>2, ScopedRight DEF Refresh, Picked
  <2> QED
    BY <1>2, <2>1 DEF Refresh, BrowserInv, BrowserType, DragInv
<1>3. CASE Reset
  <2>1. refreshTimer' \in BOOLEAN /\ CacheInv' /\ ChartInv' /\ TabsInv'
    BY <1>0, <1>3, ScopedRight DEF Reset
  <2>2. IsWindow(0, Steps)
    BY BrowserConstants DEF IsWindow, Time
  <2> QED
    BY <1>3, <2>1, <2>2 DEF Reset, BrowserInv, BrowserType, DragInv, IsWindow, Time
<1> QED
  BY <1>1, <1>2, <1>3

LEMMA SameStep == ASSUME BrowserInv, UNCHANGED vars PROVE BrowserInv'
<1>1. Picked' = Picked
  BY DEF vars, Picked
<1> QED
  BY <1>1 DEF vars, BrowserInv, BrowserType, DragInv, CacheInv, ChartInv, TabsInv, WaitBar, IsWindow

-----------------------------------------------------------------------------
(* The theorems.                                                           *)

LEMMA BrowserInductive == Spec => []BrowserInv
<1>1. ASSUME BrowserInv, [Next]_vars PROVE BrowserInv'
  <2>1. CASE \E s \in Scopes : SetThread(s)
    BY <1>1, <2>1, ScopeStep DEF SetThread, BrowserInv, BrowserType
  <2>2. CASE ToggleGrouped
    BY <1>1, <2>2, ScopeStep DEF ToggleGrouped, BrowserInv, BrowserType, Scopes
  <2> QED
    BY <1>1, <2>1, <2>2, ModeStep, ResizeStep, ZoomStep, DownStep, MoveStep, DrawnSteps, SameStep DEF Next
<1> QED
  BY <1>1, InitBrowser, PTL DEF Spec

\* Every variable stays in its range, and the window is one of the run or NaN.
THEOREM BrowserTypeCorrect == Spec => []BrowserType
  BY BrowserInductive, PTL DEF BrowserInv

\* The chart, its borders, the scope line, the notes, the tabs, the bar of waits and the
\* flame graph are of the scope and window picked, whatever the reader has done.
THEOREM PageShowsWhatIsPicked == Spec => []ShownIsPicked
<1>1. BrowserInv => ShownIsPicked
  <2> SUFFICES ASSUME BrowserInv PROVE ShownIsPicked
    OBVIOUS
  <2>1. flame # NoFlame => flame.of = drawn
    BY DEF BrowserInv, TabsInv
  <2>2. \/ timeStart = NaN /\ timeEnd = NaN
        \/ {timeStart, timeEnd} \subseteq Time /\ (timeStart < timeEnd \/ timeStart = Steps)
    BY DEF BrowserInv, BrowserType, IsWindow
  <2> QED
    BY <2>1, <2>2 DEF ShownIsPicked, BrowserInv, ChartInv, TabsInv
<1> QED
  BY <1>1, BrowserInductive, PTL

-----------------------------------------------------------------------------
(* The samples: Report.                                                    *)

Lines == {Header(h) : h \in Headers} \cup {Frame(f) : f \in Stacked} \cup {Hex}

ReportType ==
  /\ dump \in Seq(Lines) /\ Len(dump) <= MaxLines
  /\ cur \in Samples \cup {Nothing} /\ drop \in BOOLEAN /\ samples \in Seq(Samples) /\ eof \in BOOLEAN

\* The samples of the lines of K are there, in their order, and no other.
Are(d, ss, K) == /\ Len(ss) = Cardinality(K)
                 /\ \A i \in K : IsSample(d, i, ss[UpTo(Kept(d), i)])

\* The last header is the sample in hand; those before it are done.
InHand(i) ==
  /\ i \in Heads(dump) /\ \A k \in Heads(dump) : k <= i
  /\ cur # Nothing /\ (drop <=> dump[i].event = "mem")
  /\ ~drop => IsSample(dump, i, cur)
  /\ Are(dump, samples, Kept(dump) \ {i})

ReadInv == IF eof THEN Are(dump, samples, Kept(dump))
           ELSE IF dump = <<>> THEN cur = Nothing /\ samples = <<>>
           ELSE \E i \in Heads(dump) : InHand(i)

ReportInv == ReportType /\ ReadInv

-----------------------------------------------------------------------------
(* Counting lines.                                                         *)

LEMMA UpToIs ==
  ASSUME NEW n \in Nat, NEW S \in SUBSET (1..n)
  PROVE  /\ IsFiniteSet(S) /\ Cardinality(S) \in Nat
         /\ UpTo(S, n) = Cardinality(S)
         /\ \A i \in S : UpTo(S, i) \in 1..Cardinality(S)
         /\ \A i \in Nat : UpTo(S, i) \in Nat
<1>0. IsFiniteSet(1..n)
  BY FS_Interval
<1>1. IsFiniteSet(S)
  BY <1>0, FS_Subset
<1>2. Cardinality(S) \in Nat
  BY <1>1, FS_CardinalityType
<1>3. {j \in S : j <= n} = S
  <2>1. \A j \in S : j \in Int /\ j <= n
    OBVIOUS
  <2> QED BY <2>1
<1>4. ASSUME NEW i PROVE UpTo(S, i) \in Nat /\ UpTo(S, i) <= Cardinality(S)
  <2>1. {j \in S : j <= i} \subseteq S
    OBVIOUS
  <2>2. IsFiniteSet({j \in S : j <= i}) /\ Cardinality({j \in S : j <= i}) <= Cardinality(S)
    BY <1>1, <2>1, FS_Subset
  <2> QED BY <2>2, FS_CardinalityType DEF UpTo
<1>5. ASSUME NEW i \in S PROVE UpTo(S, i) # 0
  <2>1. i \in {j \in S : j <= i}
    OBVIOUS
  <2>2. IsFiniteSet({j \in S : j <= i})
    BY <1>1, FS_Subset
  <2> QED BY <2>1, <2>2, FS_EmptySet DEF UpTo
<1> QED BY <1>1, <1>2, <1>3, <1>4, <1>5 DEF UpTo

\* One more line, after all.
LEMMA UpToMore ==
  ASSUME NEW n \in Nat, NEW S \in SUBSET (1..n)
  PROVE  /\ Cardinality(S \cup {n + 1}) = Cardinality(S) + 1
         /\ \A i \in 1..n : UpTo(S \cup {n + 1}, i) = UpTo(S, i)
         /\ UpTo(S \cup {n + 1}, n + 1) = Cardinality(S) + 1
<1>1. IsFiniteSet(S) /\ n + 1 \notin S
  BY UpToIs
<1>2. Cardinality(S \cup {n + 1}) = Cardinality(S) + 1
  BY <1>1, FS_AddElement
<1>0. \A j \in S : j \in Int /\ j <= n
  OBVIOUS
<1>3. ASSUME NEW i \in 1..n PROVE {j \in S \cup {n + 1} : j <= i} = {j \in S : j <= i}
  <2>1. ~(n + 1 <= i)
    OBVIOUS
  <2> QED BY <2>1
<1>4. {j \in S \cup {n + 1} : j <= n + 1} = S \cup {n + 1}
  <2>1. \A j \in S \cup {n + 1} : j <= n + 1
    BY <1>0
  <2> QED BY <2>1
<1> QED BY <1>2, <1>3, <1>4 DEF UpTo

\* The last of them, and those before it.
LEMMA UpToLast ==
  ASSUME NEW n \in Nat, NEW S \in SUBSET (1..n), NEW i \in S, \A k \in S : k <= i
  PROVE  /\ UpTo(S, i) = Cardinality(S) /\ Cardinality(S \ {i}) = Cardinality(S) - 1
         /\ \A k \in S \ {i} : UpTo(S, k) \in 1..Cardinality(S \ {i})
<1>1. IsFiniteSet(S) /\ Cardinality(S) \in Nat
  BY UpToIs
<1>2. {j \in S : j <= i} = S
  OBVIOUS
<1>3. Cardinality(S \ {i}) = Cardinality(S) - 1
  BY <1>1, FS_RemoveElement
<1>4. ASSUME NEW k \in S \ {i} PROVE UpTo(S, k) \in 1..Cardinality(S \ {i})
  <2>1. UpTo(S \ {i}, k) \in 1..Cardinality(S \ {i})
    BY UpToIs
  <2>2. {j \in S : j <= k} = {j \in S \ {i} : j <= k}
    <3>1. k < i /\ k \in Int /\ i \in Int
      OBVIOUS
    <3> QED BY <3>1
  <2> QED BY <2>1, <2>2 DEF UpTo
<1> QED BY <1>2, <1>3, <1>4 DEF UpTo

-----------------------------------------------------------------------------
(* A line more.                                                            *)

LEMMA KindOfLine ==
  ASSUME NEW l \in Lines
  PROVE  l.kind \in {"header", "frame", "hex"}
BY DEF Lines, Header, Frame, Hex

LEMMA DumpIs ==
  ASSUME NEW d \in Seq(Lines)
  PROVE  /\ Len(d) \in Nat /\ DOMAIN d = 1..Len(d)
         /\ Heads(d) \subseteq 1..Len(d) /\ Kept(d) \subseteq Heads(d)
         /\ \A i : Body(d, i) \subseteq 1..Len(d) /\ Stack(d, i) \subseteq 1..Len(d)
         /\ \A i \in 1..Len(d) : d[i] \in Lines
BY DEF Heads, Kept, Body, Stack

LEMMA Longer ==
  ASSUME NEW d \in Seq(Lines), NEW l \in Lines
  PROVE  /\ Len(d) \in Nat /\ Append(d, l) \in Seq(Lines) /\ Len(Append(d, l)) = Len(d) + 1
         /\ Append(d, l)[Len(d) + 1] = l
         /\ \A i \in 1..Len(d) : Append(d, l)[i] = d[i]
         /\ l.kind = "header" => Heads(Append(d, l)) = Heads(d) \cup {Len(d) + 1}
         /\ l.kind # "header" => Heads(Append(d, l)) = Heads(d)
         /\ l.kind = "header" /\ l.event # "mem" => Kept(Append(d, l)) = Kept(d) \cup {Len(d) + 1}
         /\ l.kind # "header" \/ l.event = "mem" => Kept(Append(d, l)) = Kept(d)
<1> DEFINE n == Len(d)
           e == Append(d, l)
<1>1. /\ n \in Nat /\ e \in Seq(Lines) /\ Len(e) = n + 1 /\ e[n + 1] = l
      /\ \A i \in 1..n : e[i] = d[i]
  OBVIOUS
<1>2. DOMAIN e = 1..(n + 1) /\ DOMAIN d = 1..n
  BY <1>1
<1> HIDE DEF n, e
<1>3. \A i : i \in 1..(n + 1) <=> i \in 1..n \/ i = n + 1
  BY <1>1
<1>4. Heads(e) = IF l.kind = "header" THEN Heads(d) \cup {n + 1} ELSE Heads(d)
  BY <1>1, <1>2, <1>3 DEF Heads
<1>5. \A i \in Heads(d) : e[i] = d[i]
  BY <1>1, <1>2 DEF Heads
<1>6. Kept(e) = IF l.kind = "header" /\ l.event # "mem" THEN Kept(d) \cup {n + 1} ELSE Kept(d)
  <2>1. CASE l.kind = "header" /\ l.event # "mem"
    <3>1. \A i : i \in Heads(e) <=> i \in Heads(d) \/ i = n + 1
      BY <1>4, <2>1
    <3>2. e[n + 1].event # "mem"
      BY <1>1, <2>1
    <3>3. \A i : i \in Kept(e) <=> i \in Kept(d) \cup {n + 1}
      BY <3>1, <3>2, <1>5 DEF Kept
    <3> QED BY <3>3, <2>1
  <2>2. CASE l.kind = "header" /\ l.event = "mem"
    <3>1. \A i : i \in Heads(e) <=> i \in Heads(d) \/ i = n + 1
      BY <1>4, <2>2
    <3>2. e[n + 1].event = "mem"
      BY <1>1, <2>2
    <3>3. \A i : i \in Kept(e) <=> i \in Kept(d)
      BY <3>1, <3>2, <1>5 DEF Kept
    <3> QED BY <3>3, <2>2 DEF Kept
  <2>3. CASE l.kind # "header"
    BY <1>4, <1>5, <2>3 DEF Kept
  <2> QED BY <2>1, <2>2, <2>3
<1> QED BY <1>1, <1>4, <1>6 DEF n, e

\* A sample that a header follows has all its lines.
LEMMA Frozen ==
  ASSUME NEW d \in Seq(Lines), NEW l \in Lines, NEW i \in Heads(d),
         l.kind = "header" \/ \E k \in Heads(d) : i < k
  PROVE  \A s : IsSample(Append(d, l), i, s) <=> IsSample(d, i, s)
<1> DEFINE n == Len(d)
           e == Append(d, l)
<1>1. /\ n \in Nat /\ e \in Seq(Lines) /\ Len(e) = n + 1 /\ \A j \in 1..n : e[j] = d[j]
      /\ Heads(e) = IF l.kind = "header" THEN Heads(d) \cup {n + 1} ELSE Heads(d)
  BY Longer
<1>2. DOMAIN d = 1..n /\ DOMAIN e = 1..(n + 1) /\ Heads(d) \subseteq 1..n /\ i \in 1..n
  BY <1>1 DEF Heads
<1> HIDE DEF n, e
<1>3. UpTo(Heads(e), i) = UpTo(Heads(d), i)
  <2>1. Heads(d) \in SUBSET (1..n)
    BY <1>2
  <2>2. UpTo(Heads(d) \cup {n + 1}, i) = UpTo(Heads(d), i)
    BY <1>1, <1>2, <2>1, UpToMore
  <2> QED BY <1>1, <2>2
<1>4. ASSUME NEW j PROVE j \in Body(e, i) <=> j \in Body(d, i)
  <2>1. CASE j \in 1..n
    <3>1. j \in DOMAIN d /\ j \in DOMAIN e /\ j \in Int /\ ~(n + 1 <= j)
      BY <1>1, <1>2, <2>1
    <3>2. (\A k \in Heads(e) : ~(i < k /\ k <= j)) <=> (\A k \in Heads(d) : ~(i < k /\ k <= j))
      BY <1>1, <3>1
    <3> QED BY <3>1, <3>2 DEF Body
  <2>2. CASE j = n + 1
    <3>1. \E k \in Heads(e) : i < k /\ k <= n + 1
      <4>1. CASE l.kind = "header"
        BY <4>1, <1>1, <1>2
      <4>2. CASE l.kind # "header"
        <5>1. PICK k \in Heads(d) : i < k
          BY <4>2
        <5> QED BY <5>1, <4>2, <1>1, <1>2
      <4> QED BY <4>1, <4>2
    <3>2. j \notin DOMAIN d
      BY <1>1, <1>2, <2>2
    <3> QED BY <2>2, <3>1, <3>2 DEF Body
  <2>3. CASE j \notin 1..(n + 1)
    BY <1>1, <1>2, <2>3 DEF Body
  <2>4. j \in 1..(n + 1) => j \in 1..n \/ j = n + 1
    BY <1>1
  <2> QED BY <2>1, <2>2, <2>3, <2>4
<1>5. Body(e, i) = Body(d, i) /\ \A j \in Body(d, i) : j \in 1..n /\ e[j] = d[j]
  <2>1. \A j \in Body(d, i) : j \in 1..n
    BY <1>2 DEF Body
  <2>2. Body(e, i) = Body(d, i)
    BY <1>4
  <2> QED BY <2>1, <2>2, <1>1
<1>6. Stack(e, i) = Stack(d, i)
  BY <1>5 DEF Stack
<1>7. Bare(e, i) = Bare(d, i)
  BY <1>5 DEF Bare
<1>8. \A j \in Stack(d, i) : e[j] = d[j]
  BY <1>5 DEF Stack
<1>9. e[i] = d[i]
  BY <1>1, <1>2
<1>10. ASSUME NEW s PROVE IsSample(e, i, s) <=> IsSample(d, i, s)
  <2>1. (\A j \in Stack(e, i) :
           LET f == s.frames[Bare(e, i) + UpTo(Stack(e, i), j)] IN
           f.sym = e[j].sym /\ f.domain = e[j].domain)
        <=> (\A j \in Stack(d, i) :
               LET f == s.frames[Bare(d, i) + UpTo(Stack(d, i), j)] IN
               f.sym = d[j].sym /\ f.domain = d[j].domain)
    BY <1>6, <1>7, <1>8
  <2> QED BY <1>3, <1>6, <1>7, <1>9, <2>1 DEF IsSample
<1> QED BY <1>10 DEF e

\* The lines of the last sample are all that follow.
LEMMA LastBody ==
  ASSUME NEW d \in Seq(Lines), NEW i \in Heads(d), \A k \in Heads(d) : k <= i
  PROVE  /\ Len(d) \in Nat /\ i \in 1..Len(d) /\ Body(d, i) = (i + 1)..Len(d)
         /\ \A j \in (i + 1)..Len(d) : d[j].kind \in {"frame", "hex"}
         /\ \A j : j \in Stack(d, i) <=> j \in (i + 1)..Len(d) /\ d[j].kind = "frame"
         /\ Stack(d, i) \in SUBSET (1..Len(d))
<1> DEFINE n == Len(d)
<1>1. n \in Nat /\ DOMAIN d = 1..n /\ i \in 1..n /\ Heads(d) \subseteq 1..n
  BY DEF Heads
<1>0. \A j \in 1..n : d[j] \in Lines
  OBVIOUS
<1> HIDE DEF n
<1>2. ASSUME NEW j PROVE j \in Body(d, i) <=> j \in (i + 1)..n
  <2>1. \A k \in Heads(d) : ~(i < k)
    BY <1>1
  <2>2. j \in Body(d, i) <=> j \in 1..n /\ i < j
    BY <2>1, <1>1 DEF Body
  <2> QED BY <2>2, <1>1
<1>3. ASSUME NEW j \in (i + 1)..n PROVE d[j].kind \in {"frame", "hex"}
  <2>1. j \in 1..n /\ ~(j <= i)
    BY <1>1
  <2>2. d[j] \in Lines /\ j \notin Heads(d)
    BY <2>1, <1>0, <1>1
  <2>3. d[j].kind # "header"
    BY <2>1, <2>2, <1>1 DEF Heads
  <2> QED BY <2>2, <2>3, KindOfLine
<1>4. Body(d, i) = (i + 1)..n
  BY <1>2
<1>5. \A j : j \in Stack(d, i) <=> j \in (i + 1)..n /\ d[j].kind = "frame"
  BY <1>4 DEF Stack
<1>6. (i + 1)..n \subseteq 1..n
  BY <1>1
<1> QED BY <1>1, <1>3, <1>4, <1>5, <1>6 DEF n

\* A frame more of the sample in hand.
LEMMA GrownFrame ==
  ASSUME NEW d \in Seq(Lines), NEW f \in Stacked,
         NEW i \in Heads(d), \A k \in Heads(d) : k <= i,
         NEW s \in Samples, IsSample(d, i, s)
  PROVE  IsSample(Append(d, Frame(f)), i, [s EXCEPT !.frames = Append(@, f)])
<1> DEFINE n == Len(d)
           l == Frame(f)
           e == Append(d, l)
           t == [s EXCEPT !.frames = Append(@, f)]
           c == Cardinality(Stack(d, i))
           b == Bare(d, i)
<1>1. l \in Lines /\ l.kind = "frame" /\ l.sym = f.sym /\ l.domain = f.domain
  BY DEF Lines, Frame
<1>2. /\ n \in Nat /\ e \in Seq(Lines) /\ Len(e) = n + 1 /\ e[n + 1] = l
      /\ \A j \in 1..n : e[j] = d[j]
      /\ Heads(e) = Heads(d)
  BY <1>1, Longer
<1>3. /\ i \in 1..n /\ Body(d, i) = (i + 1)..n
      /\ \A j : j \in Stack(d, i) <=> j \in (i + 1)..n /\ d[j].kind = "frame"
      /\ Stack(d, i) \in SUBSET (1..n)
  BY LastBody
<1> HIDE DEF n, l, e
<1>4. /\ Body(e, i) = (i + 1)..(n + 1)
      /\ \A j : j \in Stack(e, i) <=> j \in (i + 1)..(n + 1) /\ e[j].kind = "frame"
  <2>1. e \in Seq(Lines) /\ i \in Heads(e) /\ \A k \in Heads(e) : k <= i
    BY <1>2
  <2>2. /\ Body(e, i) = (i + 1)..Len(e)
        /\ \A j : j \in Stack(e, i) <=> j \in (i + 1)..Len(e) /\ e[j].kind = "frame"
    BY <2>1, LastBody
  <2> QED BY <2>2, <1>2
<1>5. Stack(e, i) = Stack(d, i) \cup {n + 1}
  <2>1. \A j : j \in (i + 1)..(n + 1) <=> j \in (i + 1)..n \/ j = n + 1
    <3>1. i \in Nat /\ n \in Nat /\ i <= n
      BY <1>2, <1>3
    <3> QED BY ONLY <3>1
  <2>2. \A j \in (i + 1)..n : e[j] = d[j]
    BY <1>2, <1>3
  <2>3. \A j : j \in Stack(e, i) <=> j \in Stack(d, i) \cup {n + 1}
    <3>1. e[n + 1].kind = "frame" /\ i \in Nat /\ n \in Nat /\ i <= n
      BY <1>1, <1>2, <1>3
    <3> QED BY ONLY <2>1, <2>2, <3>1, <1>3, <1>4, SMTT(20)
  <2> QED BY <2>3
<1>6. Bare(e, i) = b /\ b \in {0, 1}
  <2>1. CASE i = n
    BY <2>1, <1>1, <1>2, <1>3, <1>4 DEF Bare
  <2>2. CASE i # n
    <3>1. i + 1 \in 1..n /\ i + 1 \in (i + 1)..n /\ i + 1 \in (i + 1)..(n + 1)
      BY <2>2, <1>2, <1>3
    <3>2. e[i + 1] = d[i + 1]
      BY <3>1, <1>2
    <3> QED BY <3>1, <3>2, <1>3, <1>4 DEF Bare
  <2> QED BY <2>1, <2>2
<1>7. /\ c \in Nat /\ Cardinality(Stack(e, i)) = c + 1
      /\ \A j \in Stack(d, i) : UpTo(Stack(e, i), j) = UpTo(Stack(d, i), j) /\ UpTo(Stack(d, i), j) \in 1..c
      /\ UpTo(Stack(e, i), n + 1) = c + 1
  <2>1. Cardinality(Stack(d, i)) \in Nat
        /\ \A j \in Stack(d, i) : UpTo(Stack(d, i), j) \in 1..Cardinality(Stack(d, i))
    BY <1>2, <1>3, UpToIs
  <2>2. /\ Cardinality(Stack(d, i) \cup {n + 1}) = Cardinality(Stack(d, i)) + 1
        /\ \A j \in 1..n : UpTo(Stack(d, i) \cup {n + 1}, j) = UpTo(Stack(d, i), j)
        /\ UpTo(Stack(d, i) \cup {n + 1}, n + 1) = Cardinality(Stack(d, i)) + 1
    BY <1>2, <1>3, UpToMore
  <2> QED BY <2>1, <2>2, <1>3, <1>5
<1>8. /\ <<s.tid, s.comm, s.event>> = <<d[i].tid, d[i].comm, d[i].event>>
      /\ s.time = UpTo(Heads(d), i) /\ Len(s.frames) = b + c
      /\ b = 1 => s.frames[1].sym = Unknown
      /\ \A j \in Stack(d, i) :
           s.frames[b + UpTo(Stack(d, i), j)].sym = d[j].sym
           /\ s.frames[b + UpTo(Stack(d, i), j)].domain = d[j].domain
  BY DEF IsSample
<1>9. s.frames \in Seq(Stacked \cup {NoStack})
  BY DEF Samples
<1>10. /\ t.tid = s.tid /\ t.comm = s.comm /\ t.event = s.event /\ t.time = s.time
       /\ t.frames = Append(s.frames, f)
  BY DEF Samples
<1> HIDE DEF t, c, b
<1>11. /\ Len(t.frames) = b + c + 1 /\ t.frames[b + c + 1] = f
       /\ \A k \in 1..(b + c) : t.frames[k] = s.frames[k]
  BY <1>8, <1>9, <1>10
<1>12. b = 1 => t.frames[1].sym = Unknown
  BY <1>6, <1>7, <1>8, <1>11
<1>13. ASSUME NEW j \in Stack(e, i)
       PROVE  /\ t.frames[b + UpTo(Stack(e, i), j)].sym = e[j].sym
              /\ t.frames[b + UpTo(Stack(e, i), j)].domain = e[j].domain
  <2>1. CASE j \in Stack(d, i)
    <3>1. j \in 1..n /\ e[j] = d[j] /\ UpTo(Stack(e, i), j) = UpTo(Stack(d, i), j)
      BY <2>1, <1>2, <1>3, <1>7
    <3>2. b + UpTo(Stack(d, i), j) \in 1..(b + c)
      BY <2>1, <1>6, <1>7
    <3>3. t.frames[b + UpTo(Stack(d, i), j)] = s.frames[b + UpTo(Stack(d, i), j)]
      BY <3>2, <1>11
    <3> QED BY <3>1, <3>3, <2>1, <1>8
  <2>2. CASE j = n + 1
    <3>1. b + UpTo(Stack(e, i), j) = b + c + 1
      BY <2>2, <1>6, <1>7
    <3> QED BY <3>1, <2>2, <1>1, <1>2, <1>11
  <2> QED BY <2>1, <2>2, <1>5
<1>14. e[i] = d[i]
  BY <1>2, <1>3
<1>15. Len(t.frames) = b + (c + 1)
  BY <1>6, <1>7, <1>11
<1>16. IsSample(e, i, t)
  BY <1>2, <1>6, <1>7, <1>8, <1>10, <1>12, <1>13, <1>14, <1>15 DEF IsSample
<1> QED BY <1>16 DEF t, e, l

\* A bare address counts where nothing was printed before it.
LEMMA GrownHex ==
  ASSUME NEW d \in Seq(Lines),
         NEW i \in Heads(d), \A k \in Heads(d) : k <= i,
         NEW s \in Samples, IsSample(d, i, s)
  PROVE  IsSample(Append(d, Hex), i, IF s.frames # <<>> THEN s ELSE [s EXCEPT !.frames = <<NoStack>>])
<1> DEFINE n == Len(d)
           l == Hex
           e == Append(d, l)
<1>1. l \in Lines /\ l.kind = "hex"
  BY DEF Lines, Hex
<1>2. /\ n \in Nat /\ e \in Seq(Lines) /\ Len(e) = n + 1 /\ e[n + 1] = l
      /\ \A j \in 1..n : e[j] = d[j]
      /\ Heads(e) = Heads(d)
  BY <1>1, Longer
<1>3. /\ i \in 1..n /\ Body(d, i) = (i + 1)..n
      /\ \A j \in (i + 1)..n : d[j].kind \in {"frame", "hex"}
      /\ \A j : j \in Stack(d, i) <=> j \in (i + 1)..n /\ d[j].kind = "frame"
      /\ Stack(d, i) \in SUBSET (1..n)
  BY LastBody
<1> HIDE DEF n, l, e
<1>4. /\ Body(e, i) = (i + 1)..(n + 1)
      /\ \A j : j \in Stack(e, i) <=> j \in (i + 1)..(n + 1) /\ e[j].kind = "frame"
  <2>1. e \in Seq(Lines) /\ i \in Heads(e) /\ \A k \in Heads(e) : k <= i
    BY <1>2
  <2>2. /\ Body(e, i) = (i + 1)..Len(e)
        /\ \A j : j \in Stack(e, i) <=> j \in (i + 1)..Len(e) /\ e[j].kind = "frame"
    BY <2>1, LastBody
  <2> QED BY <2>2, <1>2
<1>5. Stack(e, i) = Stack(d, i)
  <2>1. \A j : j \in (i + 1)..(n + 1) <=> j \in (i + 1)..n \/ j = n + 1
    <3>1. i \in Nat /\ n \in Nat /\ i <= n
      BY <1>2, <1>3
    <3> QED BY ONLY <3>1
  <2>2. \A j \in (i + 1)..n : e[j] = d[j]
    BY <1>2, <1>3
  <2>3. \A j : j \in Stack(e, i) <=> j \in Stack(d, i)
    BY <2>1, <2>2, <1>1, <1>2, <1>3, <1>4
  <2> QED BY <2>3
<1>6. \A j \in Stack(d, i) : e[j] = d[j]
  BY <1>2, <1>3
<1>7. e[i] = d[i]
  BY <1>2, <1>3
<1>8. IsFiniteSet(Stack(d, i)) /\ Cardinality(Stack(d, i)) \in Nat
  BY <1>2, <1>3, UpToIs
<1>9. s.frames \in Seq(Stacked \cup {NoStack}) /\ Len(s.frames) = Bare(d, i) + Cardinality(Stack(d, i))
  BY DEF Samples, IsSample
<1>10. CASE i = n
  <2>1. Stack(d, i) = {} /\ Bare(d, i) = 0
    <3>1. (i + 1)..n = {}
      BY <1>10, <1>2
    <3> QED BY <3>1, <1>3 DEF Bare
  <2>2. Len(s.frames) = 0
    BY <2>1, <1>9, FS_EmptySet
  <2>3. s.frames = <<>>
    BY <2>2, <1>9
  <2> DEFINE t == [s EXCEPT !.frames = <<NoStack>>]
  <2>4. /\ t.tid = s.tid /\ t.comm = s.comm /\ t.event = s.event /\ t.time = s.time
        /\ t.frames = <<NoStack>>
    BY DEF Samples
  <2>5. Bare(e, i) = 1
    <3>1. i + 1 \in (i + 1)..(n + 1) /\ i + 1 = n + 1
      BY <1>10, <1>2
    <3> QED BY <3>1, <1>1, <1>2, <1>4 DEF Bare
  <2>6. Len(t.frames) = 1 /\ t.frames[1].sym = Unknown
    BY <2>4 DEF NoStack
  <2>7. Stack(e, i) = {} /\ Cardinality(Stack(e, i)) = 0
    BY <1>5, <2>1, FS_EmptySet
  <2> HIDE DEF t
  <2>8. IsSample(e, i, t)
    BY <1>2, <1>7, <2>4, <2>5, <2>6, <2>7 DEF IsSample
  <2> QED BY <2>8, <2>3 DEF t, e, l
<1>11. CASE i # n
  <2>1. i + 1 \in 1..n /\ i + 1 \in (i + 1)..n /\ i + 1 \in (i + 1)..(n + 1)
    BY <1>11, <1>2, <1>3
  <2>2. e[i + 1] = d[i + 1]
    BY <2>1, <1>2
  <2>3. Bare(e, i) = Bare(d, i) /\ Bare(d, i) \in {0, 1}
    BY <2>1, <2>2, <1>3, <1>4 DEF Bare
  <2>4. s.frames # <<>>
    <3>1. CASE d[i + 1].kind = "hex"
      <4>1. Bare(d, i) = 1
        BY <3>1, <2>1, <1>3 DEF Bare
      <4> QED BY <4>1, <1>8, <1>9
    <3>2. CASE d[i + 1].kind # "hex"
      <4>1. i + 1 \in Stack(d, i)
        BY <3>2, <2>1, <1>3
      <4>2. Cardinality(Stack(d, i)) # 0
        BY <4>1, <1>8, FS_EmptySet
      <4> QED BY <4>2, <2>3, <1>8, <1>9
    <3> QED BY <3>1, <3>2
  <2>5. IsSample(e, i, s)
    BY <1>2, <1>5, <1>6, <1>7, <2>3 DEF IsSample
  <2> QED BY <2>4, <2>5 DEF e, l
<1> QED BY <1>10, <1>11

-----------------------------------------------------------------------------
(* The samples of a dump.                                                  *)

\* commit() makes the sample in hand the last of those kept.
LEMMA Committed ==
  ASSUME NEW d \in Seq(Lines), NEW ss \in Seq(Samples), NEW s \in Samples,
         NEW i \in Heads(d), \A k \in Heads(d) : k <= i,
         d[i].event # "mem" => IsSample(d, i, s), Are(d, ss, Kept(d) \ {i})
  PROVE  Are(d, IF d[i].event = "mem" THEN ss ELSE Append(ss, s), Kept(d))
<1>1. Len(d) \in Nat /\ Kept(d) \in SUBSET (1..Len(d)) /\ Kept(d) \subseteq Heads(d)
  BY DumpIs
<1>2. CASE d[i].event = "mem"
  <2>1. Kept(d) \ {i} = Kept(d)
    BY <1>2 DEF Kept
  <2> QED BY <2>1, <1>2
<1>3. CASE d[i].event # "mem"
  <2> DEFINE tt == Append(ss, s)
             K  == Kept(d)
  <2>1. i \in K /\ \A k \in K : k <= i
    BY <1>1, <1>3 DEF Kept
  <2>2. /\ UpTo(K, i) = Cardinality(K) /\ Cardinality(K \ {i}) = Cardinality(K) - 1
        /\ \A k \in K \ {i} : UpTo(K, k) \in 1..Cardinality(K \ {i})
    <3> HIDE DEF K
    <3> QED BY <2>1, <1>1, UpToLast DEF K
  <2>3. Cardinality(K) \in Nat
    BY <1>1, UpToIs
  <2>4. Len(ss) = Cardinality(K) - 1 /\ \A k \in K \ {i} : IsSample(d, k, ss[UpTo(K, k)])
    BY <2>2 DEF Are
  <2>5. /\ Len(tt) = Cardinality(K) /\ tt[Cardinality(K)] = s
        /\ \A m \in 1..(Cardinality(K) - 1) : tt[m] = ss[m]
    <3> HIDE DEF K
    <3> QED BY <2>3, <2>4
  <2>6. ASSUME NEW k \in K PROVE IsSample(d, k, tt[UpTo(K, k)])
    <3>1. CASE k = i
      BY <3>1, <1>3, <2>2, <2>5
    <3>2. CASE k # i
      <4>1. tt[UpTo(K, k)] = ss[UpTo(K, k)]
        BY <3>2, <2>2, <2>5
      <4> QED BY <4>1, <3>2, <2>4
    <3> QED BY <3>1, <3>2
  <2>7. Are(d, tt, Kept(d))
    BY <2>5, <2>6 DEF Are
  <2> QED BY <2>7, <1>3
<1> QED BY <1>2, <1>3

\* What is done stays as it is when a line follows.
LEMMA StillDone ==
  ASSUME NEW d \in Seq(Lines), NEW l \in Lines,
         NEW ss, NEW K \in SUBSET Kept(d), Are(d, ss, K),
         \A i \in K : l.kind = "header" \/ \E k \in Heads(d) : i < k
  PROVE  Are(Append(d, l), ss, K)
<1> DEFINE e == Append(d, l)
<1>1. /\ Len(d) \in Nat
      /\ Kept(e) = Kept(d) \cup {Len(d) + 1} \/ Kept(e) = Kept(d)
  BY Longer
<1>2. Kept(d) \in SUBSET (1..Len(d)) /\ Kept(d) \subseteq Heads(d)
  BY DumpIs
<1>3. ASSUME NEW i \in K PROVE IsSample(e, i, ss[UpTo(Kept(e), i)])
  <2>1. UpTo(Kept(e), i) = UpTo(Kept(d), i)
    <3>1. i \in 1..Len(d)
      BY <1>2
    <3>2. UpTo(Kept(d) \cup {Len(d) + 1}, i) = UpTo(Kept(d), i)
      BY <3>1, <1>1, <1>2, UpToMore
    <3> QED BY <3>2, <1>1
  <2>2. IsSample(d, i, ss[UpTo(Kept(d), i)])
    BY DEF Are
  <2>3. i \in Heads(d) /\ (l.kind = "header" \/ \E k \in Heads(d) : i < k)
    BY <1>2
  <2>4. \A s : IsSample(e, i, s) <=> IsSample(d, i, s)
    BY <2>3, Frozen
  <2> QED BY <2>1, <2>2, <2>4
<1> QED BY <1>3 DEF Are

\* The sample of a header has no line yet.
LEMMA Begun ==
  ASSUME NEW d \in Seq(Lines), NEW h \in Headers,
         NEW s, s.tid = h.tid, s.comm = h.comm, s.event = h.event,
         s.time = Cardinality(Heads(d)) + 1, s.frames = <<>>
  PROVE  IsSample(Append(d, Header(h)), Len(d) + 1, s)
<1> DEFINE n == Len(d)
           l == Header(h)
           e == Append(d, l)
<1>1. /\ l \in Lines /\ l.kind = "header" /\ l.tid = h.tid /\ l.comm = h.comm /\ l.event = h.event
  BY DEF Lines, Header
<1>2. /\ n \in Nat /\ e \in Seq(Lines) /\ Len(e) = n + 1 /\ e[n + 1] = l
      /\ Heads(e) = Heads(d) \cup {n + 1}
  BY <1>1, Longer
<1>3. Heads(d) \in SUBSET (1..n)
  BY DumpIs
<1> HIDE DEF n, l, e
<1>4. UpTo(Heads(e), n + 1) = Cardinality(Heads(d)) + 1
  BY <1>2, <1>3, UpToMore
<1>5. Body(e, n + 1) = {}
  <2>1. DOMAIN e = 1..(n + 1)
    BY <1>2
  <2>2. \A j \in 1..(n + 1) : ~(n + 1 < j)
    BY <1>2
  <2> QED BY <2>1, <2>2 DEF Body
<1>6. Stack(e, n + 1) = {} /\ Bare(e, n + 1) = 0 /\ Cardinality(Stack(e, n + 1)) = 0
  BY <1>5, FS_EmptySet DEF Stack, Bare
<1>7. Len(s.frames) = 0
  OBVIOUS
<1>8. IsSample(e, n + 1, s)
  BY <1>1, <1>2, <1>4, <1>6, <1>7 DEF IsSample
<1> QED BY <1>8 DEF n, e, l

-----------------------------------------------------------------------------
(* What the parser has done so far, step by step.                          *)

LEMMA HeadsAreFew ==
  ASSUME NEW d \in Seq(Lines)
  PROVE  Cardinality(Heads(d)) \in 0..Len(d)
<1>1. Len(d) \in Nat /\ Heads(d) \subseteq 1..Len(d)
  BY DumpIs
<1>2. IsFiniteSet(1..Len(d)) /\ Cardinality(1..Len(d)) = Len(d)
  <2>1. /\ IsFiniteSet(1..Len(d))
        /\ Cardinality(1..Len(d)) = IF 1 > Len(d) THEN 0 ELSE Len(d) - 1 + 1
    <3>1. 1 \in Int /\ Len(d) \in Int
      BY ONLY <1>1
    <3> QED BY ONLY <3>1, FS_Interval
  <2> QED BY <1>1, <2>1
<1>3. Cardinality(Heads(d)) <= Len(d)
  BY <1>1, <1>2, FS_Subset
<1>4. Cardinality(Heads(d)) \in Nat
  BY <1>1, UpToIs
<1> QED BY <1>1, <1>3, <1>4

\* A sample with other frames.
LEMMA Reframed ==
  ASSUME NEW s \in Samples, NEW fs \in Seq(Stacked \cup {NoStack})
  PROVE  [s EXCEPT !.frames = fs] \in Samples
<1> DEFINE T == {h.tid : h \in Headers}
           C == {h.comm : h \in Headers}
           E == {h.event : h \in Headers}
           P == Nat \ {0}
           F == Seq(Stacked \cup {NoStack})
<1>1. Samples = [tid : T, comm : C, event : E, time : Nat, period : P, frames : F]
  BY DEF Samples
<1> HIDE DEF T, C, E, P, F
<1>2. fs \in F
  BY DEF F
<1> QED BY <1>1, <1>2

LEMMA ReportStart == ReportInit => ReportInv
<1> SUFFICES ASSUME ReportInit PROVE ReportInv
  OBVIOUS
<1>1. ReportType
  <2>1. <<>> \in Seq(Lines) /\ <<>> \in Seq(Samples) /\ Len(<<>>) = 0 /\ 0 <= MaxLines
    BY ReportConstants
  <2> QED BY <2>1, Zenon DEF ReportInit, ReportType
<1>2. ReadInv
  BY DEF ReportInit, ReadInv
<1> QED BY <1>1, <1>2 DEF ReportInv

\* commit() leaves the samples kept so far.
LEMMA CommitIs ==
  ASSUME ReportInv, ~eof, Commit
  PROVE  samples' \in Seq(Samples) /\ Are(dump, samples', Kept(dump))
<1>1. ReportType /\ ReadInv
  BY DEF ReportInv
<1>2. CASE dump = <<>>
  <2>1. cur = Nothing /\ samples = <<>>
    BY <1>1, <1>2 DEF ReadInv
  <2>2. samples' = <<>>
    BY <2>1 DEF Commit
  <2>3. Kept(dump) = {}
    BY <1>2 DEF Kept, Heads
  <2> QED BY <2>2, <2>3, FS_EmptySet DEF Are
<1>3. CASE dump # <<>>
  <2>1. PICK i \in Heads(dump) : InHand(i)
    BY <1>1, <1>3 DEF ReadInv
  <2>2. /\ \A k \in Heads(dump) : k <= i
        /\ cur # Nothing /\ (drop <=> dump[i].event = "mem")
        /\ dump[i].event # "mem" => IsSample(dump, i, cur)
        /\ Are(dump, samples, Kept(dump) \ {i})
    BY <2>1 DEF InHand
  <2>3. cur \in Samples /\ samples \in Seq(Samples) /\ dump \in Seq(Lines)
    BY <1>1, <2>2 DEF ReportType
  <2>4. samples' = IF dump[i].event = "mem" THEN samples ELSE Append(samples, cur)
    BY <2>2 DEF Commit
  <2>5. Are(dump, IF dump[i].event = "mem" THEN samples ELSE Append(samples, cur), Kept(dump))
    BY <2>2, <2>3, Committed
  <2>6. samples' \in Seq(Samples)
    BY <2>3, <2>4
  <2> QED BY <2>4, <2>5, <2>6
<1> QED BY <1>2, <1>3

LEMMA HeaderStep ==
  ASSUME ReportInv, NEW h \in Headers, ReadHeader(h)
  PROVE  ReportInv'
<1> DEFINE l == Header(h)
           n == Cardinality(Heads(dump)) + 1
<1>1. /\ ReportType /\ ~eof /\ Len(dump) < MaxLines /\ dump' = Append(dump, l) /\ eof' = eof /\ Commit
      /\ cur' = [tid |-> h.tid, comm |-> h.comm, event |-> h.event, time |-> n, period |-> Period[n],
                 frames |-> <<>>]
      /\ drop' = (h.event = "mem")
  BY DEF ReportInv, ReadHeader, NextLine, Ids
<1>2. l \in Lines /\ l.kind = "header" /\ l.event = h.event
  BY DEF Lines, Header
<1>3. dump \in Seq(Lines) /\ Len(dump) \in Nat /\ MaxLines \in Nat /\ eof \in BOOLEAN
  BY <1>1, ReportConstants DEF ReportType
<1>4. n \in 1..MaxLines
  BY <1>1, <1>3, HeadsAreFew
<1>5. samples' \in Seq(Samples) /\ Are(dump, samples', Kept(dump))
  BY <1>1, CommitIs
<1> HIDE DEF l
<1>6. /\ dump' \in Seq(Lines) /\ Len(dump') = Len(dump) + 1 /\ dump'[Len(dump) + 1] = l
      /\ Heads(dump') = Heads(dump) \cup {Len(dump) + 1}
      /\ l.event # "mem" => Kept(dump') = Kept(dump) \cup {Len(dump) + 1}
      /\ l.event = "mem" => Kept(dump') = Kept(dump)
  BY <1>1, <1>2, <1>3, Longer
<1>7. Period[n] \in Nat \ {0}
  <2> HIDE DEF n
  <2> QED BY <1>4, ReportConstants
<1>8. cur' \in Samples
  <2> HIDE DEF n
  <2>1. n \in Nat /\ <<>> \in Seq(Stacked \cup {NoStack})
    BY <1>4
  <2>2. /\ h.tid \in {k.tid : k \in Headers} /\ h.comm \in {k.comm : k \in Headers}
        /\ h.event \in {k.event : k \in Headers}
    OBVIOUS
  <2> QED BY <1>1, <1>7, <2>1, <2>2 DEF Samples
<1>9. ReportType'
  <2>1. Len(dump') <= MaxLines
    BY <1>1, <1>3, <1>6
  <2>2. drop' \in BOOLEAN /\ eof' \in BOOLEAN
    BY <1>1, <1>3
  <2> QED BY <1>5, <1>6, <1>8, <2>1, <2>2 DEF ReportType
<1>10. ASSUME NEW m, m = Len(dump) + 1 PROVE InHand(m)'
  <2>1. \A k \in Heads(dump') : k <= Len(dump) + 1
    <3>1. \A k \in Heads(dump) : k \in 1..Len(dump)
      BY <1>3, DumpIs
    <3> QED BY <1>3, <1>6, <3>1
  <2>2. IsSample(dump', Len(dump) + 1, cur')
    <3>1. /\ cur'.tid = h.tid /\ cur'.comm = h.comm /\ cur'.event = h.event
          /\ cur'.time = Cardinality(Heads(dump)) + 1 /\ cur'.frames = <<>>
      BY <1>1
    <3>2. IsSample(Append(dump, Header(h)), Len(dump) + 1, cur')
      BY <1>3, <3>1, Begun
    <3> QED BY <3>2, <1>1 DEF l
  <2>3. Are(dump', samples', Kept(dump))
    <3>1. Are(Append(dump, l), samples', Kept(dump))
      BY <1>2, <1>3, <1>5, StillDone
    <3> QED BY <3>1, <1>1
  <2>4. Kept(dump') \ {Len(dump) + 1} = Kept(dump)
    <3>1. Len(dump) + 1 \notin Kept(dump)
      <4>1. \A k \in Kept(dump) : k \in 1..Len(dump)
        BY <1>3, DumpIs
      <4> QED BY <4>1, <1>3
    <3> QED BY <3>1, <1>6
  <2>5. cur' # Nothing
    BY <1>8, ReportConstants
  <2>6. drop' <=> dump'[Len(dump) + 1].event = "mem"
    BY <1>1, <1>2, <1>6
  <2>7. Len(dump) + 1 \in Heads(dump')
    BY <1>6
  <2>8. (/\ m \in Heads(dump') /\ \A k \in Heads(dump') : k <= m
         /\ cur' # Nothing /\ (drop' <=> dump'[m].event = "mem")
         /\ ~drop' => IsSample(dump', m, cur')
         /\ Are(dump', samples', Kept(dump') \ {m}))
    BY <1>10, <2>1, <2>2, <2>3, <2>4, <2>5, <2>6, <2>7
  <2> QED BY <2>8 DEF InHand
<1>11. ReadInv'
  <2>1. dump' # <<>> /\ ~eof' /\ Len(dump) + 1 \in Heads(dump')
    BY <1>1, <1>3, <1>6
  <2>2. \E i \in Heads(dump') : i = Len(dump) + 1
    BY <2>1
  <2>3. \E i \in Heads(dump') : InHand(i)'
    BY <1>10, <2>2
  <2> QED BY <2>1, <2>3 DEF ReadInv
<1> QED BY <1>9, <1>11 DEF ReportInv

\* A line under a header: the sample in hand is still that of the last header.
LEMMA UnderHeader ==
  ASSUME ReportInv, NEW l \in Lines, l.kind # "header", dump # <<>>, NextLine(l),
         UNCHANGED <<drop, samples>>, cur' \in Samples,
         \A i \in Heads(dump) :
           (\A k \in Heads(dump) : k <= i) /\ ~drop /\ cur \in Samples /\ IsSample(dump, i, cur)
             => IsSample(dump', i, cur')
  PROVE  ReportInv'
<1>1. /\ ReportType /\ ReadInv /\ ~eof /\ Len(dump) < MaxLines /\ dump' = Append(dump, l)
      /\ eof' = eof /\ drop' = drop /\ samples' = samples
  BY DEF ReportInv, NextLine
<1>2. dump \in Seq(Lines) /\ Len(dump) \in Nat /\ MaxLines \in Nat /\ eof \in BOOLEAN /\ drop \in BOOLEAN
      /\ samples \in Seq(Samples)
  BY <1>1, ReportConstants DEF ReportType
<1>3. /\ dump' \in Seq(Lines) /\ Len(dump') = Len(dump) + 1
      /\ \A i \in 1..Len(dump) : dump'[i] = dump[i]
      /\ Heads(dump') = Heads(dump) /\ Kept(dump') = Kept(dump)
  BY <1>1, <1>2, Longer
<1>4. ReportType'
  <2>1. Len(dump') <= MaxLines
    BY <1>1, <1>2, <1>3
  <2> QED BY <1>1, <1>2, <1>3, <2>1 DEF ReportType
<1>5. PICK i \in Heads(dump) : InHand(i)
  BY <1>1 DEF ReadInv
<1>6. /\ \A k \in Heads(dump) : k <= i
      /\ cur # Nothing /\ (drop <=> dump[i].event = "mem")
      /\ ~drop => IsSample(dump, i, cur)
      /\ Are(dump, samples, Kept(dump) \ {i})
  BY <1>5 DEF InHand
<1>7. cur \in Samples
  BY <1>1, <1>6 DEF ReportType
<1>8. Are(dump', samples', Kept(dump') \ {i})
  <2>1. \A k \in Kept(dump) \ {i} : \E j \in Heads(dump) : k < j
    <3>1. Kept(dump) \subseteq Heads(dump) /\ \A k \in Heads(dump) : k \in Nat
      BY <1>2, DumpIs
    <3> QED BY <1>6, <3>1
  <2>2. Kept(dump) \ {i} \in SUBSET Kept(dump)
    OBVIOUS
  <2>3. Are(Append(dump, l), samples, Kept(dump) \ {i})
    BY <1>2, <1>6, <2>1, <2>2, StillDone
  <2> QED BY <2>3, <1>1, <1>3
<1>9. dump'[i] = dump[i]
  <2>1. i \in 1..Len(dump)
    BY <1>2, DumpIs
  <2> QED BY <2>1, <1>3
<1>10. ~drop' => IsSample(dump', i, cur')
  BY <1>1, <1>6, <1>7
<1>11. cur' # Nothing
  BY ReportConstants
<1>12. InHand(i)'
  BY <1>1, <1>3, <1>6, <1>8, <1>9, <1>10, <1>11 DEF InHand
<1>13. ReadInv'
  <2>1. dump' # <<>> /\ ~eof'
    BY <1>1, <1>2, <1>3
  <2>2. \E k \in Heads(dump') : InHand(k)'
    BY <1>3, <1>12
  <2> QED BY <2>1, <2>2 DEF ReadInv
<1> QED BY <1>4, <1>13 DEF ReportInv

LEMMA FrameStep ==
  ASSUME ReportInv, NEW f \in Stacked, ReadFrame(f)
  PROVE  ReportInv'
<1>1. Frame(f) \in Lines /\ Frame(f).kind # "header"
  BY DEF Lines, Frame
<1>2. /\ dump # <<>> /\ NextLine(Frame(f)) /\ UNCHANGED <<drop, samples>>
      /\ cur' = IF cur = Nothing \/ drop THEN cur ELSE [cur EXCEPT !.frames = Append(@, f)]
      /\ dump' = Append(dump, Frame(f)) /\ ~eof /\ ReportType /\ ReadInv
  BY DEF ReadFrame, NextLine, ReportInv
<1>3. cur \in Samples /\ dump \in Seq(Lines)
  BY <1>2 DEF ReadInv, ReportType, InHand
<1>4. cur # Nothing
  BY <1>3, ReportConstants
<1>5. cur' \in Samples
  <2>1. cur.frames \in Seq(Stacked \cup {NoStack})
    BY <1>3 DEF Samples
  <2>2. Append(cur.frames, f) \in Seq(Stacked \cup {NoStack})
    BY <2>1
  <2> QED BY <1>2, <1>3, <2>2, Reframed
<1>6. ASSUME NEW i \in Heads(dump), \A k \in Heads(dump) : k <= i, ~drop, IsSample(dump, i, cur)
      PROVE  IsSample(dump', i, cur')
  <2>1. cur' = [cur EXCEPT !.frames = Append(@, f)]
    BY <1>2, <1>4, <1>6
  <2>2. IsSample(Append(dump, Frame(f)), i, [cur EXCEPT !.frames = Append(@, f)])
    BY <1>3, <1>6, GrownFrame
  <2> QED BY <2>1, <2>2, <1>2
<1> QED BY <1>1, <1>2, <1>5, <1>6, UnderHeader

LEMMA HexStep ==
  ASSUME ReportInv, ReadHex
  PROVE  ReportInv'
<1>1. Hex \in Lines /\ Hex.kind # "header"
  BY DEF Lines, Hex
<1>2. /\ dump # <<>> /\ NextLine(Hex) /\ UNCHANGED <<drop, samples>>
      /\ cur' = IF cur = Nothing \/ drop \/ cur.frames # <<>> THEN cur
                ELSE [cur EXCEPT !.frames = <<NoStack>>]
      /\ dump' = Append(dump, Hex) /\ ~eof /\ ReportType /\ ReadInv
  BY DEF ReadHex, NextLine, ReportInv
<1>3. cur \in Samples /\ dump \in Seq(Lines)
  BY <1>2 DEF ReadInv, ReportType, InHand
<1>4. cur # Nothing
  BY <1>3, ReportConstants
<1>5. cur' \in Samples
  <2>1. <<NoStack>> \in Seq(Stacked \cup {NoStack})
    OBVIOUS
  <2> QED BY <1>2, <1>3, <2>1, Reframed
<1>6. ASSUME NEW i \in Heads(dump), \A k \in Heads(dump) : k <= i, ~drop, IsSample(dump, i, cur)
      PROVE  IsSample(dump', i, cur')
  <2>1. cur' = IF cur.frames # <<>> THEN cur ELSE [cur EXCEPT !.frames = <<NoStack>>]
    BY <1>2, <1>4, <1>6
  <2>2. IsSample(Append(dump, Hex), i, IF cur.frames # <<>> THEN cur ELSE [cur EXCEPT !.frames = <<NoStack>>])
    BY <1>3, <1>6, GrownHex
  <2> QED BY <2>1, <2>2, <1>2
<1> QED BY <1>1, <1>2, <1>5, <1>6, UnderHeader

LEMMA ReportStep == ReportInv /\ [ReportNext]_reportVars => ReportInv'
<1> SUFFICES ASSUME ReportInv, [ReportNext]_reportVars PROVE ReportInv'
  OBVIOUS
<1>1. CASE \E h \in Headers : ReadHeader(h)
  BY <1>1, HeaderStep
<1>2. CASE \E f \in Stacked : ReadFrame(f)
  BY <1>2, FrameStep
<1>3. CASE ReadHex
  BY <1>3, HexStep
<1>4. CASE ReadEnd
  <2>1. /\ ReportType /\ ~eof /\ eof' = TRUE /\ Commit /\ cur' = Nothing /\ dump' = dump /\ drop' = drop
    BY <1>4 DEF ReadEnd, ReportInv
  <2>2. samples' \in Seq(Samples) /\ Are(dump, samples', Kept(dump))
    BY <2>1, CommitIs
  <2>3. ReportType'
    BY <2>1, <2>2 DEF ReportType
  <2>4. ReadInv'
    BY <2>1, <2>2 DEF ReadInv
  <2> QED BY <2>3, <2>4 DEF ReportInv
<1>5. CASE UNCHANGED reportVars
  BY <1>5 DEF reportVars, ReportInv, ReportType, ReadInv, InHand
<1> QED BY <1>1, <1>2, <1>3, <1>4, <1>5 DEF ReportNext

THEOREM ReportTypeCorrect == ReportSpec => []ReportType
<1>1. ReportInv => ReportType
  BY DEF ReportInv
<1> QED BY <1>1, ReportStart, ReportStep, PTL DEF ReportSpec

THEOREM SamplesAreOfTheDump == ReportSpec => []SamplesAreTheDump
<1>1. ReportInv => SamplesAreTheDump
  BY DEF ReportInv, ReadInv, Are, SamplesAreTheDump
<1> QED BY <1>1, ReportStart, ReportStep, PTL DEF ReportSpec

-----------------------------------------------------------------------------
(* Prefixes.                                                               *)

LEMMA PrefixIs ==
  ASSUME NEW S, NEW p \in Seq(S), NEW q \in Seq(S)
  PROVE  IsPrefix(p, q) <=> Len(p) <= Len(q) /\ \A i \in 1..Len(p) : p[i] = q[i]
<1>1. Len(p) \in Nat /\ Len(q) \in Nat
  OBVIOUS
<1>2. SubSeq(p, 1, Len(p)) = p
  BY SeqEqual
<1>3. CASE Len(p) <= Len(q)
  <2> DEFINE r == SubSeq(q, 1, Len(p))
  <2>1. \A i \in 1..Len(p) : q[i] \in S
    BY <1>1, <1>3
  <2>2. r \in Seq(S) /\ Len(r) = Len(p) /\ \A i \in 1..Len(p) : r[i] = q[i]
    BY <1>1, <2>1
  <2>3. p = r <=> \A i \in 1..Len(p) : p[i] = r[i]
    <3> HIDE DEF r
    <3> QED BY <2>2, SeqEqual
  <2>4. p = r <=> \A i \in 1..Len(p) : p[i] = q[i]
    BY ONLY <2>2, <2>3
  <2> QED BY <1>2, <1>3, <2>4 DEF IsPrefix
<1>4. CASE ~(Len(p) <= Len(q))
  BY <1>4 DEF IsPrefix
<1> QED BY <1>3, <1>4

LEMMA FrontIs ==
  ASSUME NEW S, NEW p \in Seq(S), p # <<>>
  PROVE  /\ Front(p) \in Seq(S) /\ Len(p) \in Nat \ {0} /\ Len(Front(p)) = Len(p) - 1
         /\ \A i \in 1..(Len(p) - 1) : Front(p)[i] = p[i]
<1>1. Len(p) \in Nat \ {0}
  BY EmptySeq
<1> DEFINE m == Len(p) - 1
           q == SubSeq(p, 1, m)
<1>2. 1 \in Int /\ m \in Int /\ (\A i \in 1..m : p[i] \in S) /\ 1 <= m + 1
  BY <1>1
<1>4. Front(p) = q
  BY DEF Front
<1> HIDE DEF m
<1>3. /\ q \in Seq(S) /\ Len(q) = IF 1 <= m THEN m - 1 + 1 ELSE 0
      /\ \A i \in 1..(m - 1 + 1) : q[i] = p[1 + i - 1]
  BY ONLY <1>2, SubSeqProperties
<1> HIDE DEF q
<1>5. Len(q) = m
  BY ONLY <1>2, <1>3
<1>6. ASSUME NEW i \in 1..m PROVE q[i] = p[i]
  <2>1. i \in 1..(m - 1 + 1) /\ 1 + i - 1 = i
    BY ONLY <1>2, <1>6
  <2> QED BY <1>3, <2>1
<1> QED BY <1>1, <1>3, <1>4, <1>5, <1>6 DEF m

LEMMA PrefixTrans ==
  ASSUME NEW S, NEW p \in Seq(S), NEW q \in Seq(S), NEW r \in Seq(S), IsPrefix(p, q), IsPrefix(q, r)
  PROVE  IsPrefix(p, r)
<1>1. Len(p) \in Nat /\ Len(q) \in Nat /\ Len(r) \in Nat
  OBVIOUS
<1>2. /\ Len(p) <= Len(q) /\ \A i \in 1..Len(p) : p[i] = q[i]
      /\ Len(q) <= Len(r) /\ \A i \in 1..Len(q) : q[i] = r[i]
  BY PrefixIs
<1>3. Len(p) <= Len(r) /\ \A i \in 1..Len(p) : p[i] = r[i]
  BY ONLY <1>1, <1>2
<1> QED BY <1>3, PrefixIs

\* Of two prefixes of one path the shorter is one of the longer.
LEMMA PrefixesMeet ==
  ASSUME NEW S, NEW p \in Seq(S), NEW q \in Seq(S), NEW r \in Seq(S), IsPrefix(p, r), IsPrefix(q, r),
         Len(p) <= Len(q)
  PROVE  IsPrefix(p, q)
<1>1. Len(p) \in Nat /\ Len(q) \in Nat /\ Len(r) \in Nat
  OBVIOUS
<1>2. /\ \A i \in 1..Len(p) : p[i] = r[i]
      /\ \A i \in 1..Len(q) : q[i] = r[i]
  BY PrefixIs
<1>3. \A i \in 1..Len(p) : p[i] = q[i]
  BY <1>1, <1>2
<1> QED BY <1>3, PrefixIs

LEMMA PrefixEqual ==
  ASSUME NEW S, NEW p \in Seq(S), NEW q \in Seq(S), IsPrefix(p, q), Len(p) = Len(q)
  PROVE  p = q
BY PrefixIs, SeqEqual

\* A path and what leads to its last frame.
LEMMA PrefixFront ==
  ASSUME NEW S, NEW p \in Seq(S), p # <<>>
  PROVE  /\ IsPrefix(p, p) /\ IsPrefix(Front(p), p) /\ ~IsPrefix(p, Front(p))
         /\ \A q \in Seq(S) : IsPrefix(q, p) /\ q # p => IsPrefix(q, Front(p))
         /\ \A q \in Seq(S) : IsPrefix(q, p) /\ Len(q) = Len(p) - 1 => q = Front(p)
<1>1. /\ Front(p) \in Seq(S) /\ Len(p) \in Nat \ {0} /\ Len(Front(p)) = Len(p) - 1
      /\ \A i \in 1..(Len(p) - 1) : Front(p)[i] = p[i]
  BY FrontIs
<1>2. IsPrefix(p, p)
  BY <1>1, PrefixIs
<1>3. IsPrefix(Front(p), p)
  BY <1>1, PrefixIs
<1>4. ~IsPrefix(p, Front(p))
  BY <1>1, PrefixIs
<1>5. ASSUME NEW q \in Seq(S), IsPrefix(q, p), q # p PROVE IsPrefix(q, Front(p))
  <2>1. Len(q) \in Nat /\ Len(q) <= Len(p) /\ Len(q) # Len(p)
    BY <1>5, PrefixIs, PrefixEqual
  <2> QED BY <1>1, <1>3, <1>5, <2>1, PrefixesMeet
<1>6. ASSUME NEW q \in Seq(S), IsPrefix(q, p), Len(q) = Len(p) - 1 PROVE q = Front(p)
  <2>1. q # p
    BY <1>1, <1>6
  <2> QED BY <1>1, <1>5, <1>6, <2>1, PrefixEqual
<1> QED BY <1>2, <1>3, <1>4, <1>5, <1>6

LEMMA NoPath ==
  ASSUME NEW S, NEW p \in Seq(S)
  PROVE  /\ IsPrefix(<<>>, p) /\ IsPrefix(p, p) /\ (Len(p) = 0 <=> p = <<>>) /\ <<>> \in Seq(S)
<1>1. <<>> \in Seq(S) /\ Len(<<>>) = 0 /\ Len(p) \in Nat /\ (p # <<>> => Len(p) \in Nat \ {0})
  BY EmptySeq
<1>2. IsPrefix(<<>>, p)
  <2> DEFINE e == <<>>
  <2>1. e \in Seq(S) /\ Len(e) = 0 /\ Len(e) <= Len(p)
    BY <1>1
  <2> HIDE DEF e
  <2>2. \A i \in 1..Len(e) : e[i] = p[i]
    BY <2>1
  <2>3. IsPrefix(e, p)
    BY <2>1, <2>2, PrefixIs
  <2> QED BY <2>3 DEF e
<1>3. IsPrefix(p, p)
  BY <1>1, PrefixIs
<1> QED BY <1>1, <1>2, <1>3

-----------------------------------------------------------------------------
(* The tree of a fold.                                                     *)

\* A fold of the page: chains of symbols of S, and of what was measured of each.
IsFold(fold, S) == /\ IsFiniteSet(DOMAIN fold) /\ DOMAIN fold \subseteq Seq(S)
                   /\ \A k \in DOMAIN fold : fold[k] \in Nat \ {0}

LEMMA PathsAre ==
  ASSUME NEW S, NEW fold, IsFold(fold, S)
  PROVE  /\ Paths(fold) \subseteq Seq(S)
         /\ \A p \in Seq(S) : p \in Paths(fold) <=> \E k \in DOMAIN fold : IsPrefix(p, k)
<1>1. ASSUME NEW p \in Paths(fold) PROVE p \in Seq(S) /\ \E k \in DOMAIN fold : IsPrefix(p, k)
  <2>1. PICK k \in DOMAIN fold : \E d \in 0..Len(k) : p = SubSeq(k, 1, d)
    BY DEF Paths
  <2>0. PICK d \in 0..Len(k) : p = SubSeq(k, 1, d)
    BY <2>1
  <2>2. k \in Seq(S) /\ Len(k) \in Nat
    BY DEF IsFold
  <2>3. \A i \in 1..d : k[i] \in S
    BY <2>2
  <2>4. p \in Seq(S) /\ Len(p) = d /\ \A i \in 1..d : p[i] = k[i]
    BY <2>0, <2>2, <2>3
  <2>5. IsPrefix(p, k)
    BY <2>2, <2>4, PrefixIs
  <2> QED BY <2>4, <2>5
<1>2. ASSUME NEW p \in Seq(S), NEW k \in DOMAIN fold, IsPrefix(p, k) PROVE p \in Paths(fold)
  <2>1. SubSeq(p, 1, Len(p)) = p /\ Len(p) \in Nat
    BY SeqEqual
  <2>2. p = SubSeq(k, 1, Len(p)) /\ Len(p) <= Len(k)
    BY <1>2, <2>1 DEF IsPrefix
  <2>3. k \in Seq(S) /\ Len(k) \in Nat
    BY DEF IsFold
  <2>4. Len(p) \in 0..Len(k)
    BY <2>1, <2>2, <2>3
  <2>5. p \in {SubSeq(k, 1, d) : d \in 0..Len(k)}
    BY <2>2, <2>4
  <2> QED BY <2>5 DEF Paths
<1> QED BY <1>1, <1>2

LEMMA ImageFinite ==
  ASSUME NEW f, IsFiniteSet(DOMAIN f), NEW T, T = {f[x] : x \in DOMAIN f}
  PROVE  IsFiniteSet(T)
<1> DEFINE g == [x \in DOMAIN f |-> f[x]]
<1>2. g \in Surjection(DOMAIN f, T)
  BY DEF Surjection
<1> QED BY <1>2, FS_Surjection

LEMMA PathsFinite ==
  ASSUME NEW S, NEW fold, IsFold(fold, S)
  PROVE  IsFiniteSet(Paths(fold))
<1> DEFINE Of(k)  == {SubSeq(k, 1, d) : d \in 0..Len(k)}
           Ways   == {Of(k) : k \in DOMAIN fold}
<1>1. ASSUME NEW k \in DOMAIN fold PROVE IsFiniteSet(Of(k))
  <2> DEFINE f == [d \in 0..Len(k) |-> SubSeq(k, 1, d)]
  <2>1. Len(k) \in Nat
    BY DEF IsFold
  <2>2. IsFiniteSet(0..Len(k))
    BY <2>1, FS_Interval
  <2>3. IsFiniteSet(DOMAIN f) /\ Of(k) = {f[d] : d \in DOMAIN f}
    BY <2>2
  <2> HIDE DEF f, Of
  <2> QED BY <2>3, ImageFinite
<1>2. IsFiniteSet(Ways)
  <2> DEFINE f == [k \in DOMAIN fold |-> Of(k)]
  <2>1. IsFiniteSet(DOMAIN f) /\ Ways = {f[k] : k \in DOMAIN f}
    <3> HIDE DEF Of
    <3> QED BY DEF IsFold
  <2> HIDE DEF f, Ways
  <2> QED BY <2>1, ImageFinite
<1>3. \A T \in Ways : IsFiniteSet(T)
  BY <1>1
<1>4. IsFiniteSet(UNION Ways)
  <2> HIDE DEF Ways
  <2> QED BY <1>2, <1>3, FS_UNION
<1> QED BY <1>4 DEF Paths

\* The first n frames of a path are one.
LEMMA Taken ==
  ASSUME NEW S, NEW fold, IsFold(fold, S), NEW q \in Paths(fold), NEW n \in 0..Len(q)
  PROVE  \E p \in Paths(fold) : Len(p) = n /\ IsPrefix(p, q)
<1> DEFINE p == SubSeq(q, 1, n)
<1>1. q \in Seq(S) /\ Len(q) \in Nat
  BY PathsAre
<1>2. \A i \in 1..n : q[i] \in S
  BY <1>1
<1>3. p \in Seq(S) /\ Len(p) = n /\ \A i \in 1..n : p[i] = q[i]
  BY <1>1, <1>2
<1> HIDE DEF p
<1>4. IsPrefix(p, q)
  BY <1>1, <1>3, PrefixIs
<1>5. PICK k \in DOMAIN fold : IsPrefix(q, k)
  BY <1>1, PathsAre
<1>6. k \in Seq(S)
  BY DEF IsFold
<1>7. IsPrefix(p, k)
  BY <1>1, <1>3, <1>4, <1>5, <1>6, PrefixTrans
<1>8. p \in Paths(fold)
  BY <1>3, <1>7, PathsAre
<1> QED BY <1>3, <1>4, <1>8

LEMMA FrontPath ==
  ASSUME NEW S, NEW fold, IsFold(fold, S), NEW q \in Paths(fold), q # <<>>
  PROVE  /\ Front(q) \in Paths(fold) /\ Len(q) \in Nat \ {0} /\ Len(Front(q)) = Len(q) - 1
         /\ IsPrefix(Front(q), q)
<1>1. q \in Seq(S)
  BY PathsAre
<1>2. Front(q) \in Seq(S) /\ Len(q) \in Nat \ {0} /\ Len(Front(q)) = Len(q) - 1
  BY <1>1, FrontIs
<1>3. IsPrefix(Front(q), q)
  BY <1>1, PrefixFront
<1>4. PICK p \in Paths(fold) : Len(p) = Len(q) - 1 /\ IsPrefix(p, q)
  <2>1. Len(q) - 1 \in 0..Len(q)
    BY <1>2
  <2> QED BY <2>1, Taken
<1>5. p = Front(q)
  <2>1. p \in Seq(S)
    BY PathsAre
  <2> QED BY <2>1, <1>1, <1>4, PrefixFront
<1> QED BY <1>2, <1>3, <1>4, <1>5

\* The children of a frame.
LEMMA KidsAre ==
  ASSUME NEW S, NEW fold, IsFold(fold, S), NEW p \in Paths(fold)
  PROVE  /\ Kids(fold, p) \subseteq Paths(fold) /\ IsFiniteSet(Kids(fold, p))
         /\ \A q : q \in Kids(fold, p) <=> q \in Paths(fold) /\ q # <<>> /\ Front(q) = p
<1>1. Kids(fold, p) \subseteq Paths(fold)
  BY DEF Kids
<1>2. IsFiniteSet(Kids(fold, p))
  BY <1>1, PathsFinite, FS_Subset
<1>3. p \in Seq(S) /\ Len(p) \in Nat
  BY PathsAre
<1>4. ASSUME NEW q \in Kids(fold, p) PROVE q # <<>> /\ Front(q) = p
  <2>1. q \in Seq(S) /\ Len(q) = Len(p) + 1 /\ IsPrefix(p, q)
    BY PathsAre DEF Kids
  <2>2. q # <<>>
    BY <1>3, <2>1
  <2> QED BY <1>3, <2>1, <2>2, PrefixFront
<1>5. ASSUME NEW q \in Paths(fold), q # <<>>, Front(q) = p PROVE q \in Kids(fold, p)
  BY <1>5, FrontPath DEF Kids
<1> QED BY <1>1, <1>2, <1>4, <1>5

LEMMA ValueIs ==
  ASSUME NEW S, NEW fold, IsFold(fold, S), NEW p \in Paths(fold)
  PROVE  Value(fold, p) \in Nat \ {0} /\ IsFiniteSet(Under(fold, p))
<1>1. IsFiniteSet(Under(fold, p)) /\ \A k \in Under(fold, p) : fold[k] \in Nat \ {0}
  <2>1. Under(fold, p) \subseteq DOMAIN fold
    BY DEF Under
  <2> QED BY <2>1, FS_Subset DEF IsFold
<1>2. PICK k \in Under(fold, p) : TRUE
  BY PathsAre DEF Under
<1>3. SumFunctionOnSet(fold, Under(fold, p)) = fold[k] + SumFunctionOnSet(fold, Under(fold, p) \ {k})
  <2>1. \A x \in Under(fold, p) : fold[x] \in Int
    BY <1>1
  <2> QED BY <1>1, <2>1, SumElement
<1>4. SumFunctionOnSet(fold, Under(fold, p) \ {k}) \in Nat
  <2>1. IsFiniteSet(Under(fold, p) \ {k}) /\ \A x \in Under(fold, p) \ {k} : fold[x] \in Nat
    BY <1>1, FS_Subset
  <2> QED BY <2>1, SumNat
<1>5. fold[k] \in Nat \ {0}
  BY <1>1
<1>6. SumFunctionOnSet(fold, Under(fold, p)) \in Nat \ {0}
  BY ONLY <1>3, <1>4, <1>5
<1> QED BY <1>1, <1>6 DEF Value

Values(fold) == [p \in Paths(fold) |-> Value(fold, p)]

\* What children stand for together is what the chains through them do.
LEMMA KidsTogether ==
  ASSUME NEW S, NEW fold, IsFold(fold, S), NEW p \in Paths(fold), NEW T \in SUBSET Kids(fold, p)
  PROVE  SumFunctionOnSet(Values(fold), T) <= Value(fold, p)
<1> DEFINE Through(K) == {k \in DOMAIN fold : \E q \in K : IsPrefix(q, k)}
           Sum(K)     == SumFunctionOnSet(Values(fold), K)
           Weight(U)  == SumFunctionOnSet(fold, U)
           Good       == {K \in SUBSET T : Sum(K) = Weight(Through(K))}
<1>1. /\ T \subseteq Paths(fold) /\ IsFiniteSet(T)
      /\ \A q \in T : q \in Seq(S) /\ Len(q) = Len(p) + 1 /\ IsPrefix(p, q)
  <2>1. T \subseteq Kids(fold, p) /\ IsFiniteSet(T)
    BY KidsAre, FS_Subset
  <2> QED BY <2>1, PathsAre DEF Kids
<1>2. \A q \in T : Values(fold)[q] = Value(fold, q) /\ Value(fold, q) \in Nat
  BY <1>1, ValueIs DEF Values
<1>3. IsFiniteSet(DOMAIN fold) /\ \A k \in DOMAIN fold : fold[k] \in Nat /\ fold[k] \in Int
  BY DEF IsFold
<1>4. ASSUME NEW K \in SUBSET T, \A x \in K : K \ {x} \in Good PROVE K \in Good
  <2>1. CASE K = {}
    <3>1. Through(K) = {}
      BY <2>1
    <3> HIDE DEF Through
    <3>2. Sum(K) = 0 /\ Weight(Through(K)) = 0
      BY <2>1, <3>1, SumEmpty
    <3> QED BY <3>2
  <2>2. CASE K # {}
    <3>1. PICK y \in K : TRUE
      BY <2>2
    <3> DEFINE J == K \ {y}
    <3>2. Sum(K) = Values(fold)[y] + Sum(J)
      <4>1. IsFiniteSet(K) /\ \A q \in K : Values(fold)[q] \in Int
        BY <1>1, <1>2, FS_Subset
      <4> QED BY <3>1, <4>1, SumElement
    <3>3. Through(K) = Under(fold, y) \cup Through(J)
      BY <3>1 DEF Under
    <3>4. Under(fold, y) \cap Through(J) = {}
      <4>1. ASSUME NEW k \in Under(fold, y), NEW q \in J, IsPrefix(q, k) PROVE FALSE
        <5>1. k \in Seq(S) /\ IsPrefix(y, k)
          BY DEF Under, IsFold
        <5>2. q \in Seq(S) /\ y \in Seq(S) /\ Len(q) = Len(y) /\ q # y /\ Len(q) \in Nat
          BY <1>1, <3>1
        <5>3. IsPrefix(q, y)
          BY <4>1, <5>1, <5>2, PrefixesMeet
        <5> QED BY <5>2, <5>3, PrefixEqual
      <4> QED BY <4>1
    <3>5. Weight(Under(fold, y) \cup Through(J)) = Weight(Under(fold, y)) + Weight(Through(J))
      <4>1. Under(fold, y) \in SUBSET (DOMAIN fold) /\ Through(J) \in SUBSET (DOMAIN fold)
        BY DEF Under
      <4> HIDE DEF Through, J
      <4> QED BY <1>3, <3>4, <4>1, SumUnion
    <3>6. Sum(J) = Weight(Through(J))
      BY <1>4, <3>1
    <3>7. Values(fold)[y] = Weight(Under(fold, y))
      BY <1>2, <3>1 DEF Value
    <3> HIDE DEF Sum, Weight, Through, J
    <3>8. Sum(K) = Weight(Through(K))
      BY <3>2, <3>3, <3>5, <3>6, <3>7
    <3> QED BY <3>8
  <2> QED BY <2>1, <2>2
<1>5. Sum(T) = Weight(Through(T))
  <2>1. SUBSET T \subseteq Good
    <3> HIDE DEF Good
    <3> QED BY <1>1, <1>4, SubsetInduction
  <2> QED BY <2>1
<1>6. Through(T) \in SUBSET Under(fold, p)
  <2>1. ASSUME NEW k \in DOMAIN fold, NEW q \in T, IsPrefix(q, k) PROVE k \in Under(fold, p)
    <3>1. k \in Seq(S) /\ p \in Seq(S)
      BY PathsAre DEF IsFold
    <3>2. IsPrefix(p, k)
      BY <1>1, <2>1, <3>1, PrefixTrans
    <3> QED BY <3>2 DEF Under
  <2> QED BY <2>1
<1>7. Weight(Through(T)) <= Weight(Under(fold, p))
  <2>1. IsFiniteSet(Under(fold, p)) /\ \A k \in Under(fold, p) : fold[k] \in Nat
    BY <1>3, ValueIs DEF Under
  <2> HIDE DEF Through
  <2> QED BY <1>6, <2>1, SumMore
<1> QED BY <1>5, <1>7 DEF Value

-----------------------------------------------------------------------------
(* The order of the children.                                              *)

\* No value of the sequence stands twice.
One(q) == \A i, j \in DOMAIN q : q[i] = q[j] => i = j

\* A finite set can be listed, each element once.
LEMMA Listed ==
  ASSUME NEW P, IsFiniteSet(P)
  PROVE  \E n \in Nat : /\ DOMAIN SetToSeq(P) = 1..n /\ One(SetToSeq(P))
                        /\ P = {SetToSeq(P)[i] : i \in 1..n}
<1> DEFINE n   == Cardinality(P)
           seq == SetToSeq(P)
<1>1. n \in Nat /\ ExistsBijection(1..n, P)
  BY FS_CardinalityType
<1>2. \E f \in [1..n -> P] : IsInjective(f)
  <2>1. PICK f \in Bijection(1..n, P) : TRUE
    BY <1>1 DEF ExistsBijection
  <2>2. f \in [1..n -> P] /\ IsInjective(f)
    BY <2>1 DEF Bijection, Injection, IsInjective
  <2> QED BY <2>2
<1>3. seq \in [1..n -> P] /\ IsInjective(seq)
  BY <1>2 DEF SetToSeq
<1> HIDE DEF seq
<1>4. IsFiniteSet(1..n) /\ Cardinality(1..n) = n
  <2>1. IsFiniteSet(1..n) /\ Cardinality(1..n) = IF 1 > n THEN 0 ELSE n - 1 + 1
    BY <1>1, FS_Interval
  <2> QED BY <1>1, <2>1
<1>5. seq \in Surjection(1..n, P)
  <2>1. seq \in Injection(1..n, P)
    BY <1>3 DEF Injection, IsInjective
  <2> QED BY <1>4, <2>1, FS_Injection
<1>6. DOMAIN seq = 1..n /\ One(seq) /\ P = {seq[i] : i \in 1..n}
  BY <1>3, <1>5 DEF Surjection, One, IsInjective
<1> QED BY <1>1, <1>6 DEF seq

LEMMA OrderIs ==
  ASSUME NEW P, IsFiniteSet(P)
  PROVE  /\ \A p \in P : Order(P)[p] \in Nat
         /\ \A p, q \in P : Order(P)[p] = Order(P)[q] => p = q
<1> DEFINE seq == SetToSeq(P)
<1>1. PICK n \in Nat : DOMAIN seq = 1..n /\ P = {seq[i] : i \in 1..n}
  BY Listed
<1>2. ASSUME NEW p \in P PROVE Order(P)[p] \in 1..n /\ seq[Order(P)[p]] = p
  <2>1. Order(P)[p] = CHOOSE i \in DOMAIN seq : seq[i] = p
    BY DEF Order, seq
  <2> HIDE DEF seq
  <2>2. \E i \in DOMAIN seq : seq[i] = p
    BY <1>1
  <2> QED BY <1>1, <2>1, <2>2
<1>3. \A p \in P : Order(P)[p] \in Nat
  BY <1>2
<1> HIDE DEF seq
<1> QED BY <1>2, <1>3

\* Of two frames one comes before the other.
LEMMA BeforeIs ==
  ASSUME NEW P, NEW value, NEW order, \A p \in P : value[p] \in Nat /\ order[p] \in Nat,
         \A p, q \in P : order[p] = order[q] => p = q,
         NEW p \in P, NEW q \in P
  PROVE  /\ ~Before(value, order, p, p)
         /\ p # q => Before(value, order, p, q) \/ Before(value, order, q, p)
         /\ \A r \in P : Before(value, order, p, q) /\ Before(value, order, q, r)
                           => Before(value, order, p, r)
<1>1. value[p] \in Nat /\ order[p] \in Nat /\ value[q] \in Nat /\ order[q] \in Nat
      /\ (p # q => order[p] # order[q])
  OBVIOUS
<1>2. ASSUME NEW r \in P, Before(value, order, p, q), Before(value, order, q, r)
      PROVE  Before(value, order, p, r)
  <2>1. value[r] \in Nat /\ order[r] \in Nat
    OBVIOUS
  <2> QED BY ONLY <1>1, <1>2, <2>1 DEF Before
<1>3. ~Before(value, order, p, p)
  BY ONLY <1>1 DEF Before
<1>4. p # q => Before(value, order, p, q) \/ Before(value, order, q, p)
  BY ONLY <1>1 DEF Before
<1> QED BY <1>2, <1>3, <1>4

Lefts(fold) == Lighter(fold, Values(fold), Order(Paths(fold)))

\* A child lies within its parent, and beside the other children of it.
LEMMA LeftsAre ==
  ASSUME NEW S, NEW fold, IsFold(fold, S), NEW p \in Paths(fold), p # <<>>
  PROVE  /\ Lefts(fold)[p] \in Nat
         /\ Lefts(fold)[p] + Values(fold)[p] <= Values(fold)[Front(p)]
         /\ \A q \in Paths(fold) : q # <<>> /\ q # p /\ Front(q) = Front(p) =>
              \/ Lefts(fold)[q] + Values(fold)[q] <= Lefts(fold)[p]
              \/ Lefts(fold)[p] + Values(fold)[p] <= Lefts(fold)[q]
<1> DEFINE P       == Paths(fold)
           V       == Values(fold)
           O       == Order(Paths(fold))
           Left(q) == {r \in Kids(fold, Front(q)) : Before(V, O, r, q)}
           Sum(T)  == SumFunctionOnSet(V, T)
<1>1. IsFiniteSet(P) /\ \A q \in P : V[q] \in Nat /\ O[q] \in Nat
  BY PathsFinite, ValueIs, OrderIs DEF Values
<1>2. \A q, r \in P : O[q] = O[r] => q = r
  BY PathsFinite, OrderIs
<1>3. \A q \in P : q # <<>> => Lefts(fold)[q] = Sum(Left(q))
  BY DEF Lefts, Lighter
<1>4. ASSUME NEW q \in P, q # <<>>
      PROVE  /\ Front(q) \in P /\ q \in Kids(fold, Front(q)) /\ Left(q) \subseteq Kids(fold, Front(q))
             /\ Kids(fold, Front(q)) \subseteq P /\ IsFiniteSet(Kids(fold, Front(q)))
             /\ q \notin Left(q)
  <2>1. Front(q) \in P
    BY <1>4, FrontPath
  <2>2. /\ q \in Kids(fold, Front(q)) /\ Kids(fold, Front(q)) \subseteq P
        /\ IsFiniteSet(Kids(fold, Front(q)))
    BY <1>4, <2>1, KidsAre
  <2>3. ~Before(V, O, q, q)
    <3> HIDE DEF P, V, O
    <3> QED BY <1>1, <1>2, BeforeIs
  <2> QED BY <2>1, <2>2, <2>3
<1> HIDE DEF P, V, O
<1>5. ASSUME NEW q \in P, q # <<>>, NEW T \in SUBSET Kids(fold, Front(q)), q \notin T
      PROVE  /\ Sum(T) \in Nat /\ Sum(T \cup {q}) = Sum(T) + V[q]
             /\ \A U \in SUBSET T : Sum(U) <= Sum(T)
  <2>1. T \cup {q} \subseteq P /\ IsFiniteSet(T \cup {q}) /\ IsFiniteSet(T)
    <3>1. T \cup {q} \in SUBSET Kids(fold, Front(q)) /\ T \in SUBSET Kids(fold, Front(q))
      BY <1>4, <1>5
    <3> QED BY <3>1, <1>4, <1>5, FS_Subset
  <2>2. \A x \in T \cup {q} : V[x] \in Int /\ V[x] \in Nat
    BY <1>1, <2>1
  <2>3. Sum(T) \in Nat
    BY <2>1, <2>2, SumNat
  <2>4. Sum(T \cup {q}) = V[q] + Sum((T \cup {q}) \ {q})
    <3> DEFINE W == T \cup {q}
    <3>1. q \in W /\ IsFiniteSet(W) /\ \A x \in W : V[x] \in Int
      BY <2>1, <2>2
    <3> HIDE DEF W
    <3>2. Sum(W) = V[q] + Sum(W \ {q})
      BY <3>1, SumElement
    <3> QED BY <3>2 DEF W
  <2>5. (T \cup {q}) \ {q} = T
    BY <1>5
  <2>6. \A U \in SUBSET T : Sum(U) <= Sum(T)
    BY <2>1, <2>2, SumMore
  <2>7. V[q] \in Nat
    BY <1>1
  <2> HIDE DEF Sum
  <2>8. Sum(T \cup {q}) = V[q] + Sum(T)
    BY <2>4, <2>5
  <2>9. Sum(T \cup {q}) = Sum(T) + V[q]
    BY ONLY <2>3, <2>7, <2>8
  <2> QED BY <2>3, <2>6, <2>9
<1>6. ASSUME NEW q \in P, q # <<>> PROVE Lefts(fold)[q] \in Nat /\ Sum(Left(q) \cup {q}) = Lefts(fold)[q] + V[q]
  <2>1. Left(q) \in SUBSET Kids(fold, Front(q)) /\ q \notin Left(q)
    BY <1>4, <1>6
  <2>2. Lefts(fold)[q] = Sum(Left(q))
    BY <1>3, <1>6
  <2> HIDE DEF Left, Sum
  <2> QED BY <1>5, <1>6, <2>1, <2>2
<1>7. Lefts(fold)[p] + V[p] <= V[Front(p)]
  <2>1. p \in P
    BY DEF P
  <2>2. Left(p) \cup {p} \in SUBSET Kids(fold, Front(p)) /\ Front(p) \in P
    BY <1>4, <2>1
  <2>3. Sum(Left(p) \cup {p}) <= Value(fold, Front(p))
    <3> DEFINE T == Left(p) \cup {p}
    <3>1. T \in SUBSET Kids(fold, Front(p)) /\ Front(p) \in Paths(fold)
      BY <2>2 DEF P
    <3> HIDE DEF T
    <3> QED BY <3>1, KidsTogether DEF V, T
  <2>4. V[Front(p)] = Value(fold, Front(p))
    BY <2>2 DEF V, P, Values
  <2> QED BY <1>6, <2>1, <2>3, <2>4
<1>8. ASSUME NEW q \in P, NEW r \in P, q # <<>>, r # <<>>, Front(q) = Front(r), Before(V, O, q, r)
      PROVE  Lefts(fold)[q] + V[q] <= Lefts(fold)[r]
  <2>1. q \in Left(r)
    BY <1>4, <1>8
  <2>2. Left(q) \cup {q} \in SUBSET Left(r)
    <3>1. ASSUME NEW x \in Left(q) PROVE x \in Left(r)
      <4>1. x \in P /\ Before(V, O, x, q)
        BY <1>4, <1>8
      <4>2. Before(V, O, x, r)
        BY <1>1, <1>2, <1>8, <4>1, BeforeIs
      <4> QED BY <1>8, <4>2
    <3> QED BY <2>1, <3>1
  <2>3. Left(r) \in SUBSET Kids(fold, Front(r)) /\ r \notin Left(r)
    BY <1>4, <1>8
  <2>4. Lefts(fold)[r] = Sum(Left(r)) /\ Sum(Left(q) \cup {q}) = Lefts(fold)[q] + V[q]
    BY <1>3, <1>6, <1>8
  <2> DEFINE T == Left(r)
             U == Left(q) \cup {q}
  <2>5. Sum(U) <= Sum(T)
    <3>1. T \in SUBSET Kids(fold, Front(r)) /\ r \notin T /\ U \in SUBSET T
      BY <2>2, <2>3
    <3> HIDE DEF T, U, Sum
    <3> QED BY <1>5, <1>8, <3>1
  <2> QED BY <2>4, <2>5
<1>9. ASSUME NEW q \in P, q # <<>>, q # p, Front(q) = Front(p)
      PROVE  \/ Lefts(fold)[q] + V[q] <= Lefts(fold)[p]
             \/ Lefts(fold)[p] + V[p] <= Lefts(fold)[q]
  <2>1. p \in P
    BY DEF P
  <2>2. Before(V, O, q, p) \/ Before(V, O, p, q)
    BY <1>1, <1>2, <1>9, <2>1, BeforeIs
  <2> QED BY <1>8, <1>9, <2>1, <2>2
<1> QED BY <1>6, <1>7, <1>9 DEF P, V

-----------------------------------------------------------------------------
(* Where the frames start.                                                 *)

LaidOut(fold)  == {p \in Paths(fold) : Len(p) < MaxDepth}
Begins(fold) == Start(Paths(fold), Lefts(fold))

LEMMA PathLen ==
  ASSUME NEW S, NEW fold, IsFold(fold, S), NEW p \in Paths(fold)
  PROVE  Len(p) \in Nat /\ (p = <<>> <=> Len(p) = 0)
<1>1. p \in Seq(S)
  BY PathsAre
<1> QED BY <1>1, NoPath

\* There is such a layout: it is made row by row.
LEMMA LayoutExists ==
  ASSUME NEW S, NEW fold, IsFold(fold, S), MaxDepth \in Nat
  PROVE  \E g : g = [p \in LaidOut(fold) |-> IF p = <<>> THEN 0 ELSE g[Front(p)] + Lefts(fold)[p]]
<1> DEFINE Rows(n) == {p \in Paths(fold) : Len(p) < n}
           Laid(n, g) == \A p \in Rows(n) : g[p] = IF p = <<>> THEN 0 ELSE g[Front(p)] + Lefts(fold)[p]
           Good == {n \in Nat : \E g : Laid(n, g)}
<1>1. 0 \in Good
  <2>1. Rows(0) = {}
    BY PathLen
  <2>2. Laid(0, 0)
    BY <2>1
  <2> HIDE DEF Laid
  <2> QED BY <2>2
<1>2. ASSUME NEW n \in Nat, n \in Good PROVE n + 1 \in Good
  <2>1. PICK g : Laid(n, g)
    BY <1>2
  <2> DEFINE h == [p \in Rows(n + 1) |-> IF p = <<>> THEN 0 ELSE g[Front(p)] + Lefts(fold)[p]]
  <2>2. ASSUME NEW p \in Rows(n + 1), p # <<>> PROVE Front(p) \in Rows(n) /\ Front(p) \in Rows(n + 1)
    <3>1. Front(p) \in Paths(fold) /\ Len(p) \in Nat /\ Len(Front(p)) = Len(p) - 1 /\ Len(p) < n + 1
      BY <2>2, FrontPath
    <3> QED BY <3>1
  <2>3. ASSUME NEW p \in Rows(n + 1), p # <<>> PROVE h[Front(p)] = g[Front(p)]
    BY <2>1, <2>2, <2>3
  <2>4. Laid(n + 1, h)
    <3>1. ASSUME NEW p \in Rows(n + 1)
          PROVE  h[p] = IF p = <<>> THEN 0 ELSE h[Front(p)] + Lefts(fold)[p]
      <4>1. h[p] = IF p = <<>> THEN 0 ELSE g[Front(p)] + Lefts(fold)[p]
        OBVIOUS
      <4> HIDE DEF h
      <4> QED BY <4>1, <2>3
    <3> HIDE DEF h
    <3> QED BY <3>1
  <2> HIDE DEF Laid, h
  <2> QED BY <2>4
<1>3. MaxDepth \in Good
  <2> HIDE DEF Good
  <2> QED BY <1>1, <1>2, NumberInduction
<1>4. PICK g : Laid(MaxDepth, g)
  BY <1>3
<1> DEFINE h == [p \in LaidOut(fold) |-> IF p = <<>> THEN 0 ELSE g[Front(p)] + Lefts(fold)[p]]
<1>5. \A p \in LaidOut(fold) : h[p] = g[p]
  BY <1>4 DEF LaidOut
<1>6. ASSUME NEW p \in LaidOut(fold), p # <<>> PROVE h[Front(p)] = g[Front(p)]
  <2>1. Front(p) \in Paths(fold) /\ Len(p) \in Nat /\ Len(Front(p)) = Len(p) - 1 /\ Len(p) < MaxDepth
    BY <1>6, FrontPath DEF LaidOut
  <2>2. Front(p) \in LaidOut(fold)
    BY <2>1 DEF LaidOut
  <2> QED BY <1>5, <2>2
<1>7. h = [p \in LaidOut(fold) |-> IF p = <<>> THEN 0 ELSE h[Front(p)] + Lefts(fold)[p]]
  <2>1. \A p \in LaidOut(fold) : h[p] = IF p = <<>> THEN 0 ELSE h[Front(p)] + Lefts(fold)[p]
    <3>1. \A p \in LaidOut(fold) : h[p] = IF p = <<>> THEN 0 ELSE g[Front(p)] + Lefts(fold)[p]
      OBVIOUS
    <3> HIDE DEF h
    <3> QED BY <3>1, <1>6
  <2>2. h = [p \in LaidOut(fold) |-> h[p]]
    OBVIOUS
  <2> HIDE DEF h
  <2> QED BY <2>1, <2>2
<1> HIDE DEF h
<1> QED BY <1>7

LEMMA BeginsAre ==
  ASSUME NEW S, NEW fold, IsFold(fold, S), MaxDepth \in Nat
  PROVE  /\ DOMAIN Begins(fold) = LaidOut(fold)
         /\ \A p \in LaidOut(fold) : Begins(fold)[p] \in Nat
         /\ \A p \in LaidOut(fold) : p # <<>> =>
              /\ p \in Paths(fold) /\ Front(p) \in LaidOut(fold) /\ Lefts(fold)[p] \in Nat
              /\ Begins(fold)[p] = Begins(fold)[Front(p)] + Lefts(fold)[p]
<1> DEFINE g == Begins(fold)
           L == Lefts(fold)
           Es(h) == h = [p \in LaidOut(fold) |-> IF p = <<>> THEN 0 ELSE h[Front(p)] + L[p]]
<1>0. g = CHOOSE h : Es(h)
  BY DEF Begins, Start, Offset, LaidOut
<1>1. ASSUME NEW p \in LaidOut(fold), p # <<>>
      PROVE  p \in Paths(fold) /\ Front(p) \in LaidOut(fold) /\ L[p] \in Nat /\ Len(p) \in Nat
             /\ Len(Front(p)) = Len(p) - 1
  <2>1. p \in Paths(fold) /\ Front(p) \in Paths(fold) /\ Len(p) \in Nat /\ Len(Front(p)) = Len(p) - 1
        /\ Len(p) < MaxDepth
    BY <1>1, FrontPath DEF LaidOut
  <2>2. L[p] \in Nat
    BY <1>1, <2>1, LeftsAre
  <2> QED BY <2>1, <2>2 DEF LaidOut
<1>2. Es(g)
  <2>1. \E h : Es(h)
    BY LayoutExists
  <2> HIDE DEF Es, g
  <2> QED BY <1>0, <2>1
<1>3. /\ DOMAIN g = LaidOut(fold)
      /\ \A p \in LaidOut(fold) : g[p] = IF p = <<>> THEN 0 ELSE g[Front(p)] + L[p]
  <2> HIDE DEF g, L
  <2> QED BY <1>2
<1> DEFINE Good == {n \in Nat : \A p \in LaidOut(fold) : Len(p) = n => g[p] \in Nat}
<1> HIDE DEF g, L
<1>4. 0 \in Good
  <2>1. \A p \in LaidOut(fold) : Len(p) = 0 => p = <<>>
    BY PathLen DEF LaidOut
  <2> QED BY <1>3, <2>1
<1>5. ASSUME NEW n \in Nat, n \in Good PROVE n + 1 \in Good
  <2>1. ASSUME NEW p \in LaidOut(fold), Len(p) = n + 1 PROVE g[p] \in Nat
    <3>1. p # <<>>
      BY <2>1, PathLen DEF LaidOut
    <3>2. Front(p) \in LaidOut(fold) /\ L[p] \in Nat /\ Len(Front(p)) = n
      BY <1>1, <2>1, <3>1
    <3>3. g[Front(p)] \in Nat
      BY <1>5, <3>2
    <3> QED BY <1>3, <3>1, <3>2, <3>3
  <2> QED BY <2>1
<1>6. Nat \subseteq Good
  <2> HIDE DEF Good
  <2> QED BY <1>4, <1>5, NumberInduction
<1>7. \A p \in LaidOut(fold) : g[p] \in Nat
  <2>1. \A p \in LaidOut(fold) : Len(p) \in Nat
    BY PathLen DEF LaidOut
  <2> QED BY <1>6, <2>1
<1>8. \A p \in LaidOut(fold) : p \in Paths(fold)
  BY DEF LaidOut
<1> QED BY <1>1, <1>3, <1>7, <1>8 DEF g, L

\* A frame lies within every one above it on its path.
LEMMA Nested ==
  ASSUME NEW S, NEW fold, IsFold(fold, S), MaxDepth \in Nat, NEW f \in LaidOut(fold), NEW q \in LaidOut(fold),
         IsPrefix(f, q)
  PROVE  /\ Begins(fold)[f] <= Begins(fold)[q]
         /\ Begins(fold)[q] + Values(fold)[q] <= Begins(fold)[f] + Values(fold)[f]
<1> DEFINE D == LaidOut(fold)
           B == Begins(fold)
           V == Values(fold)
           L == Lefts(fold)
           In(p, r) == B[p] <= B[r] /\ B[r] + V[r] <= B[p] + V[p]
           Good == {n \in Nat : \A p, r \in D : Len(r) = Len(p) + n /\ IsPrefix(p, r) => In(p, r)}
<1>1. \A p \in D : p \in Seq(S) /\ p \in Paths(fold) /\ Len(p) \in Nat /\ V[p] \in Nat /\ B[p] \in Nat
  <2>1. \A p \in D : p \in Paths(fold)
    BY DEF LaidOut
  <2>2. \A p \in Paths(fold) : p \in Seq(S) /\ Len(p) \in Nat
    BY PathsAre
  <2>3. \A p \in Paths(fold) : V[p] \in Nat
    BY ValueIs DEF Values
  <2>4. \A p \in D : B[p] \in Nat
    BY BeginsAre
  <2> HIDE DEF D, B, V
  <2> QED BY <2>1, <2>2, <2>3, <2>4
<1>2. ASSUME NEW p \in D, p # <<>> PROVE Front(p) \in D /\ Len(Front(p)) = Len(p) - 1 /\ In(Front(p), p)
  <2>1. /\ p \in Paths(fold) /\ Front(p) \in D /\ L[p] \in Nat
        /\ B[p] = B[Front(p)] + L[p]
    BY <1>2, BeginsAre
  <2>2. L[p] + V[p] <= V[Front(p)]
    BY <1>2, <2>1, LeftsAre
  <2>3. Len(Front(p)) = Len(p) - 1
    BY <1>2, <2>1, FrontPath
  <2>4. V[p] \in Nat /\ B[p] \in Nat /\ V[Front(p)] \in Nat /\ B[Front(p)] \in Nat
    BY <1>1, <2>1
  <2> HIDE DEF D, B, V, L
  <2>5. B[Front(p)] <= B[p] /\ B[p] + V[p] <= B[Front(p)] + V[Front(p)]
    BY ONLY <2>1, <2>2, <2>4
  <2> QED BY <2>1, <2>3, <2>5
<1> HIDE DEF D, B, V, L
<1>3. 0 \in Good
  <2>1. ASSUME NEW p \in D, NEW r \in D, Len(r) = Len(p) + 0, IsPrefix(p, r) PROVE In(p, r)
    <3>1. p = r
      BY <1>1, <2>1, PrefixEqual
    <3> QED BY <1>1, <3>1
  <2> QED BY <2>1
<1>4. ASSUME NEW n \in Nat, n \in Good PROVE n + 1 \in Good
  <2>1. ASSUME NEW p \in D, NEW r \in D, Len(r) = Len(p) + (n + 1), IsPrefix(p, r) PROVE In(p, r)
    <3>1. r # <<>> /\ r # p
      BY <1>1, <2>1, NoPath
    <3>2. Front(r) \in D /\ Len(Front(r)) = Len(r) - 1 /\ In(Front(r), r)
      BY <1>2, <3>1
    <3>3. IsPrefix(p, Front(r))
      BY <1>1, <2>1, <3>1, PrefixFront
    <3>4. Len(Front(r)) = Len(p) + n
      BY <1>1, <2>1, <3>2
    <3>5. In(p, Front(r))
      BY <1>4, <3>2, <3>3, <3>4
    <3>6. /\ B[p] \in Nat /\ V[p] \in Nat /\ B[r] \in Nat /\ V[r] \in Nat
          /\ B[Front(r)] \in Nat /\ V[Front(r)] \in Nat
      BY <1>1, <3>2
    <3> QED BY ONLY <3>2, <3>5, <3>6
  <2> QED BY <2>1
<1>5. Nat \subseteq Good
  <2> HIDE DEF Good
  <2> QED BY <1>3, <1>4, NumberInduction
<1>6. f \in D /\ q \in D
  BY DEF D
<1>7. Len(q) - Len(f) \in Nat /\ Len(q) = Len(f) + (Len(q) - Len(f))
  <2>1. Len(f) <= Len(q)
    BY <1>1, <1>6, PrefixIs
  <2> QED BY <1>1, <1>6, <2>1
<1>8. In(f, q)
  BY <1>5, <1>6, <1>7
<1> QED BY <1>8 DEF B, V

\* The frames of a row lie beside each other.
LEMMA Beside ==
  ASSUME NEW S, NEW fold, IsFold(fold, S), MaxDepth \in Nat, NEW f \in LaidOut(fold), NEW q \in LaidOut(fold),
         Len(f) = Len(q), f # q
  PROVE  \/ Begins(fold)[q] + Values(fold)[q] <= Begins(fold)[f]
         \/ Begins(fold)[f] + Values(fold)[f] <= Begins(fold)[q]
<1> DEFINE D == LaidOut(fold)
           B == Begins(fold)
           V == Values(fold)
           L == Lefts(fold)
           Apart(p, r) == B[r] + V[r] <= B[p] \/ B[p] + V[p] <= B[r]
           Good == {n \in Nat : \A p, r \in D : Len(p) = n /\ Len(r) = n /\ p # r => Apart(p, r)}
<1>1. \A p \in D : p \in Seq(S) /\ p \in Paths(fold) /\ Len(p) \in Nat /\ V[p] \in Nat /\ B[p] \in Nat
  <2>1. \A p \in D : p \in Paths(fold)
    BY DEF LaidOut
  <2>2. \A p \in Paths(fold) : p \in Seq(S) /\ Len(p) \in Nat
    BY PathsAre
  <2>3. \A p \in Paths(fold) : V[p] \in Nat
    BY ValueIs DEF Values
  <2>4. \A p \in D : B[p] \in Nat
    BY BeginsAre
  <2> HIDE DEF D, B, V
  <2> QED BY <2>1, <2>2, <2>3, <2>4
<1>2. ASSUME NEW p \in D, p # <<>>
      PROVE  /\ Front(p) \in D /\ Len(Front(p)) = Len(p) - 1 /\ L[p] \in Nat
             /\ B[p] = B[Front(p)] + L[p] /\ L[p] + V[p] <= V[Front(p)]
  <2>1. /\ p \in Paths(fold) /\ Front(p) \in D /\ L[p] \in Nat
        /\ B[p] = B[Front(p)] + L[p]
    BY <1>2, BeginsAre
  <2>2. L[p] + V[p] <= V[Front(p)]
    BY <1>2, <2>1, LeftsAre
  <2>3. Len(Front(p)) = Len(p) - 1
    BY <1>2, <2>1, FrontPath
  <2> QED BY <2>1, <2>2, <2>3
<1>3. ASSUME NEW p \in D, NEW r \in D, p # <<>>, r # <<>>, p # r, Front(p) = Front(r)
      PROVE  L[r] + V[r] <= L[p] \/ L[p] + V[p] <= L[r]
  BY <1>1, <1>3, LeftsAre
<1> HIDE DEF D, B, V, L
<1>4. 0 \in Good
  <2>1. \A p \in D : Len(p) = 0 => p = <<>>
    BY <1>1, NoPath
  <2> QED BY <2>1
<1>5. ASSUME NEW n \in Nat, n \in Good PROVE n + 1 \in Good
  <2>1. ASSUME NEW p \in D, NEW r \in D, Len(p) = n + 1, Len(r) = n + 1, p # r PROVE Apart(p, r)
    <3>1. p # <<>> /\ r # <<>>
      BY <1>1, <2>1, NoPath
    <3>2. /\ Front(p) \in D /\ Len(Front(p)) = n /\ L[p] \in Nat
          /\ B[p] = B[Front(p)] + L[p] /\ L[p] + V[p] <= V[Front(p)]
      BY <1>2, <2>1, <3>1
    <3>3. /\ Front(r) \in D /\ Len(Front(r)) = n /\ L[r] \in Nat
          /\ B[r] = B[Front(r)] + L[r] /\ L[r] + V[r] <= V[Front(r)]
      BY <1>2, <2>1, <3>1
    <3>4. /\ V[p] \in Nat /\ V[r] \in Nat /\ B[Front(p)] \in Nat /\ B[Front(r)] \in Nat
          /\ V[Front(p)] \in Nat /\ V[Front(r)] \in Nat
      BY <1>1, <3>2, <3>3
    <3>5. CASE Front(p) = Front(r)
      <4>1. L[r] + V[r] <= L[p] \/ L[p] + V[p] <= L[r]
        BY <1>3, <2>1, <3>1, <3>5
      <4>2. B[Front(p)] = B[Front(r)]
        BY <3>5
      <4> QED BY ONLY <3>2, <3>3, <3>4, <4>1, <4>2, SMTT(20) DEF Apart
    <3>6. CASE Front(p) # Front(r)
      <4>1. Apart(Front(p), Front(r))
        BY <1>5, <3>2, <3>3, <3>6
      <4>2. B[Front(p)] <= B[p] /\ B[p] + V[p] <= B[Front(p)] + V[Front(p)] /\ B[p] \in Nat
        BY ONLY <3>2, <3>4
      <4>3. B[Front(r)] <= B[r] /\ B[r] + V[r] <= B[Front(r)] + V[Front(r)] /\ B[r] \in Nat
        BY ONLY <3>3, <3>4
      <4> QED BY ONLY <3>4, <4>1, <4>2, <4>3
    <3> QED BY <3>5, <3>6
  <2> QED BY <2>1
<1>6. Nat \subseteq Good
  <2> HIDE DEF Good
  <2> QED BY <1>4, <1>5, NumberInduction
<1>7. f \in D /\ q \in D
  BY DEF D
<1>8. Apart(f, q)
  BY <1>1, <1>6, <1>7
<1> QED BY <1>8 DEF B, V

\* What a frame spans, of the rows below it and its own, is what is called from it.
LEMMA SpansItsTree ==
  ASSUME NEW S, NEW fold, IsFold(fold, S), MaxDepth \in Nat, NEW f \in LaidOut(fold), NEW q \in LaidOut(fold),
         Len(f) <= Len(q)
  PROVE  /\ Begins(fold)[f] <= Begins(fold)[q]
         /\ Begins(fold)[q] + Values(fold)[q] <= Begins(fold)[f] + Values(fold)[f]
         <=> IsPrefix(f, q)
<1> DEFINE B == Begins(fold)
           V == Values(fold)
           In(p, r) == B[p] <= B[r] /\ B[r] + V[r] <= B[p] + V[p]
<1>1. IsPrefix(f, q) => In(f, q)
  BY Nested
<1>2. ASSUME In(f, q) PROVE IsPrefix(f, q)
  <2>1. /\ f \in Paths(fold) /\ q \in Paths(fold) /\ Len(f) \in Nat /\ Len(q) \in Nat
        /\ Len(q) < MaxDepth
    BY PathLen DEF LaidOut
  <2>2. PICK p \in Paths(fold) : Len(p) = Len(f) /\ IsPrefix(p, q)
    <3>1. Len(f) \in 0..Len(q)
      BY <2>1
    <3> QED BY <2>1, <3>1, Taken
  <2>3. p \in LaidOut(fold)
    BY <2>1, <2>2 DEF LaidOut
  <2>4. In(p, q)
    BY <2>2, <2>3, Nested
  <2>5. /\ V[q] \in Nat \ {0} /\ V[p] \in Nat /\ V[f] \in Nat
        /\ B[q] \in Nat /\ B[p] \in Nat /\ B[f] \in Nat
    BY <2>1, <2>3, ValueIs, BeginsAre DEF Values
  <2>6. p # f => B[f] + V[f] <= B[p] \/ B[p] + V[p] <= B[f]
    BY <2>2, <2>3, Beside
  <2> HIDE DEF B, V
  <2>7. ~(B[f] + V[f] <= B[p] \/ B[p] + V[p] <= B[f])
    BY ONLY <1>2, <2>4, <2>5
  <2> QED BY <2>2, <2>6, <2>7
<1> QED BY <1>1, <1>2

\* Graph lays them out so, and its last row is one of them.
LEMMA GraphIs ==
  ASSUME NEW S, NEW fold, IsFold(fold, S), MaxDepth \in Nat
  PROVE  /\ Graph(fold).value = Values(fold) /\ Graph(fold).start = Begins(fold)
         /\ Graph(fold).last \in Nat
<1> DEFINE T == {0} \cup {Len(p) : p \in {p \in DOMAIN Begins(fold) : Values(fold)[p] > MinValue}}
<1>1. /\ Graph(fold).value = Values(fold) /\ Graph(fold).start = Begins(fold)
      /\ Graph(fold).last = Max(T)
  BY DEF Graph, Values, Begins, Lefts
<1>2. DOMAIN Begins(fold) = LaidOut(fold)
  BY BeginsAre
<1>3. \A p \in LaidOut(fold) : Len(p) \in Nat /\ Len(p) <= MaxDepth
  BY PathLen DEF LaidOut
<1>4. T \in SUBSET Nat /\ 0 \in T /\ \A m \in T : m <= MaxDepth
  BY <1>2, <1>3
<1>5. Max(T) \in T
  <2> HIDE DEF T
  <2> QED BY <1>4, GreatestNumber
<1> QED BY <1>1, <1>4, <1>5

\* The zoom of a flame graph, for every fold of every dump: what a click shows is the
\* subtree of the frame, the greyed rows are the path to it, and the frames of a row lie
\* beside each other (flamegraph.py, report_html.py: flameSvg, flameParent, flameRender).
THEOREM ZoomFollowsTheTree ==
  ASSUME NEW S, NEW fold, IsFold(fold, S), MaxDepth \in Nat
  PROVE  ZoomIsOfTheTree(Graph(fold))
<1> DEFINE g == Graph(fold)
           B == Begins(fold)
           V == Values(fold)
<1>1. g.value = V /\ g.start = B /\ g.last \in Nat
  BY GraphIs
<1>2. /\ Frames(g) = {p \in LaidOut(fold) : Len(p) <= g.last}
      /\ \A p, q : Covers(g, p, q) <=> B[p] <= B[q] /\ B[q] + V[q] <= B[p] + V[p]
  <2>1. DOMAIN B = LaidOut(fold)
    BY BeginsAre
  <2> HIDE DEF g, B, V
  <2> QED BY <1>1, <2>1 DEF Frames, Covers
<1>3. ASSUME NEW p \in Frames(g)
      PROVE  p \in LaidOut(fold) /\ p \in Paths(fold) /\ p \in Seq(S) /\ Len(p) \in Nat /\ Len(p) <= g.last
  <2>1. p \in LaidOut(fold) /\ Len(p) <= g.last
    BY <1>2
  <2>2. p \in Paths(fold)
    BY <2>1 DEF LaidOut
  <2> HIDE DEF g
  <2> QED BY <2>1, <2>2, PathsAre, PathLen
<1> HIDE DEF g
<1>4. ASSUME NEW p \in Frames(g), NEW q \in Frames(g), Len(p) <= Len(q)
      PROVE  Covers(g, p, q) <=> IsPrefix(p, q)
  <2>1. p \in LaidOut(fold) /\ q \in LaidOut(fold)
    BY <1>3
  <2> QED BY <1>2, <1>4, <2>1, SpansItsTree
<1> HIDE DEF B, V
<1>5. ASSUME NEW p \in Frames(g), NEW q \in Frames(g), IsPrefix(p, q)
      PROVE  p = q \/ Len(p) < Len(q)
  <2>1. p \in Seq(S) /\ q \in Seq(S) /\ Len(p) \in Nat /\ Len(q) \in Nat
    BY <1>3
  <2>2. Len(p) <= Len(q)
    BY <1>5, <2>1, PrefixIs
  <2>3. Len(p) = Len(q) => p = q
    BY <1>5, <2>1, PrefixEqual
  <2> QED BY <2>1, <2>2, <2>3
<1> SUFFICES ASSUME NEW f \in Frames(g)
             PROVE  /\ Shown(g, f) = {q \in Frames(g) : IsPrefix(f, q)}
                    /\ Greyed(g, f) = {q \in Frames(g) : IsPrefix(q, f)} \ {f}
                    /\ f # <<>> => FlameParent(g, f) = Front(f)
                    /\ \A q \in Frames(g) : Len(q) = Len(f) /\ q # f =>
                         \/ g.start[q] + g.value[q] <= g.start[f]
                         \/ g.start[f] + g.value[f] <= g.start[q]
  BY DEF ZoomIsOfTheTree, g
<1>6. \A q \in Frames(g) : Len(q) \in Nat /\ Len(f) \in Nat
  BY <1>3
<1>7. IsPrefix(f, f)
  BY <1>3, NoPath
<1>8. Shown(g, f) = {q \in Frames(g) : IsPrefix(f, q)}
  <2>1. ASSUME NEW q \in Frames(g)
        PROVE  (q = f \/ (Len(q) > Len(f) /\ Covers(g, f, q))) <=> IsPrefix(f, q)
    <3>1. Len(q) > Len(f) => (Covers(g, f, q) <=> IsPrefix(f, q))
      BY <1>4, <1>6
    <3>2. IsPrefix(f, q) => q = f \/ Len(q) > Len(f)
      BY <1>5, <1>6
    <3> QED BY <1>7, <3>1, <3>2
  <2> QED BY <2>1 DEF Shown
<1>9. Greyed(g, f) = {q \in Frames(g) : IsPrefix(q, f)} \ {f}
  <2>1. ASSUME NEW q \in Frames(g)
        PROVE  Len(q) < Len(f) /\ Covers(g, q, f) <=> IsPrefix(q, f) /\ q # f
    <3>1. Len(q) < Len(f) => (Covers(g, q, f) <=> IsPrefix(q, f))
      BY <1>4, <1>6
    <3>2. IsPrefix(q, f) => q = f \/ Len(q) < Len(f)
      BY <1>5
    <3>3. Len(q) < Len(f) => q # f
      BY <1>6
    <3> QED BY <3>1, <3>2, <3>3
  <2> QED BY <2>1 DEF Greyed
<1>10. ASSUME f # <<>> PROVE FlameParent(g, f) = Front(f)
  <2> DEFINE above == {q \in Frames(g) : Len(q) < Len(f) /\ Covers(g, q, f)}
             q == CHOOSE q \in above : \A r \in above : Len(r) <= Len(q)
  <2>1. above = {p \in Frames(g) : IsPrefix(p, f)} \ {f}
    BY <1>9 DEF Greyed
  <2>2. f \in Paths(fold) /\ f \in Seq(S) /\ f \in LaidOut(fold) /\ Len(f) <= g.last
    BY <1>3
  <2>3. /\ Front(f) \in Paths(fold) /\ Len(f) \in Nat \ {0} /\ Len(Front(f)) = Len(f) - 1
        /\ IsPrefix(Front(f), f)
    BY <1>10, <2>2, FrontPath
  <2>4. Front(f) \in Frames(g) /\ Front(f) # f
    <3>1. Front(f) \in LaidOut(fold)
      BY <1>10, <2>2, BeginsAre
    <3>2. Len(Front(f)) <= g.last
      BY <1>1, <2>2, <2>3 DEF g
    <3> QED BY <1>2, <2>3, <3>1, <3>2
  <2>5. Front(f) \in above
    BY <2>1, <2>3, <2>4
  <2>6. \A r \in above : Len(r) \in Nat /\ Len(r) <= Len(Front(f)) /\ IsPrefix(r, f) /\ r \in Seq(S)
    <3>1. ASSUME NEW r \in above PROVE Len(r) \in Nat /\ Len(r) < Len(f) /\ IsPrefix(r, f) /\ r \in Seq(S)
      BY <1>3, <2>1
    <3> HIDE DEF above
    <3> QED BY <2>3, <3>1
  <2> HIDE DEF above
  <2>7. q \in above /\ \A r \in above : Len(r) <= Len(q)
    <3>1. \E p \in above : \A r \in above : Len(r) <= Len(p)
      BY <2>5, <2>6
    <3> QED BY <3>1
  <2>8. FlameParent(g, f) = q
    BY DEF FlameParent, above
  <2> HIDE DEF q
  <2>9. Len(q) = Len(f) - 1 /\ IsPrefix(q, f) /\ q \in Seq(S)
    BY <2>3, <2>5, <2>6, <2>7
  <2>10. q = Front(f)
    BY <1>10, <2>2, <2>9, PrefixFront
  <2> QED BY <2>8, <2>10
<1>11. ASSUME NEW q \in Frames(g), Len(q) = Len(f), q # f
       PROVE  \/ g.start[q] + g.value[q] <= g.start[f]
              \/ g.start[f] + g.value[f] <= g.start[q]
  <2>1. q \in LaidOut(fold) /\ f \in LaidOut(fold)
    BY <1>3
  <2>2. B[q] + V[q] <= B[f] \/ B[f] + V[f] <= B[q]
    BY <1>11, <2>1, Beside DEF B, V
  <2>3. g.value = V /\ g.start = B
    BY <1>1 DEF g
  <2> QED BY <2>2, <2>3
<1> QED BY <1>8, <1>9, <1>10, <1>11


-----------------------------------------------------------------------------
(* From the samples to the folds of the page.                              *)

Sched == INSTANCE FoldTheorems WITH Op <- LAMBDA c, kept, s : IF s.event # "sched" THEN Append(kept, s) ELSE kept
Pass  == INSTANCE FoldTheorems
           WITH Op <- LAMBDA c, kept, r : IF InWindow(r, c[1], c[2], c[3]) THEN Append(kept, r) ELSE kept
Chain == INSTANCE FoldTheorems WITH Op <- LAMBDA c, u, f : OneMore(u, f)
Rounds == INSTANCE FoldTheorems WITH Op <- LAMBDA c, p, s : Round(p, s)
Fold  == INSTANCE FoldTheorems
           WITH Op <- LAMBDA syms, fold, r : IF r.user = Nothing THEN fold
                                             ELSE Added(fold, SampleKey(r, syms), r.period)

\* A filter leaves a sequence of what passes it.
LEMMA Filtered ==
  ASSUME NEW n \in Nat, NEW q, NEW T, NEW V, NEW r, r[0] = <<>>,
         \A i \in 1..n : r[i] = IF i \in T THEN Append(r[i - 1], q[i]) ELSE r[i - 1],
         \A i \in 1..n : i \in T => q[i] \in V
  PROVE  r[n] \in Seq(V)
<1> DEFINE Good == {i \in Nat : i <= n => r[i] \in Seq(V)}
<1>1. 0 \in Good
  <2>1. <<>> \in Seq(V)
    OBVIOUS
  <2> QED BY <2>1
<1>2. ASSUME NEW i \in Nat, i \in Good PROVE i + 1 \in Good
  <2> SUFFICES ASSUME i + 1 <= n PROVE r[i + 1] \in Seq(V)
    OBVIOUS
  <2>1. i + 1 \in 1..n /\ (i + 1) - 1 = i /\ r[i] \in Seq(V)
    BY <1>2
  <2>2. r[i + 1] = IF i + 1 \in T THEN Append(r[i], q[i + 1]) ELSE r[i]
    BY <2>1
  <2> QED BY <2>1, <2>2
<1>3. Nat \subseteq Good
  <2> HIDE DEF Good
  <2> QED BY <1>1, <1>2, NumberInduction
<1> QED BY <1>3

Counted == {s \in Samples : s.event # "sched"}

LEMMA AnalyzedIs ==
  ASSUME ReportType
  PROVE  \E kept \in Seq(Counted) : Analyzed = [i \in DOMAIN kept |-> [kept[i] EXCEPT !.frames = Capped(@)]]
<1> DEFINE kept == Sched!Left(0, <<>>, samples)
<1>1. Analyzed = [i \in DOMAIN kept |-> [kept[i] EXCEPT !.frames = Capped(@)]]
  <2>1. Only(samples, LAMBDA s : s.event # "sched") = kept
    BY DEF Only, Sched!Left, FoldLeft, Sched!FoldLeft, MapThenFoldSet, Sched!MapThenFoldSet, Max, Sched!Max
  <2> QED BY <2>1 DEF Analyzed
<1>2. kept \in Seq(Counted)
  <2> DEFINE n == Len(samples)
             T == {i \in 1..n : samples[i].event # "sched"}
  <2>1. n \in Nat /\ DOMAIN samples = 1..n /\ \A i \in 1..n : samples[i] \in Samples
    BY DEF ReportType
  <2>2. PICK r : Sched!Runs(0, <<>>, samples, n, r) /\ kept = r[n]
    BY <2>1, Sched!LeftRuns
  <2>3. \A i \in 1..n : i \in T => samples[i] \in Counted
    BY <2>1 DEF Counted
  <2>4. \A i \in 1..n : r[i] = IF i \in T THEN Append(r[i - 1], samples[i]) ELSE r[i - 1]
    BY <2>2 DEF Sched!Runs
  <2>5. r[0] = <<>>
    BY <2>2 DEF Sched!Runs
  <2> HIDE DEF n, T, kept
  <2> QED BY <2>1, <2>2, <2>3, <2>4, <2>5, Filtered
<1> QED BY <1>1, <1>2

LEMMA CappedIs ==
  ASSUME NEW S, NEW q \in Seq(S)
  PROVE  Capped(q) \in Seq(S)
<1> DEFINE n == Min({MaxFrames, Len(q)})
<1>1. MaxFrames \in Nat /\ Len(q) \in Nat
  BY ProfileConstants
<1>2. \E x \in {MaxFrames, Len(q)} : \A y \in {MaxFrames, Len(q)} : x =< y
  BY <1>1
<1>3. n \in {MaxFrames, Len(q)} /\ \A y \in {MaxFrames, Len(q)} : n =< y
  BY <1>2 DEF Min
<1>4. n \in Nat /\ n <= Len(q)
  BY <1>1, <1>3
<1>5. \A i \in 1..n : q[i] \in S
  BY <1>4
<1> HIDE DEF n
<1>6. SubSeq(q, 1, n) \in Seq(S)
  BY <1>4, <1>5
<1> QED BY <1>6 DEF Capped, n

Framed == Stacked \cup {NoStack}
Called == {f.sym : f \in Framed}
Places == {f.domain : f \in Framed} \cup {Unknown}

\* The user frames of a stack.
LEMMA UserFramesAre ==
  ASSUME NEW q \in Seq(Framed)
  PROVE  UserFrames(q).syms \in Seq(Called) /\ UserFrames(q).kernel \in BOOLEAN
<1> DEFINE U == [syms : Seq(Called), pending : Seq(Called), kernel : BOOLEAN, last : Places]
           n == Len(q)
           u == Chain!Left(0, NoFrames, q)
<1>0. FoldLeft(OneMore, NoFrames, q) = u
  BY DEF Chain!Left, FoldLeft, Chain!FoldLeft, MapThenFoldSet, Chain!MapThenFoldSet, Max, Chain!Max
<1>1. n \in Nat /\ DOMAIN q = 1..n /\ \A i \in 1..n : q[i] \in Framed
  OBVIOUS
<1>r. PICK r : Chain!Runs(0, NoFrames, q, n, r) /\ u = r[n]
  BY <1>1, Chain!LeftRuns
<1>2. r[0] = NoFrames /\ (\A i \in 1..n : r[i] = OneMore(r[i - 1], q[i])) /\ u = r[n]
  BY <1>r DEF Chain!Runs
<1>3. NoFrames \in U
  <2>1. <<>> \in Seq(Called) /\ Unknown \in Places
    BY DEF Places
  <2> QED BY <2>1 DEF NoFrames
<1>4. ASSUME NEW v \in U, NEW f \in Framed PROVE OneMore(v, f) \in U
  <2> DEFINE Q == Seq(Called)
             P == Places
  <2>1. /\ f.sym \in Called /\ f.domain \in P /\ <<>> \in Q /\ v.syms \in Q /\ v.pending \in Q
        /\ Append(v.pending, f.sym) \in Q /\ v.syms \o v.pending \o <<f.sym>> \in Q
    BY DEF Called, Places
  <2>2. U = [syms : Q, pending : Q, kernel : BOOLEAN, last : P]
    OBVIOUS
  <2> HIDE DEF Q, P
  <2>3. CASE f.domain = "inline"
    BY <2>1, <2>2, <2>3 DEF OneMore
  <2>4. CASE f.domain = "kernel"
    BY <2>1, <2>2, <2>4 DEF OneMore
  <2>5. CASE f.domain = "user"
    BY <2>1, <2>2, <2>5 DEF OneMore
  <2>6. CASE f.domain \notin {"inline", "kernel", "user"}
    BY <2>1, <2>2, <2>6 DEF OneMore
  <2> QED BY <2>3, <2>4, <2>5, <2>6
<1> HIDE DEF U, u
<1> DEFINE Good == {i \in Nat : i <= n => r[i] \in U}
<1>5. 0 \in Good
  BY <1>2, <1>3
<1>6. ASSUME NEW i \in Nat, i \in Good PROVE i + 1 \in Good
  <2> SUFFICES ASSUME i + 1 <= n PROVE r[i + 1] \in U
    OBVIOUS
  <2>1. i + 1 \in 1..n /\ (i + 1) - 1 = i /\ r[i] \in U
    BY <1>6
  <2>2. r[i + 1] = OneMore(r[i], q[i + 1])
    BY <1>2, <2>1
  <2> QED BY <1>1, <1>4, <2>1, <2>2
<1>7. Nat \subseteq Good
  <2> HIDE DEF Good
  <2> QED BY <1>5, <1>6, NumberInduction
<1>8. u \in U
  BY <1>1, <1>2, <1>7
<1>9. UserFrames(q) = [u EXCEPT !.syms = IF u.last = "user" THEN @ \o u.pending ELSE @]
  BY <1>0 DEF UserFrames
<1>10. u.syms \in Seq(Called) /\ u.pending \in Seq(Called) /\ u.kernel \in BOOLEAN
  BY <1>8 DEF U
<1>11. UserFrames(q).syms = (IF u.last = "user" THEN u.syms \o u.pending ELSE u.syms)
       /\ UserFrames(q).kernel = u.kernel
  BY <1>8, <1>9 DEF U
<1> QED BY <1>10, <1>11

\* A chain: none, or the root's label and what is called from it.
IsChain(chain) == chain = Nothing \/ \E T : chain \in Seq(T) /\ chain # <<>>

ChainOf(s) == Labelled(s, UserChain(s))

LEMMA ChainIs ==
  ASSUME NEW s, s.frames \in Seq(Framed)
  PROVE  IsChain(ChainOf(s))
<1> DEFINE u == UserFrames(Capped(s.frames))
           T == Called \cup {Boundary, s.comm}
           k == IF u.kernel THEN <<Boundary>> ELSE <<>>
           c == Reverse(u.syms) \o k
<1>1. u.syms \in Seq(Called)
  BY CappedIs, UserFramesAre
<1> HIDE DEF u
<1>2. Reverse(u.syms) \in Seq(T)
  <2>1. Len(u.syms) \in Nat /\ \A i \in 1..Len(u.syms) : u.syms[i] \in T
    BY <1>1
  <2>2. \A i \in 1..Len(u.syms) : (Len(u.syms) - i) + 1 \in 1..Len(u.syms)
    BY <2>1
  <2>3. DOMAIN u.syms = 1..Len(u.syms)
    BY <1>1
  <2>4. Reverse(u.syms) = [i \in 1..Len(u.syms) |-> u.syms[(Len(u.syms) - i) + 1]]
    BY <2>3 DEF Reverse
  <2> QED BY <2>1, <2>2, <2>4
<1>3. k \in Seq(T)
  <2>1. Boundary \in T
    OBVIOUS
  <2> HIDE DEF T
  <2>2. <<Boundary>> \in Seq(T) /\ <<>> \in Seq(T)
    BY <2>1
  <2> QED BY <2>2
<1>4. c \in Seq(T)
  <2> HIDE DEF k, T
  <2> QED BY <1>2, <1>3
<1>5. <<s.comm>> \o c \in Seq(T) /\ <<s.comm>> \o c # <<>>
  <2> HIDE DEF c
  <2>1. <<s.comm>> \in Seq(T) /\ Len(<<s.comm>>) = 1
    OBVIOUS
  <2>2. Len(<<s.comm>> \o c) = 1 + Len(c) /\ Len(c) \in Nat
    BY <1>4, <2>1
  <2> HIDE DEF T
  <2>3. <<s.comm>> \o c \in Seq(T)
    BY <1>4, <2>1
  <2>4. Len(<<s.comm>> \o c) # 0
    BY <2>2
  <2> QED BY <2>3, <2>4
<1>6. UserChain(s) = Nothing \/ UserChain(s) = c
  BY DEF UserChain, u
<1>7. ChainOf(s) = Nothing \/ ChainOf(s) = <<s.comm>> \o c
  <2> HIDE DEF c
  <2> QED BY <1>6 DEF ChainOf, Labelled
<1> HIDE DEF c, T
<1> QED BY <1>5, <1>7 DEF IsChain

LEMMA ChainsAre ==
  ASSUME NEW n \in Nat, NEW q, DOMAIN q = 1..n
  PROVE  Rounds!Left(0, Blank, q).chains = [i \in 1..n |-> ChainOf(q[i])]
<1>r. PICK r : Rounds!Runs(0, Blank, q, n, r) /\ Rounds!Left(0, Blank, q) = r[n]
  BY Rounds!LeftRuns
<1>1. r[0] = Blank /\ (\A i \in 1..n : r[i] = Round(r[i - 1], q[i])) /\ Rounds!Left(0, Blank, q) = r[n]
  BY <1>r DEF Rounds!Runs
<1> DEFINE Made(i) == [j \in 1..i |-> ChainOf(q[j])]
           Good == {i \in Nat : i <= n => r[i].chains = Made(i)}
<1>2. 0 \in Good
  <2>1. Blank.chains = <<>>
    BY DEF Blank
  <2>2. Made(0) = <<>>
    OBVIOUS
  <2> QED BY <1>1, <2>1, <2>2
<1>3. ASSUME NEW i \in Nat, i \in Good PROVE i + 1 \in Good
  <2> SUFFICES ASSUME i + 1 <= n PROVE r[i + 1].chains = Made(i + 1)
    OBVIOUS
  <2>1. i + 1 \in 1..n /\ (i + 1) - 1 = i /\ r[i].chains = Made(i)
    BY <1>3
  <2>2. r[i + 1] = Account(r[i], q[i + 1], Callers(q[i + 1]), ChainOf(q[i + 1]))
    BY <1>1, <2>1 DEF ChainOf, Round
  <2>3. r[i + 1].chains = Append(Made(i), ChainOf(q[i + 1]))
    <3> HIDE DEF Made
    <3> QED BY <2>1, <2>2 DEF Account, Keep
  <2>4. Made(i) \in Seq({ChainOf(q[j]) : j \in 1..n}) /\ Len(Made(i)) = i
    <3>1. \A j \in 1..i : j \in 1..n
      OBVIOUS
    <3> QED BY <3>1
  <2>5. Append(Made(i), ChainOf(q[i + 1])) = Made(i + 1)
    <3> DEFINE V == {ChainOf(q[j]) : j \in 1..n}
               a == Append(Made(i), ChainOf(q[i + 1]))
               b == Made(i + 1)
    <3>1. ChainOf(q[i + 1]) \in V /\ \A j \in 1..(i + 1) : ChainOf(q[j]) \in V
      BY <2>1
    <3>2. b \in Seq(V) /\ Len(b) = i + 1 /\ \A j \in 1..(i + 1) : b[j] = ChainOf(q[j])
      BY <3>1
    <3>3. \A j \in 1..i : Made(i)[j] = ChainOf(q[j])
      OBVIOUS
    <3> HIDE DEF V, Made
    <3>4. a \in Seq(V) /\ Len(a) = i + 1 /\ a[i + 1] = ChainOf(q[i + 1]) /\ \A j \in 1..i : a[j] = Made(i)[j]
      BY <2>4, <3>1 DEF V
    <3> HIDE DEF a, b
    <3>5. \A j \in 1..(i + 1) : a[j] = b[j]
      <4> SUFFICES ASSUME NEW j \in 1..(i + 1) PROVE a[j] = b[j]
        OBVIOUS
      <4>1. j \in 1..i \/ j = i + 1
        OBVIOUS
      <4> QED BY <3>2, <3>3, <3>4, <4>1
    <3> QED BY <3>2, <3>4, <3>5, SeqEqual DEF a, b
  <2> QED BY <2>3, <2>5
<1>4. Nat \subseteq Good
  <2> HIDE DEF Good
  <2> QED BY <1>2, <1>3, NumberInduction
<1> QED BY <1>1, <1>4

LEMMA ProfileChains ==
  ASSUME NEW n \in Nat, NEW q, DOMAIN q = 1..n
  PROVE  \E new : BuildProfile(q).chains = [i \in 1..n |-> Renamed(ChainOf(q[i]), new)]
<1> DEFINE p   == Rounds!Left(0, Blank, q)
           new == Renames(p, RealComm(p, q), q)
<1>1. FoldLeft(Round, Blank, q) = p
  BY DEF Rounds!Left, FoldLeft, Rounds!FoldLeft, MapThenFoldSet, Rounds!MapThenFoldSet, Max, Rounds!Max
<1>2. p.chains = [i \in 1..n |-> ChainOf(q[i])]
  BY ChainsAre
<1> HIDE DEF p
<1>3. BuildProfile(q).chains = [i \in DOMAIN p.chains |-> Renamed(p.chains[i], new)]
  BY <1>1 DEF BuildProfile
<1> QED
  <2> HIDE DEF new
  <2>1. [i \in DOMAIN p.chains |-> Renamed(p.chains[i], new)] = [i \in 1..n |-> Renamed(ChainOf(q[i]), new)]
    BY <1>2
  <2> QED BY <1>3, <2>1

LEMMA RenamedIs ==
  ASSUME NEW chain, IsChain(chain), NEW new
  PROVE  IsChain(Renamed(chain, new))
<1>1. CASE Renamed(chain, new) = chain
  BY <1>1
<1>2. CASE Renamed(chain, new) # chain
  <2>1. chain # Nothing /\ Renamed(chain, new) = <<new[chain[1]]>> \o Tail(chain)
    BY <1>2 DEF Renamed
  <2>2. PICK T : chain \in Seq(T) /\ chain # <<>>
    BY <2>1 DEF IsChain
  <2> DEFINE V == T \cup {new[chain[1]]}
             x == new[chain[1]]
             t == Tail(chain)
  <2>3. t \in Seq(V)
    <3>1. t \in Seq(T)
      BY <2>2
    <3>2. T \subseteq V
      OBVIOUS
    <3> HIDE DEF t, V
    <3>3. Len(t) \in Nat /\ t = [i \in 1..Len(t) |-> t[i]] /\ \A i \in 1..Len(t) : t[i] \in V
      BY <3>1, <3>2
    <3> QED BY <3>3
  <2>4. x \in V
    OBVIOUS
  <2> HIDE DEF V, x, t
  <2>5. <<x>> \o t \in Seq(V) /\ Len(<<x>> \o t) = 1 + Len(t) /\ Len(t) \in Nat
    BY <2>3, <2>4
  <2>6. <<x>> \o t # <<>>
    BY <2>5
  <2>7. Renamed(chain, new) = <<x>> \o t
    BY <2>1 DEF x, t
  <2> QED BY <2>5, <2>6, <2>7 DEF IsChain
<1> QED BY <1>1, <1>2

\* A row of the page: what it weighs, and the indexes of its chain if it has one.
IsRow(r) == r.period \in Nat \ {0} /\ (r.user = Nothing \/ \E k \in Nat : DOMAIN r.user = 1..k)

LEMMA RowIs ==
  ASSUME NEW s, s.period \in Nat \ {0}, NEW chain, IsChain(chain), NEW at
  PROVE  IsRow(Row(s, chain, at))
<1> DEFINE r == Row(s, chain, at)
<1>1. r.period = s.period
  BY DEF Row
<1>2. CASE chain = Nothing
  <2>1. r.user = Nothing
    BY <1>2 DEF Row
  <2> QED BY <1>1, <2>1 DEF IsRow
<1>3. CASE chain # Nothing
  <2>1. r.user = [i \in DOMAIN Tail(chain) |-> at[Tail(chain)[i]]]
    BY <1>3 DEF Row
  <2>2. PICK T : chain \in Seq(T) /\ chain # <<>>
    BY <1>3 DEF IsChain
  <2>3. Tail(chain) \in Seq(T)
    BY <2>2
  <2> HIDE DEF r
  <2>4. Len(Tail(chain)) \in Nat /\ DOMAIN r.user = 1..Len(Tail(chain))
    BY <2>1, <2>3
  <2>5. IsRow(r)
    BY <1>1, <2>4 DEF IsRow
  <2> QED BY <2>5 DEF r
<1> QED BY <1>2, <1>3

\* What is analyzed: samples that weigh something, their stacks capped.
LEMMA AnalyzedAre ==
  ASSUME ReportType
  PROVE  \E m \in Nat : /\ DOMAIN Analyzed = 1..m
                        /\ \A i \in 1..m : /\ Analyzed[i].period \in Nat \ {0}
                                           /\ Analyzed[i].frames \in Seq(Framed)
<1> DEFINE q == Analyzed
<1>1. PICK kept \in Seq(Counted) : q = [i \in DOMAIN kept |-> [kept[i] EXCEPT !.frames = Capped(@)]]
  BY AnalyzedIs
<1> DEFINE m == Len(kept)
<1>2. m \in Nat /\ DOMAIN kept = 1..m /\ \A i \in 1..m : kept[i] \in Samples
  BY DEF Counted
<1>3. DOMAIN q = 1..m
  BY <1>1, <1>2
<1>4. ASSUME NEW i \in 1..m PROVE q[i].period \in Nat \ {0} /\ q[i].frames \in Seq(Framed)
  <2>1. q[i] = [kept[i] EXCEPT !.frames = Capped(@)]
    BY <1>1, <1>2
  <2> DEFINE F == Seq(Framed)
             P == Nat \ {0}
             s == kept[i]
  <2>2. s \in [tid : {h.tid : h \in Headers}, comm : {h.comm : h \in Headers},
               event : {h.event : h \in Headers}, time : Nat, period : P, frames : F]
    BY <1>2 DEF Samples, Framed
  <2>3. s.frames \in F /\ s.period \in P
    <3> HIDE DEF F, P, s
    <3> QED BY <2>2
  <2>4. Capped(s.frames) \in F
    BY <2>3, CappedIs
  <2> HIDE DEF F, P, s
  <2>5. [s EXCEPT !.frames = Capped(@)].frames = Capped(s.frames)
        /\ [s EXCEPT !.frames = Capped(@)].period = s.period
    BY <2>2
  <2>6. q[i] = [s EXCEPT !.frames = Capped(@)]
    BY <2>1 DEF s
  <2> HIDE DEF q
  <2>7. q[i].frames \in F /\ q[i].period \in P
    BY <2>3, <2>4, <2>5, <2>6
  <2> QED BY <2>7 DEF F, P
<1> HIDE DEF q, m
<1> QED BY <1>2, <1>3, <1>4 DEF q

\* Every row of the page is one.
LEMMA PageRows ==
  ASSUME ReportType
  PROVE  \E m \in Nat : /\ DOMAIN Payload(Analyzed).rows = 1..m
                        /\ \A i \in 1..m : IsRow(Payload(Analyzed).rows[i])
<1> DEFINE q == Analyzed
           p == BuildProfile(q)
           syms == Interned(q, p)
           at   == [x \in ToSet(syms) |-> CHOOSE i \in DOMAIN syms : syms[i] = x]
           rows == [i \in DOMAIN q |-> Row(q[i], IF i \in DOMAIN p.chains THEN p.chains[i] ELSE Nothing, at)]
<1>1. PICK m \in Nat : DOMAIN q = 1..m /\ \A i \in 1..m : q[i].period \in Nat \ {0} /\ q[i].frames \in Seq(Framed)
  BY AnalyzedAre
<1> HIDE DEF q
<1>5. PICK new : p.chains = [i \in 1..m |-> Renamed(ChainOf(q[i]), new)]
  <2>1. m \in Nat /\ DOMAIN q = 1..m
    BY <1>1
  <2>2. \E new : BuildProfile(q).chains = [i \in 1..m |-> Renamed(ChainOf(q[i]), new)]
    BY ONLY <2>1, ProfileChains
  <2> QED BY <2>2
<1>6. ASSUME NEW i \in 1..m PROVE IsChain(p.chains[i])
  BY <1>1, <1>5, ChainIs, RenamedIs
<1>7. Payload(q).rows = rows
  BY DEF Payload
<1> HIDE DEF p, at
<1>8. ASSUME NEW i \in 1..m PROVE IsRow(rows[i])
  <2>1. rows[i] = Row(q[i], p.chains[i], at)
    BY <1>1, <1>5
  <2> HIDE DEF rows
  <2> QED BY <1>1, <1>6, <2>1, RowIs
<1>9. DOMAIN rows = 1..m
  BY <1>1
<1> HIDE DEF rows
<1> QED BY <1>7, <1>8, <1>9 DEF q

\* The name of a row's chain.
LEMMA KeyIs ==
  ASSUME NEW r, IsRow(r), r.user # Nothing, NEW syms
  PROVE  \E T : SampleKey(r, syms) \in Seq(T)
<1>1. PICK k \in Nat : DOMAIN r.user = 1..k
  BY DEF IsRow
<1> DEFINE q == [i \in DOMAIN r.user |-> syms[r.user[i]]]
           T == {r.root} \cup {syms[r.user[i]] : i \in 1..k}
<1>2. q \in Seq(T)
  <2>1. q = [i \in 1..k |-> syms[r.user[i]]] /\ \A i \in 1..k : q[i] \in T
    BY <1>1
  <2> HIDE DEF T
  <2> QED BY <2>1
<1>3. <<r.root>> \in Seq(T)
  <2>1. r.root \in T
    OBVIOUS
  <2> HIDE DEF T
  <2> QED BY <2>1
<1> HIDE DEF q, T
<1>4. <<r.root>> \o q \in Seq(T)
  BY <1>2, <1>3
<1> QED BY <1>4 DEF SampleKey, q

\* One more row of a fold leaves one.
LEMMA FoldGrows ==
  ASSUME NEW S, NEW f, IsFold(f, S), NEW k \in Seq(S), NEW w \in Nat \ {0}
  PROVE  IsFold(Added(f, k, w), S)
<1> DEFINE g == Added(f, k, w)
<1>1. DOMAIN g = DOMAIN f \cup {k} /\ g[k] = At(f, k) + w /\ \A x \in DOMAIN f : x # k => g[x] = f[x]
  BY DEF Added, Put
<1>2. At(f, k) \in Nat
  BY DEF At, IsFold
<1> HIDE DEF g
<1>3. IsFiniteSet(DOMAIN g)
  <2>1. IsFiniteSet(DOMAIN f)
    BY DEF IsFold
  <2>2. IsFiniteSet(DOMAIN f \cup {k})
    BY <2>1, FS_AddElement
  <2> QED BY <1>1, <2>2
<1>4. \A x \in DOMAIN g : g[x] \in Nat \ {0}
  <2>1. g[k] \in Nat \ {0}
    BY <1>1, <1>2
  <2> QED BY <1>1, <2>1 DEF IsFold
<1>5. DOMAIN g \subseteq Seq(S)
  BY <1>1 DEF IsFold
<1>6. IsFold(g, S)
  BY <1>3, <1>4, <1>5 DEF IsFold
<1> QED BY <1>6 DEF g

\* What the page folds is a fold.
LEMMA FoldIs ==
  ASSUME NEW n \in Nat, NEW rows, DOMAIN rows = 1..n, NEW syms,
         \A i \in 1..n : IsRow(rows[i])
  PROVE  \E S : IsFold(FoldWindow(rows, syms), S)
<1> DEFINE fold == Fold!Left(syms, Empty, rows)
           Named(i) == SampleKey(rows[i], syms)
           In == {i \in 1..n : rows[i].user # Nothing}
           S == {Named(i)[j] : i \in In, j \in Nat}
<1>1. FoldWindow(rows, syms) = fold
  BY DEF FoldWindow, Fold!Left, FoldLeft, Fold!FoldLeft, MapThenFoldSet, Fold!MapThenFoldSet, Max, Fold!Max
<1>2. ASSUME NEW i \in In PROVE Named(i) \in Seq(S)
  <2>1. PICK T : Named(i) \in Seq(T)
    BY KeyIs
  <2>2. \A j \in Nat : Named(i)[j] \in S
    OBVIOUS
  <2> HIDE DEF Named, S
  <2>3. Len(Named(i)) \in Nat /\ Named(i) = [j \in 1..Len(Named(i)) |-> Named(i)[j]]
        /\ \A j \in 1..Len(Named(i)) : Named(i)[j] \in S
    BY <2>1, <2>2
  <2> QED BY <2>3
<1> HIDE DEF S
<1>3. PICK r : Fold!Runs(syms, Empty, rows, n, r) /\ fold = r[n]
  BY Fold!LeftRuns
<1>4. r[0] = Empty /\ \A i \in 1..n : r[i] = IF rows[i].user = Nothing THEN r[i - 1]
                                             ELSE Added(r[i - 1], SampleKey(rows[i], syms), rows[i].period)
  BY <1>3 DEF Fold!Runs
<1> HIDE DEF fold
<1> DEFINE Good == {i \in Nat : i <= n => IsFold(r[i], S)}
<1>5. 0 \in Good
  <2>1. DOMAIN Empty = {}
    BY DEF Empty
  <2>2. IsFold(Empty, S)
    BY <2>1, FS_EmptySet DEF IsFold
  <2> QED BY <1>4, <2>2
<1>6. ASSUME NEW i \in Nat, i \in Good PROVE i + 1 \in Good
  <2> SUFFICES ASSUME i + 1 <= n PROVE IsFold(r[i + 1], S)
    OBVIOUS
  <2>1. i + 1 \in 1..n /\ (i + 1) - 1 = i /\ IsFold(r[i], S)
    BY <1>6
  <2>2. r[i + 1] = IF rows[i + 1].user = Nothing THEN r[i]
                   ELSE Added(r[i], SampleKey(rows[i + 1], syms), rows[i + 1].period)
    BY <1>4, <2>1
  <2>3. CASE rows[i + 1].user = Nothing
    BY <2>1, <2>2, <2>3
  <2>4. CASE rows[i + 1].user # Nothing
    <3>1. SampleKey(rows[i + 1], syms) \in Seq(S)
      BY <1>2, <2>1, <2>4
    <3>2. rows[i + 1].period \in Nat \ {0}
      BY <2>1 DEF IsRow
    <3>3. r[i + 1] = Added(r[i], SampleKey(rows[i + 1], syms), rows[i + 1].period)
      BY <2>2, <2>4
    <3> QED BY <2>1, <3>1, <3>2, <3>3, FoldGrows
  <2> QED BY <2>3, <2>4
<1>7. Nat \subseteq Good
  <2> HIDE DEF Good
  <2> QED BY <1>5, <1>6, NumberInduction
<1>8. IsFold(r[n], S)
  BY <1>7
<1> QED BY <1>1, <1>3, <1>8

\* What is within a window.
LEMMA WithinIs ==
  ASSUME NEW q, NEW c
  PROVE  Within(q, c[1], c[2], c[3]) = Pass!Left(c, <<>>, q)
BY DEF Within, Only, Pass!Left, FoldLeft, Pass!FoldLeft, MapThenFoldSet, Pass!MapThenFoldSet, Max, Pass!Max

\* The rows of a window are rows.
LEMMA WindowRows ==
  ASSUME NEW n \in Nat, NEW rows, DOMAIN rows = 1..n, \A i \in 1..n : IsRow(rows[i]), NEW c
  PROVE  \E m \in Nat : /\ DOMAIN Pass!Left(c, <<>>, rows) = 1..m
                        /\ \A i \in 1..m : IsRow(Pass!Left(c, <<>>, rows)[i])
<1> DEFINE kept == Pass!Left(c, <<>>, rows)
           T == {i \in 1..n : InWindow(rows[i], c[1], c[2], c[3])}
           V == {rows[i] : i \in 1..n}
<1>1. PICK r : Pass!Runs(c, <<>>, rows, n, r) /\ kept = r[n]
  BY Pass!LeftRuns
<1>2. r[0] = <<>> /\ \A i \in 1..n : r[i] = IF i \in T THEN Append(r[i - 1], rows[i]) ELSE r[i - 1]
  BY <1>1 DEF Pass!Runs
<1>3. \A i \in 1..n : i \in T => rows[i] \in V
  OBVIOUS
<1>4. \A v \in V : IsRow(v)
  OBVIOUS
<1> HIDE DEF kept, T, V
<1>5. kept \in Seq(V)
  BY <1>1, <1>2, <1>3, Filtered
<1>6. Len(kept) \in Nat /\ DOMAIN kept = 1..Len(kept) /\ \A i \in 1..Len(kept) : IsRow(kept[i])
  BY <1>4, <1>5
<1> QED BY <1>6 DEF kept

\* Every graph the page draws of the samples is one whose zoom follows the tree.
LEMMA FoldsAre ==
  ASSUME ReportType, NEW fold \in Folds
  PROVE  \E S : IsFold(fold, S)
<1> DEFINE page == Payload(Analyzed)
           From(a) == Pass!Left(<<Nothing, a, MaxLines>>, <<>>, page.rows)
<1>1. PICK a : fold = FoldFrom(page, a)
  BY DEF Folds
<1>2. fold = FoldWindow(From(a), page.syms)
  <2> DEFINE c == <<Nothing, a, MaxLines>>
             rows == page.rows
  <2>1. Within(rows, c[1], c[2], c[3]) = Pass!Left(c, <<>>, rows)
    <3> HIDE DEF c, rows
    <3> QED BY WithinIs
  <2>2. c[1] = Nothing /\ c[2] = a /\ c[3] = MaxLines
    OBVIOUS
  <2> HIDE DEF c
  <2>3. FoldFrom(page, a) = FoldWindow(Pass!Left(c, <<>>, rows), page.syms)
    BY <2>1, <2>2 DEF FoldFrom
  <2> QED BY <1>1, <2>3 DEF c
<1>3. PICK n \in Nat : DOMAIN page.rows = 1..n /\ \A i \in 1..n : IsRow(page.rows[i])
  BY PageRows
<1>4. PICK m \in Nat : DOMAIN From(a) = 1..m /\ \A i \in 1..m : IsRow(From(a)[i])
  <2> HIDE DEF page
  <2> QED BY <1>3, WindowRows
<1> HIDE DEF page, From
<1> QED BY <1>2, <1>4, FoldIs

\* In every report a zoom shows the callees of what was clicked and the path to it, and
\* a second click leads to the caller.
THEOREM ZoomsFollowTheTree == ReportSpec => []ZoomIsTheTree
<1>1. ReportType => ZoomIsTheTree
  <2> SUFFICES ASSUME ReportType, NEW fold \in Folds PROVE ZoomIsOfTheTree(Graph(fold))
    BY DEF ZoomIsTheTree
  <2>1. PICK S : IsFold(fold, S)
    BY FoldsAre
  <2>2. MaxDepth \in Nat
    BY FlameConstants
  <2> QED BY <2>1, <2>2, ZoomFollowsTheTree
<1> QED BY <1>1, ReportTypeCorrect, PTL

-----------------------------------------------------------------------------
(* The folds of the page beside the server's.                              *)

Once == INSTANCE FoldTheorems WITH Op <- LAMBDA w, g, x : Added(g, x, w)
Hot  == INSTANCE FoldTheorems WITH Op <- LAMBDA c, h, r : HotRow(h, r)
Cpu  == INSTANCE FoldTheorems WITH Op <- LAMBDA c, f, r : Added(f, r.tid, r.period)

IsFcn(f) == f = [x \in DOMAIN f |-> f[x]]

\* What is counted once for every element of a set.
Counts(f, S, w) == [x \in DOMAIN f \cup S |-> IF x \in S THEN At(f, x) + w ELSE f[x]]

LEMMA OnceStep ==
  ASSUME NEW w, NEW f, NEW S, IsFiniteSet(S)
  PROVE  /\ Once!OfSet(w, f, {}) = f
         /\ S # {} => Once!OfSet(w, f, S) = Added(Once!OfSet(w, f, S \ {Pick(S)}), Pick(S), w)
<1>1. Once!IsFiniteSet(S)
  BY DEF IsFiniteSet, Once!IsFiniteSet
<1>2. \A T : Once!Pick(T) = Pick(T)
  BY DEF Pick, Once!Pick
<1> QED BY <1>1, <1>2, Once!OfSetStep

LEMMA OnceIs ==
  ASSUME NEW f, IsFcn(f), NEW S, IsFiniteSet(S), NEW w
  PROVE  EachOnce(f, S, w) = Counts(f, S, w)
<1> DEFINE Good == {T \in SUBSET S : Once!OfSet(w, f, T) = Counts(f, T, w)}
<1>1. \A T : EachOnce(f, T, w) = Once!OfSet(w, f, T)
  BY DEF EachOnce, FoldSet, MapThenFoldSet, Once!OfSet, Once!FoldSet, Once!MapThenFoldSet
<1>2. ASSUME NEW T \in SUBSET S, \A x \in T : T \ {x} \in Good PROVE T \in Good
  <2>1. IsFiniteSet(T)
    BY FS_Subset
  <2>2. CASE T = {}
    <3>1. Once!OfSet(w, f, {}) = f
      BY FS_EmptySet, OnceStep
    <3>2. Counts(f, {}, w) = [x \in DOMAIN f |-> f[x]]
      BY DEF Counts
    <3> QED BY <2>2, <3>1, <3>2 DEF IsFcn
  <2>3. CASE T # {}
    <3> DEFINE y == Pick(T)
               g == Once!OfSet(w, f, T \ {y})
    <3>1. y \in T /\ g = Counts(f, T \ {y}, w)
      BY <1>2, <2>3, PickIn
    <3>2. Once!OfSet(w, f, T) = Added(g, y, w)
      <4>1. Once!OfSet(w, f, T) = Added(Once!OfSet(w, f, T \ {Pick(T)}), Pick(T), w)
        BY <2>1, <2>3, OnceStep
      <4> QED BY <4>1
    <3> HIDE DEF y, g
    <3>3. DOMAIN g = DOMAIN f \cup (T \ {y})
      BY <3>1 DEF Counts
    <3>4. At(g, y) = At(f, y)
      BY <3>1, <3>3 DEF At, Counts
    <3>5. Added(g, y, w) = Counts(f, T, w)
      <4>1. DOMAIN g \cup {y} = DOMAIN f \cup T
        BY <3>1, <3>3
      <4>2. Added(g, y, w) = [x \in DOMAIN f \cup T |-> IF x = y THEN At(f, y) + w ELSE g[x]]
        BY <3>4, <4>1 DEF Added, Put
      <4>3. \A x \in DOMAIN f \cup T : x # y => g[x] = IF x \in T THEN At(f, x) + w ELSE f[x]
        BY <3>1 DEF Counts
      <4> QED BY <3>1, <4>2, <4>3 DEF Counts
    <3> QED BY <3>2, <3>5
  <2> QED BY <2>2, <2>3
<1>3. SUBSET S \subseteq Good
  <2> HIDE DEF Good
  <2> QED BY <1>2, SubsetInduction
<1> QED BY <1>1, <1>3

\* f is g, by index.
Alike(f, g, syms) ==
  /\ IsFcn(f) /\ IsFcn(g)
  /\ DOMAIN f \subseteq DOMAIN syms /\ DOMAIN g = {syms[i] : i \in DOMAIN f}
  /\ \A i \in DOMAIN f : g[syms[i]] = f[i]

LEMMA ByNameIs ==
  ASSUME NEW syms, One(syms), NEW f, NEW g, Alike(f, g, syms)
  PROVE  ByName(f, syms) = g
<1>1. \A i \in DOMAIN f : (CHOOSE j \in DOMAIN f : syms[j] = syms[i]) = i
  BY DEF One, Alike
<1>2. \A y \in DOMAIN g : f[CHOOSE j \in DOMAIN f : syms[j] = y] = g[y]
  <2> SUFFICES ASSUME NEW y \in DOMAIN g PROVE f[CHOOSE j \in DOMAIN f : syms[j] = y] = g[y]
    OBVIOUS
  <2>1. PICK i \in DOMAIN f : y = syms[i]
    BY DEF Alike
  <2>2. (CHOOSE j \in DOMAIN f : syms[j] = y) = i
    BY <1>1, <2>1
  <2> QED BY <2>1, <2>2 DEF Alike
<1>3. ByName(f, syms) = [y \in DOMAIN g |-> f[CHOOSE j \in DOMAIN f : syms[j] = y]]
  BY DEF ByName, Alike
<1>4. g = [y \in DOMAIN g |-> g[y]]
  BY DEF Alike, IsFcn
<1> QED BY <1>2, <1>3, <1>4

LEMMA AlikePut ==
  ASSUME NEW syms, One(syms), NEW f, NEW g, Alike(f, g, syms), NEW k \in DOMAIN syms, NEW v
  PROVE  Alike(Put(f, k, v), Put(g, syms[k], v), syms)
<1> DEFINE a == Put(f, k, v)
           b == Put(g, syms[k], v)
<1>1. IsFcn(a) /\ DOMAIN a = DOMAIN f \cup {k} /\ a[k] = v /\ \A i \in DOMAIN f : i # k => a[i] = f[i]
  BY DEF Put, IsFcn
<1>2. IsFcn(b) /\ DOMAIN b = DOMAIN g \cup {syms[k]} /\ b[syms[k]] = v
      /\ \A y \in DOMAIN g : y # syms[k] => b[y] = g[y]
  BY DEF Put, IsFcn
<1> HIDE DEF a, b
<1>3. DOMAIN a \subseteq DOMAIN syms /\ DOMAIN b = {syms[i] : i \in DOMAIN a}
  BY <1>1, <1>2 DEF Alike
<1>4. \A i \in DOMAIN a : b[syms[i]] = a[i]
  BY <1>1, <1>2 DEF Alike, One
<1>5. Alike(a, b, syms)
  BY <1>1, <1>2, <1>3, <1>4 DEF Alike
<1> QED BY <1>5 DEF a, b

LEMMA AlikeAt ==
  ASSUME NEW syms, One(syms), NEW f, NEW g, Alike(f, g, syms), NEW k \in DOMAIN syms
  PROVE  (k \in DOMAIN f <=> syms[k] \in DOMAIN g) /\ At(f, k) = At(g, syms[k])
<1>1. k \in DOMAIN f <=> syms[k] \in DOMAIN g
  BY DEF Alike, One
<1> QED BY <1>1 DEF Alike, At

LEMMA AlikeAdded ==
  ASSUME NEW syms, One(syms), NEW f, NEW g, Alike(f, g, syms), NEW k \in DOMAIN syms, NEW w
  PROVE  Alike(Added(f, k, w), Added(g, syms[k], w), syms)
<1>1. At(f, k) + w = At(g, syms[k]) + w
  BY AlikeAt
<1> QED BY <1>1, AlikePut DEF Added

LEMMA AlikeOnce ==
  ASSUME NEW syms, One(syms), NEW f, NEW g, Alike(f, g, syms), NEW w,
         NEW I, IsFiniteSet(I), I \subseteq DOMAIN syms, NEW S, S = {syms[i] : i \in I}, IsFiniteSet(S)
  PROVE  Alike(EachOnce(f, I, w), EachOnce(g, S, w), syms)
<1> DEFINE a == Counts(f, I, w)
           b == Counts(g, S, w)
<1>1. EachOnce(f, I, w) = a /\ EachOnce(g, S, w) = b
  BY OnceIs DEF Alike
<1>2. IsFcn(a) /\ DOMAIN a = DOMAIN f \cup I /\ \A i \in DOMAIN a : a[i] = IF i \in I THEN At(f, i) + w ELSE f[i]
  BY DEF Counts, IsFcn
<1>3. IsFcn(b) /\ DOMAIN b = DOMAIN g \cup S /\ \A y \in DOMAIN b : b[y] = IF y \in S THEN At(g, y) + w ELSE g[y]
  BY DEF Counts, IsFcn
<1> HIDE DEF a, b
<1>4. DOMAIN a \subseteq DOMAIN syms /\ DOMAIN b = {syms[i] : i \in DOMAIN a}
  BY <1>2, <1>3 DEF Alike
<1>5. ASSUME NEW i \in DOMAIN a PROVE b[syms[i]] = a[i]
  <2>1. i \in DOMAIN syms /\ syms[i] \in DOMAIN b
    BY <1>4
  <2>2. i \in I <=> syms[i] \in S
    BY <2>1 DEF One
  <2>3. At(f, i) = At(g, syms[i])
    BY <2>1, AlikeAt
  <2>4. i \notin I => f[i] = g[syms[i]]
    BY <1>2 DEF Alike
  <2> QED BY <1>2, <1>3, <2>1, <2>2, <2>3, <2>4
<1>6. Alike(a, b, syms)
  BY <1>2, <1>3, <1>4, <1>5 DEF Alike
<1> QED BY <1>1, <1>6

-----------------------------------------------------------------------------
(* No thread is ever renamed: what the rounds keep of its name is the last *)
(* that is not transient already.                                          *)

\* Where thread t goes by a name of its own, among the first i samples.
NamedIn(q, i, t) == {j \in 1..i : q[j].tid = t /\ q[j].comm \notin Transient}

LastName(q, i, comm) ==
  /\ DOMAIN comm = {q[j].tid : j \in 1..i}
  /\ \A t \in DOMAIN comm : \A j \in NamedIn(q, i, t) :
       (\A k \in NamedIn(q, i, t) : k <= j) => comm[t] = q[j].comm

LEMMA CommsAre ==
  ASSUME NEW n \in Nat, NEW q, DOMAIN q = 1..n
  PROVE  LastName(q, n, Rounds!Left(0, Blank, q).comm)
<1>0. PICK r : Rounds!Runs(0, Blank, q, n, r) /\ Rounds!Left(0, Blank, q) = r[n]
  BY Rounds!LeftRuns
<1>1. r[0] = Blank /\ (\A i \in 1..n : r[i] = Round(r[i - 1], q[i])) /\ Rounds!Left(0, Blank, q) = r[n]
  BY <1>0 DEF Rounds!Runs
<1> DEFINE Good == {i \in Nat : i <= n => LastName(q, i, r[i].comm)}
<1>2. 0 \in Good
  <2>1. r[0].comm = Empty /\ DOMAIN Empty = {}
    BY <1>1 DEF Blank, Empty
  <2>2. {q[j].tid : j \in 1..0} = {}
    OBVIOUS
  <2>3. LastName(q, 0, r[0].comm)
    BY <2>1, <2>2 DEF LastName
  <2> QED BY <2>3
<1>3. ASSUME NEW i \in Nat, i \in Good PROVE i + 1 \in Good
  <2> SUFFICES ASSUME i + 1 <= n PROVE LastName(q, i + 1, r[i + 1].comm)
    OBVIOUS
  <2> DEFINE c == r[i].comm
             d == r[i + 1].comm
             s == q[i + 1]
  <2>1. i + 1 \in 1..n /\ (i + 1) - 1 = i /\ LastName(q, i, c)
    BY <1>3
  <2>2. r[i + 1] = Round(r[i], s)
    BY <1>1, <2>1
  <2>3. d = IF s.tid \in DOMAIN c /\ s.comm \in Transient THEN c ELSE Put(c, s.tid, s.comm)
    BY <2>2 DEF Round, Account
  <2> HIDE DEF c, d
  <2>4. \A j \in 1..(i + 1) : j \in 1..i \/ j = i + 1
    OBVIOUS
  <2>5. i + 1 \in 1..(i + 1) /\ \A j \in 1..i : j \in 1..(i + 1) /\ j < i + 1
    OBVIOUS
  <2>6. {q[j].tid : j \in 1..(i + 1)} = {q[j].tid : j \in 1..i} \cup {s.tid}
    BY <2>4, <2>5
  <2>7. DOMAIN d = {q[j].tid : j \in 1..(i + 1)}
    BY <2>1, <2>3, <2>6 DEF LastName, Put
  <2>8. ASSUME NEW t \in DOMAIN d, NEW j \in NamedIn(q, i + 1, t),
               \A k \in NamedIn(q, i + 1, t) : k <= j
        PROVE  d[t] = q[j].comm
    <3>1. CASE s.tid = t /\ s.comm \notin Transient
      <4>1. i + 1 \in NamedIn(q, i + 1, t)
        BY <2>5, <3>1 DEF NamedIn
      <4>2. i + 1 <= j /\ j \in 1..(i + 1)
        BY <2>8, <4>1 DEF NamedIn
      <4>3. j = i + 1
        BY <4>2
      <4>4. d[t] = s.comm
        BY <2>3, <3>1 DEF Put
      <4> QED BY <4>3, <4>4
    <3>2. CASE ~(s.tid = t /\ s.comm \notin Transient)
      <4>1. NamedIn(q, i + 1, t) = NamedIn(q, i, t)
        BY <2>4, <2>5, <3>2 DEF NamedIn
      <4>2. j \in 1..i /\ q[j].tid = t /\ \A k \in NamedIn(q, i, t) : k <= j
        BY <2>8, <4>1 DEF NamedIn
      <4>3. t \in DOMAIN c
        BY <2>1, <4>2 DEF LastName
      <4>4. c[t] = q[j].comm
        BY <2>1, <2>8, <4>1, <4>2, <4>3 DEF LastName
      <4>5. d[t] = c[t]
        BY <2>3, <3>2, <4>3 DEF Put
      <4> QED BY <4>4, <4>5
    <3> QED BY <3>1, <3>2
  <2>9. LastName(q, i + 1, d)
    BY <2>7, <2>8 DEF LastName
  <2> QED BY <2>9 DEF d
<1>4. Nat \subseteq Good
  <2> HIDE DEF Good
  <2> QED BY <1>2, <1>3, NumberInduction
<1> QED BY <1>1, <1>4

LEMMA NoRenames ==
  ASSUME NEW n \in Nat, NEW q, DOMAIN q = 1..n, NEW p, LastName(q, n, p.comm)
  PROVE  DOMAIN Renames(p, RealComm(p, q), q) = {}
<1> DEFINE real == RealComm(p, q)
           Names(t) == {i \in DOMAIN q : q[i].tid = t /\ q[i].comm \notin Transient}
<1>1. real = [t \in DOMAIN p.comm |-> IF Names(t) = {} THEN p.comm[t] ELSE q[Max(Names(t))].comm]
  BY DEF RealComm
<1>2. ASSUME NEW t \in DOMAIN p.comm PROVE real[t] = p.comm[t]
  <2>1. CASE Names(t) = {}
    BY <1>1, <2>1
  <2>2. CASE Names(t) # {}
    <3>1. Names(t) = NamedIn(q, n, t) /\ Names(t) \in SUBSET (1..n)
      BY DEF NamedIn
    <3>2. Max(Names(t)) \in Names(t) /\ \A i \in Names(t) : i <= Max(Names(t))
      <4>1. PICK i \in Names(t) : TRUE
        BY <2>2
      <4>2. Names(t) \in SUBSET Nat /\ \A j \in Names(t) : j <= n
        BY <3>1
      <4> HIDE DEF Names
      <4> QED BY <4>1, <4>2, GreatestNumber
    <3>3. real[t] = q[Max(Names(t))].comm
      BY <1>1, <2>2
    <3> HIDE DEF Names, real
    <3> QED BY <3>1, <3>2, <3>3 DEF LastName
  <2> QED BY <2>1, <2>2
<1>3. DOMAIN real = DOMAIN p.comm
  BY <1>1
<1> HIDE DEF real
<1>4. {t \in DOMAIN real : real[t] # p.comm[t]} = {}
  BY <1>2, <1>3
<1>5. DOMAIN Renames(p, real, q) = {p.comm[t] : t \in {t \in DOMAIN real : real[t] # p.comm[t]}}
  BY DEF Renames
<1>6. DOMAIN Renames(p, real, q) = {}
  BY <1>4, <1>5
<1> QED BY <1>6 DEF real

\* The rounds name a thread as the renaming after them would: whatever the samples, it
\* finds nothing to rename, and a root once labelled perf-exec stays so.
THEOREM NothingIsRenamed ==
  ASSUME NEW n \in Nat, NEW q, DOMAIN q = 1..n
  PROVE  LET p == FoldLeft(Round, Blank, q) IN DOMAIN Renames(p, RealComm(p, q), q) = {}
<1> DEFINE p == FoldLeft(Round, Blank, q)
<1>1. p = Rounds!Left(0, Blank, q)
  BY DEF Rounds!Left, FoldLeft, Rounds!FoldLeft, MapThenFoldSet, Rounds!MapThenFoldSet, Max, Rounds!Max
<1> HIDE DEF p
<1>2. LastName(q, n, p.comm)
  BY <1>1, CommsAre
<1>3. DOMAIN Renames(p, RealComm(p, q), q) = {}
  BY <1>2, NoRenames
<1> QED BY <1>3 DEF p

\* Renaming nothing.
LEMMA Unrenamed ==
  ASSUME NEW new, DOMAIN new = {}
  PROVE  /\ \A chain : Renamed(chain, new) = chain
         /\ \A fold : IsFcn(fold) /\ (\A k \in DOMAIN fold : fold[k] \in Nat) => RenamedFold(fold, new) = fold
<1>1. \A chain : Renamed(chain, new) = chain
  BY DEF Renamed
<1>2. ASSUME NEW fold, IsFcn(fold), \A k \in DOMAIN fold : fold[k] \in Nat
      PROVE  RenamedFold(fold, new) = fold
  <2>1. {Renamed(c, new) : c \in DOMAIN fold} = DOMAIN fold
    BY <1>1
  <2>2. ASSUME NEW k \in DOMAIN fold
        PROVE  SumFunctionOnSet(fold, {c \in DOMAIN fold : Renamed(c, new) = k}) = fold[k]
    <3>1. {c \in DOMAIN fold : Renamed(c, new) = k} = {k}
      BY <1>1
    <3>2. IsFiniteSet({k}) /\ {k} \ {k} = {}
      BY FS_Singleton
    <3>3. \A x \in {k} : fold[x] \in Int
      BY <1>2
    <3>4. SumFunctionOnSet(fold, {k}) = fold[k] + SumFunctionOnSet(fold, {k} \ {k})
      <4> DEFINE K == {k}
      <4>1. k \in K /\ IsFiniteSet(K) /\ \A x \in K : fold[x] \in Int
        BY <3>2, <3>3
      <4> HIDE DEF K
      <4>2. SumFunctionOnSet(fold, K) = fold[k] + SumFunctionOnSet(fold, K \ {k})
        BY <4>1, SumElement
      <4> QED BY <4>2 DEF K
    <3>5. SumFunctionOnSet(fold, {}) = 0
      BY SumEmpty
    <3>6. fold[k] \in Int
      BY <3>3
    <3>7. SumFunctionOnSet(fold, {k} \ {k}) = 0
      BY <3>2, <3>5
    <3>8. SumFunctionOnSet(fold, {k}) = fold[k]
      BY ONLY <3>4, <3>6, <3>7
    <3> QED BY <3>1, <3>8
  <2>3. RenamedFold(fold, new)
        = [k \in DOMAIN fold |-> SumFunctionOnSet(fold, {c \in DOMAIN fold : Renamed(c, new) = k})]
    BY <2>1 DEF RenamedFold
  <2>4. fold = [k \in DOMAIN fold |-> fold[k]]
    BY <1>2 DEF IsFcn
  <2> QED BY <2>2, <2>3, <2>4
<1> QED BY <1>1, <1>2

-----------------------------------------------------------------------------
(* What the profile keeps of the rounds, which is all but what it renames. *)

IsProfile(p) == p = [total |-> p.total, comm |-> p.comm, cycles |-> p.cycles, self |-> p.self,
                     dso |-> p.dso, incl |-> p.incl, user |-> p.user, chains |-> p.chains]

LEMMA RoundsMake ==
  ASSUME NEW n \in Nat, NEW q, DOMAIN q = 1..n
  PROVE  IsProfile(Rounds!Left(0, Blank, q))
<1>0. PICK r : Rounds!Runs(0, Blank, q, n, r) /\ Rounds!Left(0, Blank, q) = r[n]
  BY Rounds!LeftRuns
<1>1. r[0] = Blank /\ (\A i \in 1..n : r[i] = Round(r[i - 1], q[i])) /\ Rounds!Left(0, Blank, q) = r[n]
  BY <1>0 DEF Rounds!Runs
<1>2. CASE n = 0
  <2>1. IsProfile(Blank)
    BY DEF Blank, IsProfile
  <2> QED BY <1>1, <1>2, <2>1
<1>3. CASE n # 0
  <2>1. n \in 1..n
    BY <1>3
  <2>2. r[n] = Account(r[n - 1], q[n], Callers(q[n]), Labelled(q[n], UserChain(q[n])))
    BY <1>1, <2>1 DEF Round
  <2>3. \A p, s, callers, chain : IsProfile(Account(p, s, callers, chain))
    BY DEF Account, IsProfile
  <2> QED BY <1>1, <2>2, <2>3
<1> QED BY <1>2, <1>3

RoundsOf(q) == Rounds!Left(0, Blank, q)

LEMMA ProfileIs ==
  ASSUME NEW n \in Nat, NEW q, DOMAIN q = 1..n
  PROVE  LET p == RoundsOf(q)
             b == BuildProfile(q)
         IN /\ b.total = p.total /\ b.cycles = p.cycles /\ b.self = p.self /\ b.dso = p.dso /\ b.incl = p.incl
            /\ b.chains = [i \in 1..n |-> ChainOf(q[i])]
            /\ IsFcn(p.user) /\ (\A k \in DOMAIN p.user : p.user[k] \in Nat) => b.user = p.user
<1> DEFINE p    == RoundsOf(q)
           b    == BuildProfile(q)
           real == RealComm(p, q)
           new  == Renames(p, real, q)
<1>1. FoldLeft(Round, Blank, q) = p
  BY DEF RoundsOf, Rounds!Left, FoldLeft, Rounds!FoldLeft, MapThenFoldSet, Rounds!MapThenFoldSet, Max, Rounds!Max
<1>2. p.chains = [i \in 1..n |-> ChainOf(q[i])]
  BY ChainsAre DEF RoundsOf
<1>3. DOMAIN new = {}
  <2>1. LastName(q, n, p.comm)
    BY CommsAre DEF RoundsOf
  <2> HIDE DEF p
  <2> QED BY <2>1, NoRenames
<1>4. IsProfile(p)
  BY RoundsMake DEF RoundsOf
<1>5. b = [p EXCEPT !.comm   = real,
                    !.user   = RenamedFold(p.user, new),
                    !.chains = [i \in DOMAIN p.chains |-> Renamed(p.chains[i], new)]]
  BY <1>1 DEF BuildProfile
<1> HIDE DEF p, b, real, new
<1>6. [i \in DOMAIN p.chains |-> Renamed(p.chains[i], new)] = [i \in 1..n |-> ChainOf(q[i])]
  <2>1. \A chain : Renamed(chain, new) = chain
    BY <1>3, Unrenamed
  <2> QED BY <1>2, <2>1
<1>7. IsFcn(p.user) /\ (\A k \in DOMAIN p.user : p.user[k] \in Nat) => RenamedFold(p.user, new) = p.user
  BY <1>3, Unrenamed
<1> DEFINE c == [i \in DOMAIN p.chains |-> Renamed(p.chains[i], new)]
           u == RenamedFold(p.user, new)
<1>8. b = [p EXCEPT !.comm = real, !.user = u, !.chains = c]
  BY <1>5
<1> HIDE DEF c, u
<1>9. b = [total |-> p.total, comm |-> real, cycles |-> p.cycles, self |-> p.self,
           dso |-> p.dso, incl |-> p.incl, user |-> u, chains |-> c]
  BY <1>4, <1>8 DEF IsProfile
<1>10. c = [i \in 1..n |-> ChainOf(q[i])]
  BY <1>6 DEF c
<1>11. IsFcn(p.user) /\ (\A k \in DOMAIN p.user : p.user[k] \in Nat) => u = p.user
  BY <1>7 DEF u
<1> QED BY <1>9, <1>10, <1>11 DEF p, b

-----------------------------------------------------------------------------
(* A row is its sample, by index.                                          *)

LEMMA CallersAre ==
  ASSUME NEW s, s.frames \in Seq(Framed)
  PROVE  Callers(s) \in Seq(Called) /\ Len(Callers(s)) \in Nat \ {0}
<1>1. CASE s.frames = <<>>
  <2>1. Unknown \in Called
    <3>1. NoStack \in Framed /\ NoStack.sym = Unknown
      BY DEF Framed, NoStack
    <3> QED BY <3>1 DEF Called
  <2>2. Callers(s) = <<Unknown>>
    BY <1>1 DEF Callers
  <2>3. <<Unknown>> \in Seq(Called) /\ Len(<<Unknown>>) = 1
    BY <2>1
  <2> QED BY <2>2, <2>3
<1>2. CASE s.frames # <<>>
  <2> DEFINE c == Capped(s.frames)
             y == Symbols(c)
             k == Min({MaxFrames, Len(s.frames)})
  <2>1. c \in Seq(Framed)
    BY CappedIs
  <2>2. k \in Nat \ {0} /\ k <= Len(s.frames)
    <3>1. MaxFrames \in Nat \ {0} /\ Len(s.frames) \in Nat \ {0}
      BY <1>2, ProfileConstants
    <3>2. \E x \in {MaxFrames, Len(s.frames)} : \A z \in {MaxFrames, Len(s.frames)} : x =< z
      BY <3>1
    <3>3. k \in {MaxFrames, Len(s.frames)} /\ \A z \in {MaxFrames, Len(s.frames)} : k =< z
      BY <3>2 DEF Min
    <3> HIDE DEF k
    <3> QED BY <3>1, <3>3
  <2>3. c = SubSeq(s.frames, 1, k)
    BY DEF Capped
  <2> HIDE DEF k, c
  <2>4. Len(c) = k
    BY <2>2, <2>3
  <2>5. Len(c) \in Nat \ {0} /\ DOMAIN c = 1..Len(c) /\ \A i \in 1..Len(c) : c[i] \in Framed
    BY <2>1, <2>2, <2>4
  <2>6. y \in Seq(Called) /\ Len(y) = Len(c)
    <3>1. \A i \in 1..Len(c) : c[i].sym \in Called
      BY <2>5 DEF Called
    <3>2. y = [i \in 1..Len(c) |-> c[i].sym]
      BY <2>5 DEF Symbols
    <3> HIDE DEF y
    <3> QED BY <2>5, <3>1, <3>2
  <2> HIDE DEF y
  <2>7. Reverse(y) = [i \in 1..Len(y) |-> y[(Len(y) - i) + 1]]
    BY DEF Reverse
  <2>8. \A i \in 1..Len(y) : (Len(y) - i) + 1 \in 1..Len(y)
    BY <2>5, <2>6
  <2>9. Reverse(y) \in Seq(Called) /\ Len(Reverse(y)) = Len(y)
    BY <2>5, <2>6, <2>7, <2>8
  <2>10. Callers(s) = Reverse(y)
    BY <1>2 DEF Callers, y, c
  <2> QED BY <2>5, <2>6, <2>9, <2>10
<1> QED BY <1>1, <1>2

\* What a sequence holds is finite.
LEMMA HeldFinite ==
  ASSUME NEW T, NEW q \in Seq(T)
  PROVE  IsFiniteSet(ToSet(q))
<1>1. IsFiniteSet(1..Len(q)) /\ DOMAIN q = 1..Len(q)
  BY FS_Interval
<1> QED BY <1>1, ImageFinite DEF ToSet

\* at and syms undo each other on the symbols of a set.
Indexed(S, at, syms) == \A x \in S : at[x] \in DOMAIN syms /\ syms[at[x]] = x

Fit(s, r, syms) ==
  /\ IsRow(r)
  /\ r.tid = s.tid /\ r.time = s.time /\ r.period = s.period /\ r.dso = LeafDso(s)
  /\ IsFiniteSet(ToSet(r.stack)) /\ ToSet(r.stack) \subseteq DOMAIN syms
  /\ IsFiniteSet(ToSet(Callers(s))) /\ ToSet(Callers(s)) = {syms[i] : i \in ToSet(r.stack)}
  /\ Last(r.stack) \in DOMAIN syms /\ syms[Last(r.stack)] = Last(Callers(s))
  /\ r.user = Nothing <=> ChainOf(s) = Nothing
  /\ ChainOf(s) # Nothing => SampleKey(r, syms) = ChainOf(s)

\* The key of a row is the chain of its sample.
LEMMA KeyFits ==
  ASSUME NEW s, NEW chain, IsChain(chain), chain # Nothing, NEW at, NEW syms, DOMAIN syms \subseteq Nat,
         Indexed(ToSet(chain), at, syms)
  PROVE  Row(s, chain, at).user # Nothing /\ SampleKey(Row(s, chain, at), syms) = chain
<1> DEFINE t == Tail(chain)
           u == [i \in DOMAIN t |-> at[t[i]]]
           r == Row(s, chain, at)
<1>1. PICK T : chain \in Seq(T) /\ chain # <<>>
  BY DEF IsChain
<1>2. r.user = u /\ r.root = chain[1]
  BY DEF Row
<1>3. Len(chain) \in Nat \ {0} /\ DOMAIN chain = 1..Len(chain) /\ \A i \in 1..Len(chain) : chain[i] \in T
  BY <1>1
<1>4. t \in Seq(T) /\ Len(t) = Len(chain) - 1 /\ \A i \in 1..Len(t) : t[i] = chain[i + 1]
  BY <1>1, <1>3
<1> HIDE DEF t
<1>5. Len(t) \in Nat /\ DOMAIN t = 1..Len(t)
  BY <1>4
<1>6. ASSUME NEW i \in 1..Len(t) PROVE at[t[i]] \in DOMAIN syms /\ syms[at[t[i]]] = t[i]
  <2>1. i + 1 \in DOMAIN chain /\ t[i] = chain[i + 1]
    BY <1>3, <1>4, <1>5
  <2>2. t[i] \in ToSet(chain)
    BY <2>1 DEF ToSet
  <2> QED BY <2>2 DEF Indexed
<1>7. u \in Seq(Nat) /\ DOMAIN u = 1..Len(t)
  <2>1. \A i \in 1..Len(t) : at[t[i]] \in Nat
    BY <1>6
  <2>2. u = [i \in 1..Len(t) |-> at[t[i]]]
    BY <1>5
  <2> HIDE DEF u
  <2> QED BY <1>5, <2>1, <2>2
<1>8. u # Nothing
  BY <1>7, ProfileConstants
<1>9. [i \in DOMAIN u |-> syms[u[i]]] = t
  <2>1. \A i \in 1..Len(t) : u[i] = at[t[i]]
    BY <1>5
  <2>2. t = [i \in 1..Len(t) |-> t[i]]
    BY <1>4, <1>5
  <2> HIDE DEF u
  <2> QED BY <1>6, <1>7, <2>1, <2>2
<1>10. SampleKey(r, syms) = <<chain[1]>> \o t
  BY <1>2, <1>9 DEF SampleKey
<1>11. <<chain[1]>> \o t = chain
  <2> DEFINE a == <<chain[1]>> \o t
  <2>1. chain[1] \in T
    BY <1>3
  <2>2. a \in Seq(T) /\ Len(a) = Len(chain)
    <3> DEFINE x == chain[1]
    <3>1. x \in T
      BY <2>1
    <3> HIDE DEF x
    <3>2. <<x>> \o t \in Seq(T) /\ Len(<<x>> \o t) = 1 + Len(t)
      BY <1>4, <3>1
    <3>3. 1 + Len(t) = Len(chain)
      BY <1>3, <1>4
    <3> QED BY <3>2, <3>3 DEF x
  <2>3. \A i \in 1..Len(chain) : a[i] = chain[i]
    <3> SUFFICES ASSUME NEW i \in 1..Len(chain) PROVE a[i] = chain[i]
      OBVIOUS
    <3>1. CASE i = 1
      BY <2>1, <1>4, <3>1
    <3>2. CASE i # 1
      <4>1. i - 1 \in 1..Len(t) /\ (i - 1) + 1 = i
        BY <1>3, <1>4, <3>2
      <4>2. a[i] = t[i - 1]
        BY <1>3, <1>4, <2>1, <3>2
      <4> QED BY <1>4, <4>1, <4>2
    <3> QED BY <3>1, <3>2
  <2> HIDE DEF a
  <2>4. a = chain
    BY <1>1, <2>2, <2>3, SeqEqual
  <2> QED BY <2>4 DEF a
<1> HIDE DEF u, r
<1> QED BY <1>2, <1>8, <1>10, <1>11 DEF r

LEMMA RowFits ==
  ASSUME NEW s, s.frames \in Seq(Framed), s.period \in Nat \ {0}, NEW at, NEW syms, DOMAIN syms \subseteq Nat,
         Indexed(ToSet(Callers(s)), at, syms),
         ChainOf(s) # Nothing => Indexed(ToSet(ChainOf(s)), at, syms)
  PROVE  Fit(s, Row(s, ChainOf(s), at), syms)
<1> DEFINE r == Row(s, ChainOf(s), at)
           c == Callers(s)
           k == r.stack
<1>1. IsChain(ChainOf(s))
  BY ChainIs
<1>2. IsRow(r)
  BY <1>1, RowIs
<1>3. r.tid = s.tid /\ r.time = s.time /\ r.period = s.period /\ r.dso = LeafDso(s)
      /\ k = [i \in DOMAIN c |-> at[c[i]]]
  BY DEF Row
<1>4. c \in Seq(Called) /\ Len(c) \in Nat \ {0} /\ DOMAIN c = 1..Len(c)
  BY CallersAre
<1>5. \A i \in 1..Len(c) : c[i] \in ToSet(c)
  BY <1>4 DEF ToSet
<1>6. \A i \in 1..Len(c) : at[c[i]] \in DOMAIN syms /\ syms[at[c[i]]] = c[i]
  BY <1>5 DEF Indexed
<1>7. k \in Seq(Nat) /\ Len(k) = Len(c) /\ DOMAIN k = 1..Len(c) /\ \A i \in 1..Len(c) : k[i] = at[c[i]]
  <2>1. \A i \in 1..Len(c) : at[c[i]] \in Nat
    BY <1>6
  <2>2. k = [i \in 1..Len(c) |-> at[c[i]]]
    BY <1>3, <1>4
  <2> HIDE DEF k, c
  <2> QED BY <1>4, <2>1, <2>2
<1>8. r.user = Nothing <=> ChainOf(s) = Nothing
  <2>1. CASE ChainOf(s) = Nothing
    BY <2>1 DEF Row
  <2>2. CASE ChainOf(s) # Nothing
    BY <1>1, <2>2, KeyFits
  <2> QED BY <2>1, <2>2
<1>9. ChainOf(s) # Nothing => SampleKey(r, syms) = ChainOf(s)
  BY <1>1, KeyFits
<1> HIDE DEF r, c, k
<1>10. IsFiniteSet(ToSet(k)) /\ IsFiniteSet(ToSet(c))
  BY <1>4, <1>7, HeldFinite
<1>11. ToSet(k) \subseteq DOMAIN syms /\ ToSet(c) = {syms[i] : i \in ToSet(k)}
  <2>1. ToSet(k) = {k[i] : i \in 1..Len(c)} /\ ToSet(c) = {c[i] : i \in 1..Len(c)}
    BY <1>4, <1>7 DEF ToSet
  <2>2. ToSet(k) \subseteq DOMAIN syms
    BY <1>6, <1>7, <2>1
  <2>3. \A i \in 1..Len(c) : syms[k[i]] = c[i]
    BY <1>6, <1>7
  <2>4. ToSet(c) = {syms[j] : j \in ToSet(k)}
    BY <2>1, <2>3
  <2> QED BY <2>2, <2>4
<1>12. Last(k) \in DOMAIN syms /\ syms[Last(k)] = Last(c)
  BY <1>4, <1>6, <1>7 DEF Last
<1>13. Fit(s, r, syms)
  BY <1>2, <1>3, <1>8, <1>9, <1>10, <1>11, <1>12 DEF Fit, k, c
<1> QED BY <1>13 DEF r

LEMMA FamilyFinite ==
  ASSUME NEW f, IsFiniteSet(DOMAIN f), \A i \in DOMAIN f : IsFiniteSet(f[i])
  PROVE  IsFiniteSet(UNION {f[i] : i \in DOMAIN f})
<1> DEFINE T == {f[i] : i \in DOMAIN f}
<1>1. \A t \in T : IsFiniteSet(t)
  OBVIOUS
<1>2. T = {f[i] : i \in DOMAIN f}
  OBVIOUS
<1> HIDE DEF T
<1>3. IsFiniteSet(T)
  BY <1>2, ImageFinite
<1>4. IsFiniteSet(UNION T)
  BY <1>1, <1>3, FS_UNION
<1> QED BY <1>2, <1>4

\* The rows of the page are the samples.
LEMMA PageIs ==
  ASSUME ReportType
  PROVE  /\ One(Payload(Analyzed).syms)
         /\ \E m \in Nat : /\ DOMAIN Analyzed = 1..m /\ DOMAIN Payload(Analyzed).rows = 1..m
                           /\ \A i \in 1..m : Fit(Analyzed[i], Payload(Analyzed).rows[i], Payload(Analyzed).syms)
<1> DEFINE q == Analyzed
           p == BuildProfile(q)
           syms == Interned(q, p)
           at   == [x \in ToSet(syms) |-> CHOOSE i \in DOMAIN syms : syms[i] = x]
           rows == [i \in DOMAIN q |-> Row(q[i], IF i \in DOMAIN p.chains THEN p.chains[i] ELSE Nothing, at)]
<1>1. PICK m \in Nat : DOMAIN q = 1..m /\ \A i \in 1..m : q[i].period \in Nat \ {0} /\ q[i].frames \in Seq(Framed)
  BY AnalyzedAre
<1>2. Payload(q).rows = rows /\ Payload(q).syms = syms
  BY DEF Payload
<1> HIDE DEF q
<1>3. p.chains = [i \in 1..m |-> ChainOf(q[i])]
  BY <1>1, ProfileIs
<1> HIDE DEF p
<1> DEFINE In == {i \in 1..m : ChainOf(q[i]) # Nothing}
           C  == [i \in 1..m |-> ToSet(Callers(q[i]))]
           U  == [i \in In |-> ToSet(ChainOf(q[i]))]
           S  == (UNION {C[i] : i \in 1..m}) \cup (UNION {U[i] : i \in In})
<1>4. \A i \in 1..m : C[i] \subseteq S /\ (i \in In => U[i] \subseteq S)
  OBVIOUS
<1>5. syms = SetToSeq(S)
  <2>1. {ToSet(Callers(q[i])) : i \in DOMAIN q} = {C[i] : i \in 1..m}
    BY <1>1
  <2>2. {i \in DOMAIN p.chains : p.chains[i] # Nothing} = In /\ \A i \in In : p.chains[i] = ChainOf(q[i])
    BY <1>3
  <2>3. {ToSet(p.chains[i]) : i \in {i \in DOMAIN p.chains : p.chains[i] # Nothing}} = {U[i] : i \in In}
    BY <2>2
  <2> HIDE DEF C, U, In
  <2> QED BY <2>1, <2>3 DEF Interned
<1>6. IsFiniteSet(S)
  <2>1. IsFiniteSet(1..m) /\ IsFiniteSet(In)
    <3>1. IsFiniteSet(1..m)
      BY FS_Interval
    <3>2. In \subseteq 1..m
      OBVIOUS
    <3> HIDE DEF In
    <3> QED BY <3>1, <3>2, FS_Subset
  <2>2. \A i \in DOMAIN C : IsFiniteSet(C[i])
    BY <1>1, CallersAre, HeldFinite
  <2>3. \A i \in DOMAIN U : IsFiniteSet(U[i])
    <3> SUFFICES ASSUME NEW i \in In PROVE IsFiniteSet(ToSet(ChainOf(q[i])))
      OBVIOUS
    <3>1. \E T : ChainOf(q[i]) \in Seq(T)
      BY <1>1, ChainIs DEF IsChain
    <3> QED BY <3>1, HeldFinite
  <2>4. DOMAIN C = 1..m /\ DOMAIN U = In
    OBVIOUS
  <2> HIDE DEF C, U, In
  <2>5. IsFiniteSet(UNION {C[i] : i \in 1..m}) /\ IsFiniteSet(UNION {U[i] : i \in In})
    BY <2>1, <2>2, <2>3, <2>4, FamilyFinite
  <2> QED BY <2>5, FS_Union
<1> HIDE DEF S, syms
<1>7. PICK n \in Nat : DOMAIN syms = 1..n /\ One(syms) /\ S = {syms[i] : i \in 1..n}
  BY <1>5, <1>6, Listed
<1>8. Indexed(S, at, syms)
  <2>1. ToSet(syms) = S
    BY <1>7 DEF ToSet
  <2>2. \A x \in S : \E i \in DOMAIN syms : syms[i] = x
    BY <1>7
  <2> QED BY <2>1, <2>2 DEF Indexed
<1> HIDE DEF at
<1>9. DOMAIN syms \subseteq Nat
  BY <1>7
<1>10. ASSUME NEW i \in 1..m PROVE Fit(q[i], rows[i], syms)
  <2>1. rows[i] = Row(q[i], ChainOf(q[i]), at)
    BY <1>1, <1>3
  <2>2. Indexed(ToSet(Callers(q[i])), at, syms)
    BY <1>4, <1>8 DEF Indexed
  <2>3. ChainOf(q[i]) # Nothing => Indexed(ToSet(ChainOf(q[i])), at, syms)
    BY <1>4, <1>8 DEF Indexed
  <2> HIDE DEF rows
  <2> QED BY <1>1, <1>9, <2>1, <2>2, <2>3, RowFits
<1>11. DOMAIN rows = 1..m
  BY <1>1
<1> HIDE DEF rows
<1> QED BY <1>1, <1>2, <1>7, <1>10, <1>11 DEF q

\* What is within a window of the rows is what is within it of the samples.
LEMMA WithinBoth ==
  ASSUME NEW n \in Nat, NEW q, DOMAIN q = 1..n, NEW rows, DOMAIN rows = 1..n, NEW syms,
         \A i \in 1..n : Fit(q[i], rows[i], syms), NEW c
  PROVE  \E k \in Nat : /\ DOMAIN Pass!Left(c, <<>>, q) = 1..k /\ DOMAIN Pass!Left(c, <<>>, rows) = 1..k
                        /\ \A i \in 1..k : Fit(Pass!Left(c, <<>>, q)[i], Pass!Left(c, <<>>, rows)[i], syms)
<1> DEFINE Passes(x) == InWindow(x, c[1], c[2], c[3])
           InStep(a, b) == \E k \in Nat : /\ a \in Seq({q[i] : i \in 1..n}) /\ Len(a) = k
                                          /\ b \in Seq({rows[i] : i \in 1..n}) /\ Len(b) = k
                                          /\ \A i \in 1..k : Fit(a[i], b[i], syms)
<1>1. PICK s : Pass!Runs(c, <<>>, q, n, s) /\ Pass!Left(c, <<>>, q) = s[n]
  BY Pass!LeftRuns
<1>2. PICK r : Pass!Runs(c, <<>>, rows, n, r) /\ Pass!Left(c, <<>>, rows) = r[n]
  BY Pass!LeftRuns
<1>3. s[0] = <<>> /\ \A i \in 1..n : s[i] = IF Passes(q[i]) THEN Append(s[i - 1], q[i]) ELSE s[i - 1]
  BY <1>1 DEF Pass!Runs
<1>4. r[0] = <<>> /\ \A i \in 1..n : r[i] = IF Passes(rows[i]) THEN Append(r[i - 1], rows[i]) ELSE r[i - 1]
  BY <1>2 DEF Pass!Runs
<1>5. \A i \in 1..n : Passes(q[i]) <=> Passes(rows[i])
  BY DEF Fit, InWindow, InScope
<1> HIDE DEF Passes, InStep
<1> DEFINE Good == {i \in Nat : i <= n => InStep(s[i], r[i])}
<1>6. 0 \in Good
  <2> DEFINE Q == {q[i] : i \in 1..n}
             R == {rows[i] : i \in 1..n}
  <2> HIDE DEF Q, R
  <2>1. <<>> \in Seq(Q) /\ <<>> \in Seq(R) /\ Len(<<>>) = 0 /\ 1..0 = {}
    OBVIOUS
  <2>2. InStep(s[0], r[0])
    BY <1>3, <1>4, <2>1 DEF Q, R, InStep
  <2> QED BY <2>2
<1>7. ASSUME NEW i \in Nat, i \in Good PROVE i + 1 \in Good
  <2> SUFFICES ASSUME i + 1 <= n PROVE InStep(s[i + 1], r[i + 1])
    OBVIOUS
  <2> DEFINE Q == {q[j] : j \in 1..n}
             R == {rows[j] : j \in 1..n}
             a == s[i]
             b == r[i]
             x == q[i + 1]
             y == rows[i + 1]
  <2>1. i + 1 \in 1..n /\ (i + 1) - 1 = i /\ InStep(a, b)
    BY <1>7
  <2>2. x \in Q /\ y \in R /\ Fit(x, y, syms)
    BY <2>1
  <2>3. PICK k \in Nat : /\ a \in Seq(Q) /\ Len(a) = k /\ b \in Seq(R) /\ Len(b) = k
                         /\ \A j \in 1..k : Fit(a[j], b[j], syms)
    BY <2>1 DEF InStep
  <2>4. CASE Passes(x)
    <3>1. s[i + 1] = Append(a, x) /\ r[i + 1] = Append(b, y)
      BY <1>3, <1>4, <1>5, <2>1, <2>4
    <3> HIDE DEF Q, R, a, b, x, y
    <3>2. Append(a, x) \in Seq(Q) /\ Len(Append(a, x)) = k + 1
      BY <2>2, <2>3
    <3>3. Append(b, y) \in Seq(R) /\ Len(Append(b, y)) = k + 1
      BY <2>2, <2>3
    <3>4. ASSUME NEW j \in 1..(k + 1) PROVE Fit(Append(a, x)[j], Append(b, y)[j], syms)
      <4>1. CASE j = k + 1
        <5>1. Append(a, x)[k + 1] = x /\ Append(b, y)[k + 1] = y
          BY <2>3
        <5> QED BY <2>2, <4>1, <5>1
      <4>2. CASE j # k + 1
        <5>1. j \in 1..k
          BY <4>2
        <5>2. Append(a, x)[j] = a[j] /\ Append(b, y)[j] = b[j]
          BY <2>3, <5>1
        <5> QED BY <2>3, <5>1, <5>2
      <4> QED BY <4>1, <4>2
    <3>5. k + 1 \in Nat
      OBVIOUS
    <3> QED BY <3>1, <3>2, <3>3, <3>4, <3>5 DEF Q, R, InStep
  <2>5. CASE ~Passes(x)
    <3>1. s[i + 1] = a /\ r[i + 1] = b
      BY <1>3, <1>4, <1>5, <2>1, <2>5
    <3> QED BY <2>1, <3>1
  <2> QED BY <2>4, <2>5
<1>8. Nat \subseteq Good
  <2> HIDE DEF Good
  <2> QED BY <1>6, <1>7, NumberInduction
<1>9. InStep(s[n], r[n])
  BY <1>8
<1>10. PICK k \in Nat : /\ s[n] \in Seq({q[i] : i \in 1..n}) /\ Len(s[n]) = k
                        /\ r[n] \in Seq({rows[i] : i \in 1..n}) /\ Len(r[n]) = k
                        /\ \A i \in 1..k : Fit(s[n][i], r[n][i], syms)
  BY <1>9 DEF InStep
<1>11. DOMAIN s[n] = 1..k /\ DOMAIN r[n] = 1..k
  BY <1>10
<1> QED BY <1>1, <1>2, <1>10, <1>11

\* The page's tables h, c, f beside the server's profile p.
Agree(h, c, f, p, syms) ==
  /\ h.total = p.total
  /\ Alike(h.self, p.self, syms)
  /\ Alike(h.mod, p.dso, syms)
  /\ Alike(h.incl, p.incl, syms)
  /\ c = p.cycles /\ f = p.user /\ IsFcn(f)

LEMMA AgreeStep ==
  ASSUME NEW syms, One(syms), NEW h, NEW c, NEW f, NEW p, Agree(h, c, f, p, syms), NEW s, NEW r, Fit(s, r, syms)
  PROVE  Agree(HotRow(h, r), Added(c, r.tid, r.period),
               IF r.user = Nothing THEN f ELSE Added(f, SampleKey(r, syms), r.period),
               Round(p, s), syms)
<1> DEFINE hh == HotRow(h, r)
           pp == Round(p, s)
           leaf == Last(r.stack)
<1>1. /\ hh.total = h.total + r.period
      /\ hh.self = Added(h.self, leaf, r.period)
      /\ hh.mod = IF leaf \in DOMAIN h.mod THEN h.mod ELSE Put(h.mod, leaf, r.dso)
      /\ hh.incl = EachOnce(h.incl, ToSet(r.stack), r.period)
  BY DEF HotRow
<1>2. /\ pp.total = p.total + s.period
      /\ pp.cycles = Added(p.cycles, s.tid, s.period)
      /\ pp.self = Added(p.self, Last(Callers(s)), s.period)
      /\ pp.dso = IF Last(Callers(s)) \in DOMAIN p.dso THEN p.dso ELSE Put(p.dso, Last(Callers(s)), LeafDso(s))
      /\ pp.incl = EachOnce(p.incl, ToSet(Callers(s)), s.period)
      /\ pp.user = IF ChainOf(s) = Nothing THEN p.user ELSE Added(p.user, ChainOf(s), s.period)
  BY DEF Round, Account, ChainOf
<1> HIDE DEF hh, pp, leaf
<1>3. leaf \in DOMAIN syms /\ syms[leaf] = Last(Callers(s))
  BY DEF Fit, leaf
<1>4. r.tid = s.tid /\ r.period = s.period /\ r.dso = LeafDso(s)
  BY DEF Fit
<1>5. hh.total = pp.total
  BY <1>1, <1>2, <1>4 DEF Agree
<1>6. Alike(hh.self, pp.self, syms)
  BY <1>1, <1>2, <1>3, <1>4, AlikeAdded DEF Agree
<1>7. Alike(hh.mod, pp.dso, syms)
  <2>1. leaf \in DOMAIN h.mod <=> syms[leaf] \in DOMAIN p.dso
    BY <1>3, AlikeAt DEF Agree
  <2>2. Alike(Put(h.mod, leaf, r.dso), Put(p.dso, syms[leaf], r.dso), syms)
    BY <1>3, AlikePut DEF Agree
  <2>3. Alike(h.mod, p.dso, syms)
    BY DEF Agree
  <2> QED BY <1>1, <1>2, <1>3, <1>4, <2>1, <2>2, <2>3
<1>8. Alike(hh.incl, pp.incl, syms)
  <2>1. Alike(h.incl, p.incl, syms)
    BY DEF Agree
  <2>2. /\ IsFiniteSet(ToSet(r.stack)) /\ ToSet(r.stack) \subseteq DOMAIN syms
        /\ IsFiniteSet(ToSet(Callers(s))) /\ ToSet(Callers(s)) = {syms[i] : i \in ToSet(r.stack)}
    BY DEF Fit
  <2> QED BY <1>1, <1>2, <1>4, <2>1, <2>2, AlikeOnce
<1>9. Added(c, r.tid, r.period) = pp.cycles
  BY <1>2, <1>4 DEF Agree
<1>10. (IF r.user = Nothing THEN f ELSE Added(f, SampleKey(r, syms), r.period)) = pp.user
  BY <1>2, <1>4 DEF Agree, Fit
<1>11. Agree(hh, Added(c, r.tid, r.period),
             IF r.user = Nothing THEN f ELSE Added(f, SampleKey(r, syms), r.period), pp, syms)
  <2>1. IsFcn(Added(f, SampleKey(r, syms), r.period))
    BY DEF Added, Put, IsFcn
  <2>2. IsFcn(f)
    BY DEF Agree
  <2>3. IsFcn(IF r.user = Nothing THEN f ELSE Added(f, SampleKey(r, syms), r.period))
    BY <2>1, <2>2
  <2> QED BY <1>5, <1>6, <1>7, <1>8, <1>9, <1>10, <2>3 DEF Agree
<1> QED BY <1>11 DEF hh, pp

\* The page folds its rows into what the server makes of the samples.
LEMMA FoldsAgree ==
  ASSUME NEW n \in Nat, NEW q, DOMAIN q = 1..n, NEW rows, DOMAIN rows = 1..n, NEW syms, One(syms),
         \A i \in 1..n : Fit(q[i], rows[i], syms)
  PROVE  Agree(Hotspots(rows), ByTid(rows), FoldWindow(rows, syms), Rounds!Left(0, Blank, q), syms)
<1>1. PICK p : Rounds!Runs(0, Blank, q, n, p) /\ Rounds!Left(0, Blank, q) = p[n]
  BY Rounds!LeftRuns
<1>2. PICK h : Hot!Runs(0, NoHot, rows, n, h) /\ Hot!Left(0, NoHot, rows) = h[n]
  BY Hot!LeftRuns
<1>3. PICK c : Cpu!Runs(0, Empty, rows, n, c) /\ Cpu!Left(0, Empty, rows) = c[n]
  BY Cpu!LeftRuns
<1>4. PICK f : Fold!Runs(syms, Empty, rows, n, f) /\ Fold!Left(syms, Empty, rows) = f[n]
  BY Fold!LeftRuns
<1>5. Hotspots(rows) = h[n]
  <2>1. Hotspots(rows) = Hot!Left(0, NoHot, rows)
    BY DEF Hotspots, Hot!Left, FoldLeft, Hot!FoldLeft, MapThenFoldSet, Hot!MapThenFoldSet, Max, Hot!Max
  <2> QED BY <1>2, <2>1
<1>6. ByTid(rows) = c[n]
  <2>1. ByTid(rows) = Cpu!Left(0, Empty, rows)
    BY DEF ByTid, Cpu!Left, FoldLeft, Cpu!FoldLeft, MapThenFoldSet, Cpu!MapThenFoldSet, Max, Cpu!Max
  <2> QED BY <1>3, <2>1
<1>7. FoldWindow(rows, syms) = f[n]
  <2>1. FoldWindow(rows, syms) = Fold!Left(syms, Empty, rows)
    BY DEF FoldWindow, Fold!Left, FoldLeft, Fold!FoldLeft, MapThenFoldSet, Fold!MapThenFoldSet, Max, Fold!Max
  <2> QED BY <1>4, <2>1
<1>8. p[0] = Blank /\ \A i \in 1..n : p[i] = Round(p[i - 1], q[i])
  BY <1>1 DEF Rounds!Runs
<1>9. h[0] = NoHot /\ \A i \in 1..n : h[i] = HotRow(h[i - 1], rows[i])
  BY <1>2 DEF Hot!Runs
<1>10. c[0] = Empty /\ \A i \in 1..n : c[i] = Added(c[i - 1], rows[i].tid, rows[i].period)
  BY <1>3 DEF Cpu!Runs
<1>11. f[0] = Empty /\ \A i \in 1..n : f[i] = IF rows[i].user = Nothing THEN f[i - 1]
                                              ELSE Added(f[i - 1], SampleKey(rows[i], syms), rows[i].period)
  BY <1>4 DEF Fold!Runs
<1> DEFINE Good == {i \in Nat : i <= n => Agree(h[i], c[i], f[i], p[i], syms)}
<1>12. 0 \in Good
  <2>1. IsFcn(Empty) /\ DOMAIN Empty = {}
    BY DEF Empty, IsFcn
  <2>2. Alike(Empty, Empty, syms)
    BY <2>1 DEF Alike
  <2>3. Agree(NoHot, Empty, Empty, Blank, syms)
    BY <2>1, <2>2 DEF Agree, NoHot, Blank
  <2> QED BY <1>8, <1>9, <1>10, <1>11, <2>3
<1>13. ASSUME NEW i \in Nat, i \in Good PROVE i + 1 \in Good
  <2> SUFFICES ASSUME i + 1 <= n PROVE Agree(h[i + 1], c[i + 1], f[i + 1], p[i + 1], syms)
    OBVIOUS
  <2>1. i + 1 \in 1..n /\ (i + 1) - 1 = i /\ Agree(h[i], c[i], f[i], p[i], syms)
    BY <1>13
  <2>2. Fit(q[i + 1], rows[i + 1], syms)
    BY <2>1
  <2> DEFINE s == q[i + 1]
             r == rows[i + 1]
  <2>3. h[i + 1] = HotRow(h[i], r) /\ c[i + 1] = Added(c[i], r.tid, r.period) /\ p[i + 1] = Round(p[i], s)
        /\ f[i + 1] = IF r.user = Nothing THEN f[i] ELSE Added(f[i], SampleKey(r, syms), r.period)
    BY <1>8, <1>9, <1>10, <1>11, <2>1
  <2> HIDE DEF s, r
  <2>4. Agree(HotRow(h[i], r), Added(c[i], r.tid, r.period),
              IF r.user = Nothing THEN f[i] ELSE Added(f[i], SampleKey(r, syms), r.period),
              Round(p[i], s), syms)
    BY <2>1, <2>2, AgreeStep DEF s, r
  <2> QED BY <2>3, <2>4
<1>14. Nat \subseteq Good
  <2> HIDE DEF Good
  <2> QED BY <1>12, <1>13, NumberInduction
<1>15. Agree(h[n], c[n], f[n], p[n], syms)
  BY <1>14
<1> QED BY <1>1, <1>5, <1>6, <1>7, <1>15

LEMMA ShowsIs ==
  ASSUME NEW n \in Nat, NEW q, DOMAIN q = 1..n, NEW rows, DOMAIN rows = 1..n, NEW syms, One(syms),
         \A i \in 1..n : Fit(q[i], rows[i], syms)
  PROVE  Shows(rows, syms, BuildProfile(q))
<1> DEFINE p == RoundsOf(q)
           b == BuildProfile(q)
           h == Hotspots(rows)
<1>1. Agree(h, ByTid(rows), FoldWindow(rows, syms), p, syms)
  BY FoldsAgree DEF RoundsOf
<1>2. IsFcn(p.user) /\ \A k \in DOMAIN p.user : p.user[k] \in Nat
  <2>1. PICK S : IsFold(FoldWindow(rows, syms), S)
    BY FoldIs DEF Fit
  <2>2. \A k \in DOMAIN p.user : p.user[k] \in Nat
    BY <1>1, <2>1 DEF Agree, IsFold
  <2>3. IsFcn(FoldWindow(rows, syms))
    BY <1>1 DEF Agree
  <2> QED BY <1>1, <2>2, <2>3 DEF Agree
<1>3. b.total = p.total /\ b.cycles = p.cycles /\ b.self = p.self /\ b.dso = p.dso /\ b.incl = p.incl /\ b.user = p.user
  BY <1>2, ProfileIs
<1> HIDE DEF p, b, h
<1>4. ByName(h.self, syms) = b.self /\ ByName(h.incl, syms) = b.incl /\ ByName(h.mod, syms) = b.dso
  BY <1>1, <1>3, ByNameIs DEF Agree
<1>5. h.total = b.total /\ ByTid(rows) = b.cycles /\ FoldWindow(rows, syms) = b.user
  BY <1>1, <1>3 DEF Agree
<1> QED BY <1>4, <1>5 DEF Shows, b, h

\* Whatever threads and window the reader picks, the flame graph, the call tree, the
\* hotspots with their modules and the cycles of the threads that the browser folds are
\* those the server would have made of the samples picked.
THEOREM PageIsServer == ReportSpec => []WindowIsServer
<1>1. ReportType => WindowIsServer
  <2> SUFFICES ASSUME ReportType, NEW sc, NEW w
               PROVE  LET page == Payload(Analyzed) IN
                      Shows(Within(page.rows, sc, w[1], w[2]), page.syms,
                            BuildProfile(Within(Analyzed, sc, w[1], w[2])))
    BY DEF WindowIsServer
  <2> DEFINE q == Analyzed
             rows == Payload(Analyzed).rows
             syms == Payload(Analyzed).syms
             c == <<sc, w[1], w[2]>>
  <2>1. One(syms) /\ \E m \in Nat : DOMAIN q = 1..m /\ DOMAIN rows = 1..m /\ \A i \in 1..m : Fit(q[i], rows[i], syms)
    BY PageIs
  <2> HIDE DEF q, rows, syms
  <2>2. c[1] = sc /\ c[2] = w[1] /\ c[3] = w[2]
    OBVIOUS
  <2> HIDE DEF c
  <2>3. Within(q, sc, w[1], w[2]) = Pass!Left(c, <<>>, q) /\ Within(rows, sc, w[1], w[2]) = Pass!Left(c, <<>>, rows)
    BY <2>2, WithinIs
  <2> DEFINE a == Pass!Left(c, <<>>, q)
             b == Pass!Left(c, <<>>, rows)
  <2>4. PICK k \in Nat : DOMAIN a = 1..k /\ DOMAIN b = 1..k /\ \A i \in 1..k : Fit(a[i], b[i], syms)
    BY <2>1, WithinBoth
  <2> HIDE DEF a, b
  <2>5. Shows(b, syms, BuildProfile(a))
    BY <2>1, <2>4, ShowsIs
  <2> QED BY <2>3, <2>5 DEF a, b, q, rows, syms
<1> QED BY <1>1, ReportTypeCorrect, PTL
=============================================================================
