-------------------------------- MODULE Browser --------------------------------
(***************************************************************************)
(* The report page: the script of vperf/report_html.py (_JS) as the reader *)
(* works it - the thread selector, the chart buttons, and the mouse on the *)
(* chart that picks a window of the run.                                   *)
(*                                                                         *)
(* A window is a pair of fractions of the run, counted in steps of the     *)
(* narrowest selection (0.002): 0..Steps, or NaN.                          *)
(***************************************************************************)
EXTENDS Integers, FiniteSets

CONSTANTS Threads, Groups, \* bound: the scope keys the two lists of the selector offer
          Waited,          \* those with scheduler records
          Steps,           \* bound: the run, in steps
          NaN

Everything == "all"        \* scopeKey of every thread

ASSUME BrowserConstants == /\ Everything \notin Threads \cup Groups /\ Waited \subseteq Threads \cup Groups
                           /\ Steps \in Nat /\ Steps > 1 /\ NaN \notin Int

VARIABLES
  scope,        \* scopeKey
  grouped,      \* the selector lists name groups
  timeStart, timeEnd,
  drag,         \* initSelection's drag
  refreshTimer, \* scheduleRefresh has a redraw pending
  chartMode,
  cache,        \* chartCacheKey, and the curve chartCache holds
  chart,        \* what the chart shows: a curve, and the window it leaves unshaded
  line,         \* what the scope line says
  notes,        \* the whole-run notes of Overview and Threads are displayed
  drawn,        \* what the tabs show: a scope and a window
  bar,          \* what the bar of waits shows
  flame         \* flameState: the drawing it belongs to and the frame zoomed to

vars == <<scope, grouped, timeStart, timeEnd, drag, refreshTimer, chartMode, cache, chart, line,
          notes, drawn, bar, flame>>

Scopes == Threads \cup Groups \cup {Everything}
Time   == 0..Steps
Modes  == {"util", "freq", "mem"}

View(s, a, b) == [scope |-> s, start |-> a, end |-> b]
Whole  == View(Everything, 0, Steps)
Picked == View(scope, timeStart, timeEnd)

\* JavaScript's numbers: a comparison with NaN is false, and what is computed of one
\* is NaN.
Lt(a, b)    == a # NaN /\ b # NaN /\ a < b
Plus(a, b)  == IF NaN \in {a, b} THEN NaN ELSE a + b
MinOf(a, b) == IF NaN \in {a, b} THEN NaN ELSE IF a < b THEN a ELSE b
MaxOf(a, b) == IF NaN \in {a, b} THEN NaN ELSE IF a < b THEN b ELSE a

\* selectionActive()
Active(v) == Lt(0, v.start) \/ Lt(v.end, Steps)

-----------------------------------------------------------------------------
(* Drawing.                                                                *)

NoKey == <<>>

\* Mutant of Key: the two cached curves share a key.
KeyOfScope(mode, s) == <<"util", s>>

\* The keys of utilCurve and rssBuckets: the first follows the scope, the second
\* cannot.  freqSvg keeps nothing.
Key(mode, s) == IF mode = "util" THEN <<"util", s>> ELSE <<"rss">>

Curve(mode, s) == <<mode, IF mode = "util" THEN s ELSE Everything>>

\* renderChart: the curve - out of the cache k if its key fits - the shade, the
\* borders, the scope line and the notes.
RenderChart(mode, v, k) ==
  LET fits  == mode # "freq" /\ k.key = Key(mode, v.scope)
      curve == IF fits THEN k.curve ELSE Curve(mode, v.scope)
  IN /\ chart' = [curve |-> curve, start |-> v.start, end |-> v.end]
     /\ cache' = IF mode = "freq" THEN k ELSE [key |-> Key(mode, v.scope), curve |-> curve]
     /\ line' = v /\ notes' = Active(v)

\* renderWaitBar: nothing to split, and the bar is left as it is.
WaitBar(v) == IF Lt(v.start, v.end) /\ v.scope \in Waited \cup {Everything} THEN v ELSE bar

\* renderFlame: a graph of its own, not zoomed - or, without user-space samples, none.
Flame(v) == [of |-> v, zoomed |-> FALSE]
NoFlame  == [zoomed |-> FALSE]

\* renderScoped: a pending redraw is called off, and the chart and every tab drawn.
RenderScoped(v, k) ==
  /\ refreshTimer' = FALSE
  /\ RenderChart(chartMode, v, k)
  /\ drawn' = v /\ bar' = WaitBar(v)
  /\ flame' \in {NoFlame, Flame(v)}

tabs == <<drawn, bar, flame>>

\* init(): the server has drawn the tabs and they stay; only the chart is drawn, and
\* renderFlame, which would take the server's graph over, is not reached.
Init ==
  /\ scope = Everything /\ grouped = FALSE /\ timeStart = 0 /\ timeEnd = Steps
  /\ drag = [mode |-> "none"] /\ refreshTimer = FALSE /\ chartMode = "util"
  /\ cache = [key |-> Key("util", Everything), curve |-> Curve("util", Everything)]
  /\ chart = [curve |-> Curve("util", Everything), start |-> 0, end |-> Steps]
  /\ line = Whole /\ notes = FALSE /\ drawn = Whole /\ bar = Whole /\ flame = NoFlame

-----------------------------------------------------------------------------
(* The selector, the buttons and the window's size.                        *)

\* setScopeTids(value) throws the cached curve away.
SetScope(s) ==
  /\ scope' = s
  /\ RenderScoped(View(s, timeStart, timeEnd), [cache EXCEPT !.key = NoKey])
  /\ UNCHANGED <<timeStart, timeEnd, drag, chartMode>>

SetThread(s) ==
  /\ s \in (IF grouped THEN Groups ELSE Threads) \cup {Everything}
  /\ SetScope(s) /\ UNCHANGED grouped

\* The other list, with every thread selected.
ToggleGrouped == grouped' = ~grouped /\ SetScope(Everything)

SetChartMode(mode) ==
  /\ chartMode' = mode /\ RenderChart(mode, Picked, cache)
  /\ UNCHANGED <<scope, grouped, timeStart, timeEnd, drag, refreshTimer, tabs>>

OnResize ==
  /\ RenderChart(chartMode, Picked, [cache EXCEPT !.key = NoKey])
  /\ UNCHANGED <<scope, grouped, timeStart, timeEnd, drag, refreshTimer, chartMode, tabs>>

\* Zooming needs a flameState; focusFrame and resetFlameZoom.
Zoom(in) ==
  /\ flame # NoFlame /\ flame' = [flame EXCEPT !.zoomed = in]
  /\ UNCHANGED <<scope, grouped, timeStart, timeEnd, drag, refreshTimer, chartMode, cache, chart,
                 line, notes, drawn, bar>>

-----------------------------------------------------------------------------
(* The mouse on the chart: initSelection and setSelection.                 *)

\* setSelection(x, y): in order, inside the run, and a step wide at least.
Selection(x, y) ==
  LET start == MaxOf(0, MinOf(Steps, MinOf(x, y))) IN
  <<start, MinOf(Steps, MaxOf(Plus(start, 1), MaxOf(x, y)))>>

\* Where the mouse at f takes the window <<a, b>>.  A pan is given a grab and a width,
\* and no anchor.
Dragged(d, f, a, b) ==
  CASE d.mode = "left"  -> Selection(MinOf(f, Plus(b, -1)), b)
    [] d.mode = "right" -> Selection(a, MaxOf(f, Plus(a, 1)))
    [] d.mode = "pan"   -> LET lo == MaxOf(0, MinOf(Steps - d.width, Plus(d.grab, Plus(f, NaN))))
                           IN Selection(lo, Plus(lo, d.width))
    [] d.mode = "new"   -> Selection(MinOf(d.anchor, f), MaxOf(d.anchor, f))

\* setSelection(.., live): the chart at once, the tabs when the timer says.
Live(w) ==
  /\ timeStart' = w[1] /\ timeEnd' = w[2]
  /\ RenderChart(chartMode, View(scope, w[1], w[2]), cache)
  /\ refreshTimer' = TRUE
  /\ UNCHANGED <<tabs, scope, grouped, chartMode>>

\* The borders are some pixels wide, and stay where they were when the window is NaN.
On(f, border) == IF border = NaN THEN TRUE ELSE f - border \in -1..1

\* A border, the inside of a selection, or anywhere else; and a first move.
Down(f) ==
  \E mode \in {"left", "right", "pan", "new"} :
    LET inside == Lt(timeStart, f) /\ Lt(f, timeEnd) /\ Active(Picked) IN
    /\ mode = "left"  => On(f, timeStart)
    /\ mode = "right" => On(f, timeEnd)
    /\ mode = "pan"   => inside
    /\ mode = "new"   => ~inside
    /\ drag' = CASE mode = "pan" -> [mode |-> mode, grab |-> f, width |-> timeEnd - timeStart]
                 [] mode = "new" -> [mode |-> mode, anchor |-> f]
                 [] OTHER -> [mode |-> mode]
    /\ Live(IF mode = "new" THEN Dragged(drag', f, f, f) ELSE Dragged(drag', f, timeStart, timeEnd))

Move(f) ==
  /\ drag.mode # "none" /\ Live(Dragged(drag, f, timeStart, timeEnd))
  /\ UNCHANGED drag

Up ==
  /\ drag.mode # "none" /\ drag' = [mode |-> "none"]
  /\ RenderScoped(Picked, cache)
  /\ UNCHANGED <<scope, grouped, timeStart, timeEnd, chartMode>>

\* The timer of scheduleRefresh.
Refresh ==
  /\ refreshTimer /\ RenderScoped(Picked, cache)
  /\ UNCHANGED <<scope, grouped, timeStart, timeEnd, drag, chartMode>>

\* resetSelection: the double click and the button.
Reset ==
  /\ timeStart' = 0 /\ timeEnd' = Steps
  /\ RenderScoped(View(scope, 0, Steps), cache)
  /\ UNCHANGED <<scope, grouped, drag, chartMode>>

Next ==
  \/ \E s \in Scopes : SetThread(s)
  \/ \E mode \in Modes : SetChartMode(mode)
  \/ \E f \in Time : Down(f) \/ Move(f)
  \/ \E in \in BOOLEAN : Zoom(in)
  \/ ToggleGrouped \/ OnResize \/ Up \/ Refresh \/ Reset

Spec == Init /\ [][Next]_vars

-----------------------------------------------------------------------------
(* Properties.                                                             *)

\* The page says what it shows: chart, borders, scope line and notes are of the scope
\* and window picked at every moment, the curve is the one the button asks for; the
\* tabs are of them too, but for a redraw pending while the mouse is down.  The bar of
\* waits is, where the window has waits to split, and a zoom is of the graph drawn.
\* However the mouse goes, the window lies in the run, in order and a step wide, unless
\* a pan has undone it or it was set at the run's very end.
ShownIsPicked ==
  /\ line = Picked /\ notes = Active(Picked)
  /\ chart = [curve |-> Curve(chartMode, scope), start |-> timeStart, end |-> timeEnd]
  /\ drawn = Picked \/ (refreshTimer /\ drag.mode # "none")
  /\ WaitBar(drawn) = drawn => bar = drawn
  /\ flame # NoFlame => flame.of = drawn
  /\ \/ timeStart = NaN /\ timeEnd = NaN
     \/ {timeStart, timeEnd} \subseteq Time /\ (timeStart < timeEnd \/ timeStart = Steps)

\* "inside the selection: move the whole window instead of starting a new one"
PanMovesTheWindow == drag.mode = "pan" => timeEnd # NaN /\ timeEnd - timeStart = drag.width
=============================================================================
