--------------------------------- MODULE Memory ---------------------------------
(***************************************************************************)
(* Memory access (IBS / PEBS).  vperf/memory.py: parse_mem_report folds    *)
(* the rows of `perf mem report` into the profile the server renders.      *)
(* vperf/report_html.py: _memory_rows_payload ships the rows once more,    *)
(* per --time-quantum slice, and the script (_JS) adds them up again for   *)
(* the threads and the window the reader picks.                            *)
(*                                                                         *)
(* A profile is a counter per thing it counts.  The dTLB outcome and the   *)
(* module of a row are folded as its symbol is, and left out.  Time runs   *)
(* in units of the sample clock.                                           *)
(***************************************************************************)
EXTENDS Integers, Sequences, FiniteSets, FiniteSetsExt, Functions

CONSTANTS Rows,        \* bound: the rows a report may hold
          MaxRows,     \* bound: how many of them
          MaxSections, \* bound: its event sections
          Tids,        \* threads; the group is all of them
          Nothing,     \* None
          T0, T1,      \* the first and the last CPU sample: T0, T0+TSPAN
          Share,       \* the hundredth of the run a single slice is given
          RowCap,      \* _MEM_ROW_CAP
          Slow,        \* the latency that divides two LATENCY_BANDS
          Whole        \* what the page counts a slice as that lies in the window

\* The page works with fractions; here a slice counts in parts of Whole, which divides
\* into as many as a clipped slice is wide.
ASSUME MemoryConstants ==
  /\ T0 \in Nat /\ T1 \in Nat /\ T0 < T1 /\ Share \in Nat \ {0} /\ RowCap \in Nat \ {0}
  /\ Whole \in Nat \ {0} /\ \A w \in 1..(T1 - T0) : (Whole \div w) * w = Whole
  /\ Nothing \notin Tids
  /\ \A r \in Rows : /\ r.tid \in Tids \cup {Nothing} /\ r.slice \in Int
                     /\ r.weight \in Nat /\ r.samples \in Nat

VARIABLES
  section, \* the section being read: its event is one asked for, its weights are
           \* averages, it has a Period column - or Nothing, before the first header
  rows, sections, \* how many have been read
  timed,   \* the report was sorted by time
  prof,    \* MemoryProfile: the counters of every row
  by_tid,  \* ... and of each thread's
  detail,  \* the same rows by slice, thread, level, band and symbol
  page     \* the report is read to its end and the page made

memVars == <<section, rows, sections, timed, prof, by_tid, detail, page>>

Empty        == [x \in {} |-> 0]
Put(f, k, v) == [j \in DOMAIN f \cup {k} |-> IF j = k THEN v ELSE f[j]]
At(f, k)     == IF k \in DOMAIN f THEN f[k] ELSE 0
Add(f, g)    == [k \in DOMAIN f \cup DOMAIN g |-> At(f, k) + At(g, k)]

\* The counters of g added up.
Gathered(g) == FoldSet(LAMBDA k, sum : Add(g[k], sum), Empty, DOMAIN g)

\* Of counters equal to zero no more is known than of absent ones.
Same(f, g)   == \A k \in DOMAIN f \cup DOMAIN g : At(f, k) = At(g, k)

-----------------------------------------------------------------------------
(* parse_mem_report.                                                       *)

Unclassified == "unclassified"

\* _classify_access
Level(access) == CASE access = "N/A"           -> Unclassified
                   [] access \in {"L1", "LFB"} -> "L1"
                   [] access \in {"RAM", "IO"} -> "DRAM"
                   [] OTHER                    -> access

\* What n samples of a row that cost w cycles add to a profile.
Counts(level, band, sym, n, w) ==
  LET accesses == {<<"total">>, <<"samples", sym>>} \cup (IF level = "DRAM" THEN {<<"dram", sym>>} ELSE {})
      classified == IF level = Unclassified THEN {}
                    ELSE {<<"classified">>, <<"level", level>>, <<"band", band>>}
      cycles == IF level = Unclassified THEN {}
                ELSE {<<"weight">>, <<"stall", level>>, <<"weight", sym>>}
  IN [k \in accesses \cup classified \cup cycles |-> IF k \in cycles THEN w ELSE n]

\* The cycles of all samples of a row.
Stall(r, average) == IF Level(r.access) = Unclassified THEN 0
                     ELSE IF average THEN r.weight * r.samples ELSE r.weight

\* The band of a row's mean latency.
Band(r, average) == IF Level(r.access) = Unclassified THEN Nothing
                    ELSE IF (IF average THEN r.weight >= Slow ELSE r.weight >= Slow * r.samples)
                         THEN "slow" ELSE "fast"

\* _add_row
AddRow(p, r, average) ==
  Add(p, Counts(Level(r.access), Band(r, average), r.sym, r.samples, Stall(r, average)))

Key(r, average) == <<r.slice, r.tid, Level(r.access), Band(r, average), r.sym>>

\* Mutant of Detail: a row of a slice replaces the one already there.
DetailOfLast(d, r, average) == Put(d, Key(r, average), <<r.samples, Stall(r, average)>>)

Detail(d, r, average) ==
  LET k == Key(r, average)
      old == IF k \in DOMAIN d THEN d[k] ELSE <<0, 0>>
  IN Put(d, k, <<old[1] + r.samples, old[2] + Stall(r, average)>>)

MemInit ==
  /\ section = Nothing /\ rows = 0 /\ sections = 0 /\ timed \in BOOLEAN
  /\ prof = Empty /\ by_tid = [t \in {} |-> Empty] /\ detail = [k \in {} |-> <<0, 0>>]
  /\ page = FALSE

\* The samples line of an event and the header under it.
Header ==
  /\ ~page /\ sections < MaxSections /\ sections' = sections + 1
  /\ section' \in [allowed : BOOLEAN, average : BOOLEAN, period : BOOLEAN]
  /\ UNCHANGED <<rows, timed, prof, by_tid, detail, page>>

\* A row of a section that is wanted.  The Period of a row is a sum whatever its header.
Row(r) ==
  /\ ~page /\ section # Nothing /\ rows < MaxRows /\ rows' = rows + 1
  /\ IF section.allowed /\ r.samples > 0
     THEN LET average == section.average /\ ~section.period IN
          /\ prof' = AddRow(prof, r, average)
          /\ by_tid' = IF r.tid = Nothing THEN by_tid
                       ELSE Put(by_tid, r.tid,
                                AddRow(IF r.tid \in DOMAIN by_tid THEN by_tid[r.tid] ELSE Empty, r, average))
          /\ detail' = IF timed THEN Detail(detail, r, average) ELSE detail
     ELSE UNCHANGED <<prof, by_tid, detail>>
  /\ UNCHANGED <<section, sections, timed, page>>

End == ~page /\ page' = TRUE /\ UNCHANGED <<section, rows, sections, timed, prof, by_tid, detail>>

-----------------------------------------------------------------------------
(* _memory_rows_payload and _memory_html_map.                              *)

\* The heaviest rows, RowCap of them.
Kept == LET Heavier(k) == {j \in DOMAIN detail : detail[j][2] > detail[k][2]} IN
        IF Cardinality(DOMAIN detail) <= RowCap THEN DOMAIN detail
        ELSE CHOOSE K \in kSubset(RowCap, DOMAIN detail) : \A k \in K : Heavier(k) \subseteq K

Slices == {k[1] : k \in DOMAIN detail}

\* _slice_width: the smallest gap between two slices, 0 without two.
SliceWidth == LET gaps == {p[2] - p[1] : p \in {q \in Slices \X Slices : q[1] < q[2]}} IN
              IF gaps = {} THEN 0 ELSE Min(gaps)

\* _merge_memory_profiles
Merged(S) == Gathered([t \in S |-> by_tid[t]])

Everyone == Tids \cup {Nothing}     \* scopeSet === null
Scopes   == {{t} : t \in Tids} \cup {Tids, Everyone}

\* MEMORY_HTML[scopeKey]; a scope without an entry is told it has no samples.
MemoryHtml(scope) == IF scope = Everyone THEN prof ELSE Merged(scope \cap DOMAIN by_tid)

-----------------------------------------------------------------------------
(* The script.                                                             *)

\* memSliceRange: the slice cut to the samples' window.
SliceRange(s) ==
  LET q == IF SliceWidth > 0 THEN SliceWidth ELSE Max({(T1 - T0) \div Share, 1}) IN
  <<Max({s, T0}), Min({s + q, T1})>>

\* memOverlap, in parts of Whole.
Overlap(r, lo, hi) ==
  IF r[2] <= r[1] \/ r[2] <= lo \/ r[1] >= hi THEN 0
  ELSE (Whole \div (r[2] - r[1])) * (Min({r[2], hi}) - Max({r[1], lo}))

\* What the row k adds to the numbers of a window.
Part(k, lo, hi) == LET f == Overlap(SliceRange(k[1]), lo, hi) IN
                   Counts(k[3], k[4], k[5], detail[k][1] * f, detail[k][2] * f)

\* memAggregate
MemAggregate(scope, lo, hi) == Gathered([k \in {j \in Kept : j[2] \in scope} |-> Part(k, lo, hi)])

InParts(f) == [k \in DOMAIN f |-> Whole * f[k]]

\* renderMemory: the tab's numbers, in parts of Whole.  Without slices it shows what the
\* server rendered, whatever the window.
RenderMemory(scope, lo, hi) ==
  IF Kept = {} THEN InParts(MemoryHtml(scope)) ELSE MemAggregate(scope, lo, hi)

\* renderMemChart: what a slice stacks for a level, in accesses or in cycles; the
\* window only shades it.
MemChart(scope, mode) ==
  [x \in Slices \X {"DRAM", "L3", "L2", "L1", "other"} |->
     SumFunctionOnSet([k \in DOMAIN detail |-> detail[k][IF mode = "latency" THEN 2 ELSE 1]],
                      {k \in Kept : k[1] = x[1] /\ k[3] = x[2] /\ k[2] \in scope})]

MemNext == Header \/ (\E r \in Rows : Row(r)) \/ End

MemSpec == MemInit /\ [][MemNext]_memVars

-----------------------------------------------------------------------------
(* Properties.                                                             *)

\* The rows are all there, their quantum is known and none of their slices lies
\* outside the CPU samples' window.
Placed == /\ Kept = DOMAIN detail /\ SliceWidth > 0
          /\ \A s \in Slices : s < T1 /\ s + SliceWidth > T0

\* The chart's slices add up to the level's accesses, or its stall cycles.
ChartAddsUp(scope) ==
  \A level \in {"DRAM", "L1"}, mode \in {"count", "latency"} :
    SumFunctionOnSet([s \in Slices |-> MemChart(scope, mode)[<<s, level>>]], Slices)
      = At(MemoryHtml(scope), <<IF mode = "count" THEN "level" ELSE "stall", level>>)

\* "Adding up the rows of a time selection reproduces the server-side numbers": for
\* every thread, the group of all and the run as a whole, what the Memory tab counts
\* over the whole window is what the server counted reading the report once, the chart
\* stacks no other accesses and cycles, and two windows that meet count what they
\* count as one.  Rows of several sections, of several latencies of one level and
\* without a thread all have to be told apart for it.
TabIsTheReport ==
  page => \A scope \in Scopes :
    /\ Slices = {} \/ Placed => Same(RenderMemory(scope, T0, T1), InParts(MemoryHtml(scope)))
    /\ Kept = DOMAIN detail /\ Slices # {} => ChartAddsUp(scope)
    /\ Slices # {} => \A lo, mid, hi \in T0..T1 : lo < mid /\ mid < hi =>
         Same(Add(RenderMemory(scope, lo, mid), RenderMemory(scope, mid, hi)), RenderMemory(scope, lo, hi))

\* ... and a report of a single slice, whose quantum the page does not know.
OneSliceIsTheReport ==
  page /\ Cardinality(Slices) = 1 /\ Kept = DOMAIN detail /\ Slices \subseteq 0..(T1 - 1) =>
    Same(RenderMemory(Everyone, T0, T1), InParts(prof))

\* "An empty slice in between is never mistaken for part of a neighbour": a window in
\* which no slice of the quantum Width holds samples shows none.
EmptySliceIsEmpty(Width) ==
  page /\ Slices # {} =>
    \A lo, hi \in T0..T1 :
      lo < hi /\ (\A s \in Slices : s >= hi \/ s + Width <= lo)
        => Same(RenderMemory(Everyone, lo, hi), Empty)
================================================================================
