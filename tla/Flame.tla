--------------------------------- MODULE Flame ---------------------------------
(***************************************************************************)
(* The flame graph: vperf/flamegraph.py, render_flame_svg, and its twin in *)
(* the report's script, flameSvg, with the zoom a click asks for           *)
(* (flameParent, flameRender).                                             *)
(*                                                                         *)
(* A frame is the path that leads to it, the root <<>>.  A width is the     *)
(* cycles it stands for; MinValue of them are MIN_FRAME_W pixels.          *)
(***************************************************************************)
EXTENDS Integers, Sequences, FiniteSets, SequencesExt, FiniteSetsExt, Functions

CONSTANTS MaxDepth,   \* MAX_FLAME_DEPTH
          MinValue    \* FL_MINW, in cycles

ASSUME FlameConstants == MaxDepth \in Nat /\ MinValue \in Nat

\* build_tree, flameInsert: every prefix of a folded key has the keys' weight.
Paths(fold)    == UNION {{SubSeq(k, 1, d) : d \in 0..Len(k)} : k \in DOMAIN fold}
Under(fold, p) == {k \in DOMAIN fold : IsPrefix(p, k)}
Value(fold, p) == SumFunctionOnSet(fold, Under(fold, p))
Kids(fold, p)  == {q \in Paths(fold) : Len(q) = Len(p) + 1 /\ IsPrefix(p, q)}

\* The children by weight, and equal ones in some order.
Order(paths) == LET seq == SetToSeq(paths) IN [p \in paths |-> CHOOSE i \in DOMAIN seq : seq[i] = p]
Before(value, order, q, p) == value[q] < value[p] \/ (value[q] = value[p] /\ order[q] < order[p])

\* How much of a frame's parent is taken by the children before it.
Lighter(fold, value, order) ==
  [p \in Paths(fold) \ {<<>>} |->
     SumFunctionOnSet(value, {q \in Kids(fold, Front(p)) : Before(value, order, q, p)})]

\* Mutant of Offset: every row is laid out from the left.
OffsetOfRow(lighter, x) == lighter

\* cx: where a child starts, its parent starting at x and its lighter siblings before it.
Offset(lighter, x) == x + lighter

\* x0 of every frame, down to the depth cap.
Start(paths, lighter) ==
  LET start[p \in {p \in paths : Len(p) < MaxDepth}] ==
        IF p = <<>> THEN 0 ELSE Offset(lighter[p], start[Front(p)])
  IN start

\* What is laid out, and the last row with a frame wide enough to read, where the
\* picture ends.
Graph(fold) ==
  LET value == [p \in Paths(fold) |-> Value(fold, p)]
      start == Start(Paths(fold), Lighter(fold, value, Order(Paths(fold))))
  IN [value |-> value, start |-> start,
      last  |-> Max({0} \cup {Len(p) : p \in {p \in DOMAIN start : value[p] > MinValue}})]

Frames(g) == {p \in DOMAIN g.start : Len(p) <= g.last}

\* _rows_below: the rows the cap takes from under p.
RowsBelow(g, p) ==
  Max({0, Max({Len(q) : q \in {q \in DOMAIN g.value : IsPrefix(p, q)}}) - (MaxDepth - 1)})

\* starts: the last row as it was laid out, the heaviest child first and so from the
\* right; and the frame a binary search in it finds for a cut one at x.
Starts(g) ==
  SetToSortSeq({p \in Frames(g) : Len(p) = g.last}, LAMBDA p, q : g.start[p] > g.start[q])
Owner(g, x) ==
  LET starts == Starts(g)  n == Len(starts)
      find[lo \in 0..n, hi \in 0..n] ==
        IF lo >= hi THEN lo
        ELSE LET mid == (lo + hi) \div 2 IN
             IF x < g.start[starts[mid + 1]] THEN find[lo, mid] ELSE find[mid + 1, hi]
  IN find[0, n]

\* folded: how many rows the tooltip of p says it stands for.
Folded(g, p) ==
  LET starts == Starts(g)
      cut    == {q \in DOMAIN g.start : Len(q) > g.last}
  IN RowsBelow(g, p)
     + Cardinality({q \in cut : Owner(g, g.start[q]) > 0 /\ starts[Owner(g, g.start[q])] = p})

-----------------------------------------------------------------------------
(* Click to zoom.                                                          *)

Covers(g, p, q) ==
  g.start[p] <= g.start[q] /\ g.start[q] + g.value[q] <= g.start[p] + g.value[p]

\* flameParent: the deepest of the rows above that spans the frame.
FlameParent(g, p) ==
  LET above == {q \in Frames(g) : Len(q) < Len(p) /\ Covers(g, q, p)}
  IN CHOOSE q \in above : \A r \in above : Len(r) <= Len(q)

\* flameRender: what a focus shows, itself and the rows below; and the call path in grey.
Shown(g, f)  == {q \in Frames(g) : q = f \/ (Len(q) > Len(f) /\ Covers(g, f, q))}
Greyed(g, f) == {q \in Frames(g) : Len(q) < Len(f) /\ Covers(g, q, f)}

-----------------------------------------------------------------------------
(* Properties.                                                             *)

\* A zoom of the graph shows the subtree of its focus, in grey the path to it, and a
\* second click leads to the caller; the frames of one row lie beside each other.
ZoomIsOfTheTree(g) ==
  \A f \in Frames(g) :
    /\ Shown(g, f) = {q \in Frames(g) : IsPrefix(f, q)}
    /\ Greyed(g, f) = {q \in Frames(g) : IsPrefix(q, f)} \ {f}
    /\ f # <<>> => FlameParent(g, f) = Front(f)
    /\ \A q \in Frames(g) : Len(q) = Len(f) /\ q # f =>
         \/ g.start[q] + g.value[q] <= g.start[f]
         \/ g.start[f] + g.value[f] <= g.start[q]
=============================================================================
