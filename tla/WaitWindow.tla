----------------------------- MODULE WaitWindow -----------------------------
(***************************************************************************)
(* ThreadWait.fold(lo, hi): what a report's window sees of one thread's    *)
(* ledger, read back off its slices.  Seconds are exact here: the share of *)
(* the skew a window takes is a fraction of the span, so the CPU of a      *)
(* window is given in units of one tick over Scale.                        *)
(***************************************************************************)
EXTENDS WaitLedger, Functions

Larger(a, b)  == IF a >= b THEN a ELSE b
Smaller(a, b) == IF a <= b THEN a ELSE b

Scale == IF span > 0 THEN span ELSE 1

\* The window holds some of the thread's span.
Holds(lo, hi) == first_ts # NoTime /\ last_ts > lo /\ first_ts < hi

Covered(lo, hi) == Smaller(last_ts, hi) - Larger(first_ts, lo)

Overlap(slice, lo, hi) == Larger(0, Smaller(slice.end, hi) - Larger(slice.start, lo))

Overlaps(lo, hi) == [k \in DOMAIN slices |-> Overlap(slices[k], lo, hi)]

\* The slices of one state.
Of(w) == {k \in DOMAIN slices : slices[k].state = w}

\* The waits of one state inside the window.
FoldWait(w, lo, hi) == IF Holds(lo, hi) THEN SumFunctionOnSet(Overlaps(lo, hi), Of(w)) ELSE 0

\* All of them, the stopped ones included.
FoldWaits(lo, hi) == SumFunctionOnSet(Overlaps(lo, hi), DOMAIN slices)

\* Mutant of FoldLead: the lead needs a window that opens earlier than the span.
FoldLeadStrict(lo) == IF lo < first_ts THEN lead ELSE 0

\* The first point's CPU came just before the span: to a window that opens at or
\* before it.
FoldLead(lo) == IF lo <= first_ts THEN lead ELSE 0
FoldSkew(lo, hi) == IF span > 0 THEN skew * Covered(lo, hi) ELSE 0

\* The CPU of the window, times Scale: what its waits leave of it, and its part
\* of the lead and the skew.
FoldOn(lo, hi) ==
  IF Holds(lo, hi)
  THEN Scale * (Covered(lo, hi) - FoldWaits(lo, hi) + FoldLead(lo))
       + FoldSkew(lo, hi)
  ELSE 0

-----------------------------------------------------------------------------
Moments == 0..MaxTime

\* A window one tick longer sees one tick more, the CPU and every wait: nothing
\* at a seam is dropped or counted twice, so windows side by side add up to the
\* window over them all and the reader may slide one and compare.  The window over
\* the whole run shows the server's own totals, for a thread with any span: its
\* browser half and its server half are the same numbers.
WindowsAdd ==
  phase = "done" /\ span > 0 =>
    /\ \A lo, mid \in Moments : lo < mid =>
         /\ FoldOn(lo, mid + 1) = FoldOn(lo, mid) + FoldOn(mid, mid + 1)
         /\ \A w \in States : FoldWait(w, lo, mid + 1)
                                 = FoldWait(w, lo, mid) + FoldWait(w, mid, mid + 1)
    /\ FoldOn(first_ts, last_ts) = Scale * runtime
    /\ \A w \in Waits : FoldWait(w, first_ts, last_ts) = waits[w]
=============================================================================
