-------------------------------- MODULE MCMemory --------------------------------
EXTENDS Memory

CONSTANTS t1, t2

MCTids == {t1, t2}

\* Slices of two units; the window of the CPU samples starts in the first and ends in
\* the third, and the fourth lies after it.
MCRows ==
  {[tid |-> t, slice |-> s, access |-> a[1], weight |-> a[2], samples |-> 2, sym |-> "f"] :
     t \in {t1, Nothing}, s \in {0, 4}, a \in {<<"RAM", 2>>, <<"RAM", 6>>}}
  \cup
  {[tid |-> t2, slice |-> s, access |-> a, weight |-> 2, samples |-> n, sym |-> "g"] :
     s \in {2, 6}, a \in {"L1", "N/A"}, n \in {0, 1}}

\* The quantum of MCRows.
EmptySlicesAreEmpty == EmptySliceIsEmpty(2)
================================================================================
