-------------------------------- MODULE MCMacos ---------------------------------
EXTENDS Macos

Line(indent, sym, count) == [indent |-> indent, sym |-> sym, count |-> count]

\* A thread of two stacks with a common caller, after one of its own; two
\* threads of a stack each, after a frame that is in none.
MCDumps == {
  <<Line(0, "t1", 3), Line(1, "main", 3), Line(3, "f", 2), Line(3, "g", 1)>>,
  <<Line(1, "lost", 1), Line(0, "t1", 2), Line(1, "start", 2), Line(2, "main", 2),
    Line(0, "t2", 2), Line(1, "start", 2)>> }
================================================================================
