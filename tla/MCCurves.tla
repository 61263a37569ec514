------------------------------- MODULE MCCurves -------------------------------
\* Instance of Curves for TLC.
EXTENDS Curves

\* perf's clock with the samplers', ahead, behind, and past the cutoff either way.
MCOffsets == {-9, -2, 0, 2, 9}
=============================================================================
