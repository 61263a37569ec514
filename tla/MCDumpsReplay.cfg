SPECIFICATION Spec
CONSTANTS
  Procs = {"script", "mem"}
  Rungs = 3
INVARIANTS ReplayIsTheReport
