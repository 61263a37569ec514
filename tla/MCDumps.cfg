SPECIFICATION Spec
CONSTANTS
  Procs = {"script", "mem"}
  Rungs = 3
INVARIANTS OneWriter RetiredUnread ReportIsWhole LadderKeepsBest ReplayOfAClean
PROPERTIES DumpsEnd
