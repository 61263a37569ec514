SPECIFICATION ReportSpec
CONSTANTS
  Nothing = Nothing
  MaxFrames = 3
  Transient = {"perf-exec"}
  MaxDepth = 3
  MinValue = 4
  Period <- MCPeriod
  Headers <- MCHeadersOne
  Stacked <- MCStackedUser
  MaxLines = 6
INVARIANTS
  CutRowsAreItsOwn NoTransientRoot
