SPECIFICATION ReportSpec
CONSTANTS
  Nothing = Nothing
  MaxFrames = 3
  Transient = {"perf-exec"}
  MaxDepth = 3
  MinValue = 1
  Period <- MCPeriod
  Headers <- MCHeaders
  Stacked <- MCStacked
  MaxLines = 5
INVARIANTS
  SamplesAreTheDump
  WindowIsServer
  ZoomIsTheTree
