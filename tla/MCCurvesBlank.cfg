SPECIFICATION CurvesSpec
CHECK_DEADLOCK FALSE
CONSTANTS
  Ticks = 3
  Offsets <- MCOffsets
  MaxClockBias = 5
  FirstSampleSlack = 1
  NBuckets = 3
  None = None
INVARIANTS
  BlankWhereUnmeasured
