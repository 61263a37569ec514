SPECIFICATION Spec
CONSTANTS
  Pair = 1
  Lags = {0, 1}
  Skews = {0, 1}
  States = {"S", "D"}
  MaxTime = 5
  MaxEvents = 4
  MaxFaults = 1
INVARIANT OnCpuIsNeverWait
