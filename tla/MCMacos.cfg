CONSTANTS
  Dumps <- MCDumps
  Window = 2
  Nothing = Nothing
  Durations = {Nothing, 3}
  MaxClock = 4
  MaxReadings = 3
SPECIFICATION MacSpec
INVARIANTS CpuAddsUp TargetIsEnded ScriptIsTheDumps
CHECK_DEADLOCK FALSE
