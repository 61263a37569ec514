SPECIFICATION CycleSpec
CONSTANTS
  Runs = 3
  Warmup = 1
  Cores = 2
  JobChoices = {1, 2, 3}
  MaxInterrupts = 2
INVARIANTS TableIsTheRuns NothingRunsOn SharedOnlyByOvertaking
PROPERTY CycleEnds
