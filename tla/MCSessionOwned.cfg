SPECIFICATION Spec
CONSTANTS
  Procs = {"stat", "record"}
  MaxInterrupts = 2
  OptionSets = {{}, {"dwarf"}, {"interval", "memory", "dwarf"}}
INVARIANT InterruptKillsOwnedTarget
