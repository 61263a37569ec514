SPECIFICATION Spec
CONSTANTS
  Procs = {"stat", "record"}
  MaxInterrupts = 2
  OptionSets = {{}, {"dwarf"}, {"interval", "memory", "dwarf"}}
INVARIANTS NoOrphanCollector TargetRestored OwnedTargetReaped NoLiveRelaunch RecordMatchesPlan KilledUnmeasured
PROPERTIES OthersFreezeKept RecordingKept PromiseKept SessionEnds
