SPECIFICATION ProcSpec
CONSTANT Procs = {stat, record}
INVARIANTS NoCleanEscalation JoinNeverLeaks
PROPERTIES HandleReturns
