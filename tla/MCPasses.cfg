SPECIFICATION Spec
INVARIANTS LadderDescends MetaIsTheDirectory OneRecording
