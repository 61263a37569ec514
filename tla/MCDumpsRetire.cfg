SPECIFICATION Spec
CONSTANTS
  Procs = {"script", "mem"}
  Rungs = 3
PROPERTIES EarlierRecordingKept
