SPECIFICATION Spec
CONSTANTS
  N = 1
  MaxAttempts = 2
  MaxRuns = 1
  Jobs <- MCJobs
  ChunkLocked = TRUE
  ProbeHiccups = FALSE
PROPERTIES
  EncodesSurvive
CHECK_DEADLOCK FALSE
