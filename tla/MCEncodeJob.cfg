SPECIFICATION FairSpec
CONSTANTS
  N = 2
  MaxAttempts = 2
  MaxRuns = 2
  Jobs <- MCJobs
  ChunkLocked = FALSE
  ProbeHiccups = TRUE
INVARIANTS
  JobInv
  OkIsVerified
  ReportedOnce
  OkExitsZero
PROPERTIES
  OutputKept
  NothingUnjudged
  KeepsPromise
  RunEnds
CHECK_DEADLOCK FALSE
