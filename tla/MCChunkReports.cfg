SPECIFICATION Spec
CONSTANTS
  Chunks = {c1, c2}
  NoChunk = NoChunk
  Slots = {s1, s2}
  GuardOn = TRUE
  DiskFull = TRUE
  MaxEncodes = 3
  MaxRuns = 3
INVARIANTS
  LogTellsLatest
  SomeoneSaysDone
CHECK_DEADLOCK FALSE
