SPECIFICATION Spec
CONSTANTS
  Chunks = {c1, c2}
  Crf0 = 1
  CrfStep = 1
  CrfMax = 3
  MaxRuns = 2
  Kills = FALSE
  UserStops = TRUE
  Fails = FALSE
  FlushFails = FALSE
  MoveFails = FALSE
  SaveFails = FALSE
INVARIANTS
  OutputIsUniform
