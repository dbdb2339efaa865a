SPECIFICATION FairSpec
CONSTANTS
  Chunks = {c1, c2}
  Crf0 = 1
  CrfStep = 2
  CrfMax = 4
  MaxRuns = 3
  Kills = TRUE
  UserStops = TRUE
  Fails = TRUE
  FlushFails = TRUE
  MoveFails = TRUE
  SaveFails = TRUE
INVARIANTS
  CrfInv
  ResumedOutputIsUniform
  NoReplay
  OverCapOnlyByResume
  EncodedKept
PROPERTIES
  EscalationEnds
