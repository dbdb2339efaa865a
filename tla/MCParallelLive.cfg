SPECIFICATION FairSpec
CONSTANTS
  Chunks = {c1, c2}
  First = c1
  GuardOn = TRUE
  InfraLimit = 2
  Sentinel = Sentinel
  NoChunk = NoChunk
  Slots = {s1, s2}
  NoProc = NoProc
  AutoFix = FALSE
  SizeGuard = TRUE
  ChokeGuard = FALSE
  EncodeRaises = TRUE
  FixRaises = FALSE
  RenameFails = TRUE
  StopTimesOut = TRUE
  FinishCancels = TRUE
INVARIANTS
  AbortReachesEncoders
  SupervisedEncoders
PROPERTIES
  AbortEnds
