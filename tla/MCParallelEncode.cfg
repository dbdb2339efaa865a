SPECIFICATION Spec
CONSTANTS
  Chunks = {c1, c2}
  First = c1
  GuardOn = TRUE
  InfraLimit = 2
  Sentinel = Sentinel
  NoChunk = NoChunk
  Slots = {s1, s2}
  NoProc = NoProc
  AutoFix = TRUE
  SizeGuard = TRUE
  ChokeGuard = TRUE
  EncodeRaises = TRUE
  FixRaises = TRUE
  RenameFails = FALSE
  StopTimesOut = FALSE
  FinishCancels = FALSE
SYMMETRY WorkerSymmetry
INVARIANTS
  BytesPreserved
  ExitMatchesCause
  SkipsAreDocumented
  EmptyReturnIsComplete
  ReturnedChunksAreJudged
  FailuresAreRetried
  EncodeInv
