SPECIFICATION Spec
CONSTANTS
  Chunks = {c1, c2}
  First = c1
  GuardOn = FALSE
  InfraLimit = 2
  Sentinel = Sentinel
  NoChunk = NoChunk
  Slots = {s1, s2}
  NoProc = NoProc
  AutoFix = FALSE
  SizeGuard = FALSE
  ChokeGuard = FALSE
  EncodeRaises = FALSE
  FixRaises = FALSE
  RenameFails = TRUE
  StopTimesOut = FALSE
  FinishCancels = FALSE
SYMMETRY WorkerSymmetry
INVARIANTS
  BytesPreserved
