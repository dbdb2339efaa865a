SPECIFICATION MCSpec
CONSTANTS
  Slots = {s1, s2}
  Chunks = 2
  MaxStops = 2
  Platforms = {"posix", "windows"}
  NoProc = NoProc
INVARIANTS
  StoppedIsReachable
  PauseInv
PROPERTIES
  FilePauseHolds
  FileRemovalReleases
  AbortEnds
