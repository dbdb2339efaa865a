SPECIFICATION FairSpec
CONSTANTS
  a = a
  b = b
  NoSource = NoSource
  Broken = Broken
  Sources <- MCSources
  NameOf <- MCNameOf
  WithDone <- MCWithDone
  Queues <- MCQueues
  Options <- MCOptions
  Codes <- MCCodes
  MaxRuns = 3
  MaxEdits = 1
  StateUnreadable = FALSE
  LegacyLocked = FALSE
  Absent = Absent
INVARIANTS
  QueueInv
  RecordsTellTruth
  InspectorAgrees
  BooksAgree
PROPERTIES
  RecordedStaysDone
  RunEnds
CHECK_DEADLOCK FALSE
