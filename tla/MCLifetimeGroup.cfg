SPECIFICATION FairSpec
CONSTANTS
  Workers = {w1, w2}
  MaxPids = 2
  HardKill = TRUE
  Signals = TRUE
INVARIANTS
  LifetimeInv
  SecuredAreReaped
PROPERTIES
  WatchdogLeaves
CHECK_DEADLOCK FALSE
