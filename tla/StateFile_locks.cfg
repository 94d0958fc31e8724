SPECIFICATION FairSpec
CONSTANTS
  Procs = {p1, p2, p3}
  NoFile = NoFile
  MaxUpdates = 3
  MaxCrashes = 2
  MaxStalls = 0
  MaxCorruptions = 1
INVARIANTS
  ExclusiveUpdates
PROPERTIES
  NoLostUpdate DeadLocksGo
CHECK_DEADLOCK FALSE
