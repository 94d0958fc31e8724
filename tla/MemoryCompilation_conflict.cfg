SPECIFICATION FairSpec
CONSTANTS
  NJobs = 2
  Procs = {p1, p2}
  None = None
  MaxCrashes = 2
  MaxForgets = 1
PROPERTIES
  ConflictsAreMarked
CHECK_DEADLOCK FALSE
