SPECIFICATION FairSpec
CONSTANTS
  Tasks <- MCTasks
  Homes <- MCHomes
  Priority <- MCPriority
  Owned <- MCOwned
  Urgent = 2
  Limit = 2
  MaxAttempts = 2
  Known <- MCKnown
  Turns <- MCTurns
  MaxClaims = 2
  MaxFaults = 1
INVARIANTS
  SessionHasOneRun OneVictimEach
PROPERTIES
  ToolsNotCut StopDrains
CHECK_DEADLOCK FALSE
