SPECIFICATION FairSpec
CONSTANTS
  Tasks <- MCTasks
  Writers <- MCWriters
  Codex <- MCCodex
  MaxAttempts <- MCMaxAttempts
  Procs <- MCProcs
  Limit = 2
  MaxStops = 1
  MaxFaults = 1
INVARIANTS
  SoleWriter
PROPERTIES
  TasksEnd StopCompletes
CHECK_DEADLOCK FALSE
