SPECIFICATION Spec
CONSTANTS
  Workers = {w1}
  NoWorker = none
  Calls = {c1}
  Budget = 2
  EventKeyed = FALSE
  MaxRuns = 3
  MaxLosses = 1
  MaxFaults = 0
  MaxStalls = 0
  MaxOwnerSteps = 0
  MaxAges = 0
CHECK_DEADLOCK FALSE
INVARIANT NoEffectTwice
