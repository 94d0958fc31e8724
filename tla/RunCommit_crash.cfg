SPECIFICATION Spec
CONSTANTS
  Workers = {w1, w2}
  NoWorker = none
  Calls = {c1}
  Budget = 2
  EventKeyed = FALSE
  MaxRuns = 3
  MaxLosses = 1
  MaxFaults = 0
  MaxStalls = 1
  MaxOwnerSteps = 1
  MaxAges = 1
SYMMETRY Interchangeable
INVARIANTS
  
  AnswerFromReceipt
  OneRunPerSession
PROPERTIES
  AppliedAfterSession
CHECK_DEADLOCK FALSE
