SPECIFICATION FairSpec
CONSTANTS
  Workers = {w1}
  NoWorker = none
  Calls = {c1}
  Budget = 2
  EventKeyed = TRUE
  MaxRuns = 3
  MaxLosses = 1
  MaxFaults = 1
  MaxStalls = 0
  MaxOwnerSteps = 1
  MaxAges = 0
CHECK_DEADLOCK FALSE
PROPERTIES
  Settles
  NoRerunAfterReceipt
  UnknownEffectsFenced
