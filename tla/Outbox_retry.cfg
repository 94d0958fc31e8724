SPECIFICATION FairSpec
CONSTANTS
  p1 = p1
  qq = qq
  System = System
  NoRoute = NoRoute
  Posts = {p1}
  Routes = {System, qq}
  LeaseTicks = 1
  MaxAttempts = 2
  Backoff <- ShortBackoff
  Concurrency = 2
  MaxRetries = 1
  MaxRestarts = 1
INVARIANTS
  AtMostOncePerLicence
  SentMeansDelivered
  DeadLettersAreReported
  FirstTriesInOrder
  OneDeliveryPerRoute
PROPERTIES
  EveryRowSettles
  KeepsContract
CHECK_DEADLOCK FALSE
