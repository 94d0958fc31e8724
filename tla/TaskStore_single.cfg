SPECIFICATION Spec
CONSTANTS
  t1 = t1
  t2 = t2
  o1 = o1
  o2 = o2
  x1 = x1
  s1 = s1
  s2 = s2
  NoOwner = NoOwner
  NoTask = NoTask
  Tasks = {t1}
  Owners = {o1, o2}
  Executors = {x1}
  ExecutorOf <- OneExecutor
  Priority <- EvenPriority
  Sessions = {s1, s2}
  SessionOf <- HomeSession
  Routed = {t1}
  ReviewOf <- Unreviewed
  LeaseTicks = 2
  MaxAttempts = 2
  RetryLimits = {1, 3}
  Backoff <- ShortBackoff
  RetryAfters = {0, 2}
  MaxGrants = 2
SYMMETRY OwnerSymmetry
INVARIANTS
  RunsBelongToLease
  AttemptBudget
  OneNoticePerAttempt
  NoticesTellTheTruth
PROPERTIES
  FinalIsForever
  CancelWins
  PastAttemptsFrozen
CHECK_DEADLOCK FALSE
