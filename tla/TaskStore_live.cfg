SPECIFICATION FairSpec
CONSTANTS
  t1 = t1
  t2 = t2
  o1 = o1
  o2 = o2
  x1 = x1
  s1 = s1
  s2 = s2
  NoOwner = NoOwner
  NoTask = NoTask
  Tasks = {t1, t2}
  Owners = {o1, o2}
  Executors = {x1}
  ExecutorOf <- OneExecutor
  Priority <- EvenPriority
  Sessions = {s1}
  SessionOf <- HomeSession
  Routed = {t1, t2}
  ReviewOf <- Reviewed
  LeaseTicks = 2
  MaxAttempts = 1
  RetryLimits = {3}
  Backoff <- ShortBackoff
  RetryAfters = {0}
  MaxGrants = 1
INVARIANTS
  ReviewReplacesNotice
CHECK_DEADLOCK FALSE
PROPERTIES
  ControlIsHonoured
  DeadOwnersLoseTasks
