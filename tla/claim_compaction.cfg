SPECIFICATION Spec
CONSTANTS
  t1 = t1
  t2 = t2
  t3 = t3
  k1 = k1
  k2 = k2
  TaskId <- TwoTasks
  Key <- TwoKeys
  Reason <- Reasons
  NoReason <- None
  QueueMax = 2
  TasksMax = 0
  Retention = 1
  DeadRetention = 1
  StripThreshold = 1
  CompactMin = 4
  LivePct = 50
  MaxAttempts = 2
  MaxDelay = 0
  MaxClock = 0
  MaxCrashes = 0
  MaxPasses = 1
  MaxRevives = 0
  MaxIOErrors = 0
SYMMETRY FullSymmetry
INVARIANTS
  AcceptedIsDurable
CHECK_DEADLOCK FALSE
