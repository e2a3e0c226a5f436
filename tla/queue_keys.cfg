SPECIFICATION Spec
CONSTANTS
  t1 = t1
  t2 = t2
  t3 = t3
  k1 = k1
  k2 = k2
  TaskId <- ThreeTasks
  Key <- OneKey
  Reason <- Reasons
  NoReason <- None
  QueueMax = 2
  TasksMax = 0
  Retention = 0
  DeadRetention = 0
  StripThreshold = 0
  CompactMin = 5
  LivePct = 100
  MaxAttempts = 1
  MaxDelay = 0
  MaxClock = 2
  MaxCrashes = 2
  MaxPasses = 2
  MaxRevives = 1
  MaxIOErrors = 0
SYMMETRY FullSymmetry
INVARIANTS
  OneTaskPerKey
  KeyIndexExact
CHECK_DEADLOCK FALSE
