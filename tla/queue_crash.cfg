SPECIFICATION Spec
CONSTANTS
  t1 = t1
  t2 = t2
  t3 = t3
  k1 = k1
  k2 = k2
  TaskId <- TwoTasks
  Key <- TwoKeys
  Reason <- Reasons
  NoReason <- None
  QueueMax = 1
  TasksMax = 1
  Retention = 0
  DeadRetention = 1
  StripThreshold = 1
  CompactMin = 3
  LivePct = 75
  MaxAttempts = 2
  MaxDelay = 1
  MaxClock = 1
  MaxCrashes = 2
  MaxPasses = 1
  MaxRevives = 0
  MaxIOErrors = 0
SYMMETRY FullSymmetry
INVARIANTS
  TypeOK
  JournalMirrorsMemory
  TargetKept
  ActiveBounded
  ReplayAgrees
  IdemInv
PROPERTIES
  FlushedSuccessFinal
CHECK_DEADLOCK FALSE
