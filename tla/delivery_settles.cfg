SPECIFICATION DFairSpec
CONSTANTS
  t1 = t1
  k1 = k1
  TaskId <- OneTask
  Key <- OneKey
  Reason <- Reasons
  NoReason <- None
  Result <- Results
  AttemptsOf <- TwoAttempts
  DeadlineOf <- TwoTicks
  MinDelay = 0
  QueueMax = 1
  TasksMax = 0
  Retention = 1
  DeadRetention = 1
  StripThreshold = 1
  CompactMin = 2
  LivePct = 75
  MaxAttempts = 3
  MaxDelay = 1
  MaxClock = 2
  MaxCrashes = 1
  MaxPasses = 1
  MaxRevives = 0
  MaxIOErrors = 1
PROPERTIES
  AcceptedSettles
CHECK_DEADLOCK FALSE
