SPECIFICATION DSpec
CONSTANTS
  t1 = t1
  k1 = k1
  TaskId <- OneTask
  Key <- OneKey
  Reason <- Reasons
  NoReason <- None
  Result <- Results
  AttemptsOf <- TwoAttempts
  DeadlineOf <- OneTick
  MinDelay = 0
  QueueMax = 1
  TasksMax = 0
  Retention = 0
  DeadRetention = 0
  StripThreshold = 1
  CompactMin = 2
  LivePct = 75
  MaxAttempts = 3
  MaxDelay = 1
  MaxClock = 1
  MaxCrashes = 1
  MaxPasses = 1
  MaxRevives = 1
  MaxIOErrors = 0
INVARIANTS
  DeliveryTypeOK
  HeldByOne
  SuccessMeansAnswered
  HeardOnce
  RequestBudget
  OneLateRequest
PROPERTIES
  SilentAfterSuccess
  ImplementsService
CHECK_DEADLOCK FALSE
