SPECIFICATION FairSpec
CONSTANTS
  t1 = t1
  t2 = t2
  t3 = t3
  slow = slow
  fast = fast
  None = None
  TaskId <- Tasks
  Host <- Hosts
  HostOf <- Targets
  SlowHosts <- Slow
  Workers = 2
  HostConcurrency = 1
  MaxAttempts = 2
  BusyDelay = 1
  MaxDelay = 2
INVARIANTS
  DispatchTypeOK
  InOnePlace
  LimitsBalance
  NoLostWakeup
  DrainedMeansQuiet
PROPERTIES
  OtherHostsServed
  ShutdownEnds
CHECK_DEADLOCK FALSE
