SPECIFICATION Spec
CONSTANTS
  MaxInt = 31
  Milli = 2
  Second = 4
  MinDelay = 3
  Bases <- SomeBases
  Caps <- SomeCaps
  Attempts <- SomeAttempts
  Headers <- SomeHeaders
  Deadlines <- SomeDeadlines
  DefaultDeadline = 12
  Ages = {0, 3}
INVARIANTS
  HugeRetryAfterCapped
CHECK_DEADLOCK FALSE
