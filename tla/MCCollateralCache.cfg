CONSTANTS
  Callers = {a, b}
  RefreshAfter = 1
  RetryAfter = 2
  Lifetimes = {0, 1, 4}
  MaxTime = 6
  MaxFetches = 3
SPECIFICATION FairSpec
CHECK_DEADLOCK FALSE
INVARIANTS SingleFlight RefreshInsideLifetime
PROPERTIES RetryHonoured WaitersWake
