\* Two concurrent calls over one cache key, the retry bound of the code.
SPECIFICATION FairSpec
CONSTANTS
  Call = {c1, c2}
  Budget = 4
  Estimates = {1, 2}
  MaxActual <- MCActual
  Key = {k1}
  NoKey = NoKey
  CacheOn = TRUE
  MaxRetry = 3
  MaxUsage = 1
INVARIANTS
  OverrunBounded
  NoLeakedReservation
PROPERTIES
  AbandonedUsageRecorded
  BudgetSpec
  CallsEnd
CHECK_DEADLOCK FALSE
