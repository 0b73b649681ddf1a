SPECIFICATION FairSpec
CONSTANTS
  Threads = {t1, t2}
  CacheKeys = {k1}
  NoKey = NoKey
  NoThread = NoThread
  MaxRetries = 1
  Threshold = 2
  Cooldown = 2
  Limit = 2
  Window = 3
  TTL = 1
  ControlFaults = TRUE
  RowFaults = TRUE
  Skew = 1
  MaxCalls = 3
  MaxTime = 4
INVARIANTS TypeOK Accounted NoRedundantFetch BudgetHolds
PROPERTIES CallReturns EarlyCloseNeedsSuccess
CHECK_DEADLOCK FALSE
