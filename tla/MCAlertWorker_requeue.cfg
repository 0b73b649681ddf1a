SPECIFICATION FairSpec
CONSTANTS
  Alerts = {a1}
  Requests = {q1}
  Drains = {worker, manual}
  Worker = worker
  Configured = {worker, manual}
  Managers = {m1}
  MaxAttempts = 2
  RetryBase = 1
  RetryCap = 2
  MaxFaults = 0
PROPERTY DeadLetterNeedsRequeue
CHECK_DEADLOCK FALSE
