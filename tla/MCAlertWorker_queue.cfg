SPECIFICATION FairSpec
CONSTANTS
  Alerts = {a1}
  Requests = {q1, q2}
  Drains = {worker, manual}
  Worker = worker
  Configured = {worker, manual}
  Managers = {m1}
  MaxAttempts = 3
  RetryBase = 2
  RetryCap = 3
  MaxFaults = 1
INVARIANTS TypeOK NewOnce DeliveredWasSent DeadLetterEarned
PROPERTY AlertSettles
CHECK_DEADLOCK FALSE
