SPECIFICATION FairSpec
CONSTANTS
  Alerts = {a1}
  Runs = {r1, r2}
  Tokens = {k1, k2, k3}
  NoToken = NoToken
  Lease = 2
  Batch = 1
  MaxAttempts = 3
  RetryBase = 2
  RetryCap = 3
  MaxFaults = 2
  MaxRequeues = 1
INVARIANTS TypeOK AttemptsMatchStatus LeaseExclusive ReportedIsReal
PROPERTIES DeliveredIsFinal AlertSettles KeepsPromise
