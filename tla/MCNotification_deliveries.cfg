CONSTANTS
  Deliveries = {d1, d2}
  Directs = {s1}
  Retries = {t1, t2}
  MaxRetries = 1
  MaxFaults = 1
SPECIFICATION Spec
INVARIANTS
  TypeOK
  SentWasAccepted
  RetryCountBounded
  ResentOnlyAfterFault
  PendingIsUnfinished
CHECK_DEADLOCK FALSE
