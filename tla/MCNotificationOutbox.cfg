SPECIFICATION FairSpec
CONSTANTS
  d1 = d1
  d2 = d2
  Nobody = Nobody
  Note = {1}
  Delivery = {d1, d2}
  BatchSize = 1
  DeliveryTimeout = 1
  Lease = 2
  DeferDelay = 1
  MaxAttempts = 2
  RetryDelay <- MCRetryDelay
  MaxRestarts = 2
CHECK_DEADLOCK FALSE
INVARIANT LeaseExclusive
INVARIANT OutboxInv
PROPERTY KeepsPromise
PROPERTY OnlyLeaseHolderRecords
PROPERTY EventuallySettled
