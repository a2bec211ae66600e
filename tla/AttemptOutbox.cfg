SPECIFICATION FairSpec
CONSTANTS
  b1 = b1
  b1k = b1k
  b2 = b2
  p1 = p1
  p2 = p2
  NoPlan = NoPlan
  Binding <- MCOneBinding
  PlanOf <- MCOnePlanOf
  PeriodOf <- MCOnePeriodOf
  MaxHistory = 2
  AttemptLease = 2
  DeliveryLease = 1
  DeferredRetryDelay = 1
  MaxDeliveryAttempts = 2
  MaxStale = 0
  MaxTime = 5
INVARIANTS
  InOrderDelivery
  DeliveryExclusive
PROPERTIES
  OutboxForward
  AbandonedClaimResolved
  RotationKeepsEvidence
\* The clock stops at MaxTime.
CHECK_DEADLOCK FALSE
