SPECIFICATION Spec
CONSTANTS
  b1 = b1
  b1k = b1k
  b2 = b2
  p1 = p1
  p2 = p2
  NoPlan = NoPlan
  Binding <- MCBinding
  PlanOf <- MCPlanOf
  PeriodOf <- MCPeriodOf
  MaxHistory = 3
  AttemptLease = 2
  DeliveryLease = 1
  DeferredRetryDelay = 1
  MaxDeliveryAttempts = 0
  MaxStale = 1
  MaxTime = 5
INVARIANTS
  ClaimExclusive
  EvidenceWithinLease
  RequestSpacing
  PlanEvidenceExact
  NoWriteRefused
PROPERTIES
  ClosedIsFrozen
\* The clock stops at MaxTime.
CHECK_DEADLOCK FALSE
