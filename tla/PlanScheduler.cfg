SPECIFICATION FairSpec
CONSTANTS
  N = 2
  MaxConcurrent = 1
  MaxStarts = 1
  MaxDeliveries = 1
  ScanBudget = 2
  SweepBudget = 1
  ObservationOnly <- MCObservationOnly
  MaxPending = 1
  MaxFaults = 1
INVARIANT ReadyIsEarned
PROPERTIES DeliveryNotStarved ExecutionNotStarved
