SPECIFICATION Spec
CONSTANTS
  Operation <- MCOperation
  Release = {"old", "new"}
  Identity <- MCIdentity
  Receipt = {r1, r2}
  MaxBytes = 18
  ReservedBytes = 5
  RecordCharge = 4
  IndexCharge = 1
  CheckpointCharge = 1
  DescriptorCharge = 1
  TransactionCharge = 1
  Headroom = 3
  Tailroom = 2
  MaxReservations = 2
  MaxPendingRecords = 3
  MaxOperationKeys = 3
  MaxBatchRecords = 2
  MaxBlocked = 1
  OverlappingAttempts = FALSE
  MaxTokens = 3
INVARIANTS UsageExact EvidenceKept StableBatches OneReceiptPerAttempt Reopens
