SPECIFICATION Spec
CONSTANTS
  w1 = w1
  w2 = w2
  Worker <- MCWorker
  ProbeTime = 1
  MaxProbeTime = 1
  AttemptLease = 3
  QuotaLease = 2
  MaxConcurrent = 2
  HistoryCapacity = 2
  MaxAttempts = 2
  MaxFaults = 2
  MaxTime = 7
INVARIANTS
  RequestCovered
  EvidenceTruthful
  NothingLeaks
PROPERTIES
  ReceiptCommits
\* Time and the attempts are bounded.
CHECK_DEADLOCK FALSE
