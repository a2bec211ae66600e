SPECIFICATION Spec
CONSTANTS
  Subjects = {1}
  Processes <- MCProcesses
  ShardCount <- MCShardCount
  Shard <- MCShard
  w1 = w1
  w2 = w2
  Workers = {w1, w2}
  Deployments <- MCDeployments
  Interval = 2
  Lease = 2
  MaxGeneration = 2
  MaxFaults = 1
  MaxTime = 4
  Scheduler = "scheduler"
  N = 2
  SlotLength <- MCSlotLength
  Jitter <- MCJitter
  GlobalConcurrency = 1
  MaxCrashes = 1
INVARIANTS LeaseHonoured CompletionsCounted SlotRunOnce ProgressTruthful
\* The clock stops at MaxTime.
CHECK_DEADLOCK FALSE
