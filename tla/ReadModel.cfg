SPECIFICATION Spec
CONSTANTS
  Plan = 2
  Period = 1
  N = 2
  BatchSize = 1
  PageLimit = 1
  MaxAge = 0
  MaxPassDuration = 0
  Plans <- MCPlans
  Rollback = FALSE
  StartTime = 1
  MaxTime = 2
  Results <- MCResults
  Endings <- MCEndings
  InitialLedgers <- MCInitialLedgers
  MaxWrites <- MCWrites
  MaxFaults = 1
INVARIANTS StampHidesNothing PublicPages NoFilePoisonsSweep
PROPERTY NothingTakenBack
