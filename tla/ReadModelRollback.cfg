SPECIFICATION Spec
CONSTANTS
  Plan = 2
  Period = 1
  N = 1
  BatchSize = 1
  PageLimit = 1
  MaxAge = 0
  MaxPassDuration = 0
  Plans <- MCPlans
  Rollback = TRUE
  Results <- MCResults
  Endings <- MCEndings
  InitialLedgers <- MCEmptyLedger
  MaxWrites <- MCRollbackWrites
  StartTime = 1
  MaxTime = 2
  MaxFaults = 0
INVARIANTS NoFilePoisonsSweep
