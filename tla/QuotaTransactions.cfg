SPECIFICATION FairSpec
CONSTANTS
  Scope <- MCScope
  AttemptID = {a1, a2}
  PolicySets <- MCBothScopes
  NoState = NoState
  NoCall = NoCall
  NoClaim = NoClaim
  Lease = 1
  StartTime = 2
  MaxTime = 3
  MaxCrashes = 2
INVARIANTS ChargedBeforeReturned
PROPERTIES RecoveryCompletes RefinesAtomicQuota
