SPECIFICATION Spec
CONSTANTS
  Scope <- MCScope
  AttemptID = {a1, a2}
  PolicySets <- MCPolicySets
  NoState = NoState
  Lease = 2
  StartTime = 2
  MaxTime = 5
INVARIANTS BudgetPerWindow PolicyFixedWithinWindow ConcurrencyBound ClaimSpacing
