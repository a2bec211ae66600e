----------------------------- MODULE AtomicQuota -----------------------------
(***************************************************************************)
(* What the quota authority promises: AcquireMany and ReleaseMany take       *)
(* effect on all scopes of a call at once, at the instant the call decides.  *)
(* A claim that its caller never receives (the process died) stays charged.  *)
(*                                                                          *)
(* grants and released record every claim ever charged and ever released.   *)
(* The wall clock may be set forwards and backwards.                        *)
(***************************************************************************)
EXTENDS OperationQuotaScope

VARIABLES
  scopes,    \* scope -> its state, or NoState
  grants,    \* every claim charged so far
  released,  \* the claims released so far
  clock

vars == <<scopes, grants, released, clock>>

Init ==
  /\ scopes = [s \in Scope |-> NoState]
  /\ grants = {}
  /\ released = {}
  /\ clock = StartTime

\* The claims of one call: for each scope, the policy and the lease.
ClaimOf(a, policies, now) ==
  [attempt |-> a, at |-> now, policies |-> policies,
   leases |-> [s \in DOMAIN policies |-> grantedLease(scopes[s], policies[s], a, now)]]

AcquireMany(a, ps) ==
  LET policies == normalizeOperationQuotaPolicies(ps) IN
    /\ ps # {} /\ ~conflicting(ps)
    /\ \A s \in DOMAIN policies : admits(scopes[s], policies[s], a, clock)
    /\ scopes' = [s \in Scope |->
                    IF s \in DOMAIN policies
                    THEN nextOperationQuotaClaim(scopes[s], policies[s], a, clock)
                    ELSE scopes[s]]
    /\ grants' = grants \cup {ClaimOf(a, policies, clock)}
    /\ UNCHANGED <<released, clock>>

ReleaseMany(c) ==
  /\ \A s \in DOMAIN c.leases : mayRelease(scopes[s], c.leases[s], clock)
  /\ scopes' = [s \in Scope |->
                  IF s \in DOMAIN c.leases
                  THEN releasedState(scopes[s], c.leases[s], clock)
                  ELSE scopes[s]]
  /\ released' = released \cup {c}
  /\ UNCHANGED <<grants, clock>>

\* The wall clock moves, or is set to any other time.
SetClock(t) ==
  /\ clock' = t
  /\ UNCHANGED <<scopes, grants, released>>

Next ==
  \/ \E a \in AttemptID, ps \in PolicySets : AcquireMany(a, ps)
  \/ \E c \in grants : ReleaseMany(c)
  \/ \E t \in Time : SetClock(t)

Spec == Init /\ [][Next]_vars

-----------------------------------------------------------------------------
\* The claims charged to a scope.
chargedTo(s) == {c \in grants : s \in DOMAIN c.policies}

\* Claim d was charged to scope s in the window in which c was.
inWindowOf(s, c, d) ==
  LET start == windowStart(c.policies[s], c.at) IN
    d.at \in start..(start + c.policies[s].window - 1)

\* However the clock moves, whoever crashes and whatever is released, a scope is
\* never charged more requests in one window than its policy allows.
BudgetPerWindow ==
  \A s \in Scope : \A c \in chargedTo(s) :
    Cardinality({d \in chargedTo(s) : inWindowOf(s, c, d)}) <= c.policies[s].requestsPerWindow

\* The policy of a scope is not changed within one of its windows: the claims
\* charged in the window of a claim are made under the same policy.
PolicyFixedWithinWindow ==
  \A s \in Scope : \A c, d \in chargedTo(s) :
    inWindowOf(s, c, d) /\ c.leases[s].generation < d.leases[s].generation =>
      d.policies[s] = c.policies[s]

\* The claims of a scope that were neither released nor expired when the scope
\* was last written: the calls that may be on the wire together.
outstanding(s) ==
  {c \in chargedTo(s) \ released : c.leases[s].expiresAt > scopes[s].updatedAt}

\* The calls that may be on the wire together never exceed the concurrency of the
\* policy the scope is under: releasing twice, releasing a stale claim or
\* reusing an attempt identity never frees somebody else's slot.
ConcurrencyBound ==
  \A s \in Scope :
    scopes[s] # NoState => Cardinality(outstanding(s)) <= scopes[s].policy.maxConcurrent

\* Two claims of one scope are the minimum interval of the later one apart,
\* across window boundaries and releases.
ClaimSpacing ==
  \A s \in Scope : \A c, d \in chargedTo(s) :
    c.leases[s].generation < d.leases[s].generation =>
      d.at - c.at >= d.policies[s].minimumInterval
=============================================================================
