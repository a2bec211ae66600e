------------------------- MODULE OperationQuotaScope -------------------------
(***************************************************************************)
(* One quota scope of internal/health/operation_quota.go: its policies, the *)
(* state stored for it, and the decisions nextOperationQuotaClaim and       *)
(* ReleaseMany take on that state.                                          *)
(*                                                                          *)
(* A policy record stands for its digest.  Time 0 is Go's zero time, and    *)
(* StartTime is late enough for no window to start at 0.                    *)
(***************************************************************************)
EXTENDS Integers, FiniteSets

CONSTANTS
  Scope,       \* opaque scope digests: global, provider, credential, API budgets
  AttemptID,   \* attempt identities that claim a slot
  PolicySets,  \* the sets of policies that calls are made under
  NoState,     \* no state file exists for a scope
  Lease,       \* the lease of a claim
  StartTime, MaxTime  \* bound: the instants the wall clock may show

Policy == UNION PolicySets
Time == StartTime..MaxTime

\* validOperationQuotaPolicy, and a clock that is past the zero time.
ASSUME PolicyAssumption ==
  /\ \A p \in Policy :
       /\ p.scope \in Scope
       /\ p.maxConcurrent \in Nat \ {0} /\ p.requestsPerWindow \in Nat \ {0}
       /\ p.window \in Nat \ {0}
       /\ p.minimumInterval \in Nat /\ p.minimumInterval <= p.window
       /\ p.window <= StartTime
  /\ StartTime \in Nat \ {0} /\ MaxTime \in Nat /\ StartTime <= MaxTime
  /\ Lease \in Nat \ {0}

ActiveLease == [attempt : AttemptID, generation : Nat, expiresAt : Nat]

ScopeState ==
  [policy : Policy, windowStarted : Nat, requestsUsed : Nat, lastClaimAt : Nat,
   generation : Nat, updatedAt : Nat, active : SUBSET ActiveLease]

ASSUME NoStateAssumption == NoState \notin ScopeState

-----------------------------------------------------------------------------
\* normalizeOperationQuotaPolicies: one policy for every scope of a call; two
\* different policies for one scope are refused.
conflicting(ps) == \E p, q \in ps : p.scope = q.scope /\ p # q

normalizeOperationQuotaPolicies(ps) ==
  [s \in {p.scope : p \in ps} |-> CHOOSE p \in ps : p.scope = s]

windowStart(p, now) == now - (now % p.window)

operationQuotaActive(active, now) == {l \in active : l.expiresAt > now}

\* The state a claim is decided on: a scope seen for the first time, or one
\* whose window has rolled over, starts with an unused budget.
rolled(st, p, now) ==
  IF st = NoState
  THEN [policy |-> p, windowStarted |-> windowStart(p, now), requestsUsed |-> 0,
        lastClaimAt |-> 0, generation |-> 0, updatedAt |-> 0, active |-> {}]
  ELSE IF st.windowStarted # windowStart(p, now)
       THEN [st EXCEPT !.windowStarted = windowStart(p, now), !.policy = p,
                       !.requestsUsed = 0]
       ELSE st

\* Mutant of windowOpen: a policy may be replaced at any time.
windowOpenAnyPolicy(st, p, now) ==
  /\ now >= st.updatedAt
  /\ st.windowStarted # windowStart(p, now) => operationQuotaActive(st.active, now) = {}

\* A window that still has live leases is drained, and a policy is only replaced
\* when the window of the new one did not start when the stored one did.
windowOpen(st, p, now) ==
  /\ now >= st.updatedAt
  /\ IF st.windowStarted # windowStart(p, now)
     THEN operationQuotaActive(st.active, now) = {}
     ELSE st.policy = p

\* Mutant of spaced: the interval is measured within the current window only.
spacedInWindow(r, p, now) ==
  r.requestsUsed = 0 \/ now - r.lastClaimAt >= p.minimumInterval

spaced(r, p, now) == r.lastClaimAt = 0 \/ now - r.lastClaimAt >= p.minimumInterval

\* nextOperationQuotaClaim grants a slot.
admits(st, p, a, now) ==
  LET r == rolled(st, p, now)
      active == operationQuotaActive(r.active, now) IN
    /\ st # NoState => windowOpen(st, p, now)
    /\ \A l \in active : l.attempt # a
    /\ Cardinality(active) < p.maxConcurrent
    /\ r.requestsUsed < p.requestsPerWindow
    /\ spaced(r, p, now)

grantedLease(st, p, a, now) ==
  [attempt |-> a, generation |-> rolled(st, p, now).generation + 1, expiresAt |-> now + Lease]

nextOperationQuotaClaim(st, p, a, now) ==
  LET r == rolled(st, p, now) IN
    [r EXCEPT !.generation = @ + 1,
              !.active = operationQuotaActive(@, now) \cup {grantedLease(st, p, a, now)},
              !.requestsUsed = @ + 1,
              !.lastClaimAt = now,
              !.updatedAt = now]

-----------------------------------------------------------------------------
\* Mutant of mayRelease: a lease is looked up by its attempt only.
mayReleaseAnyGeneration(st, l, now) ==
  /\ st # NoState /\ now >= st.updatedAt
  /\ \E k \in st.active : k.attempt = l.attempt /\ now < k.expiresAt

\* The fence of ReleaseMany: the very lease of the claim, not yet expired.
mayRelease(st, l, now) ==
  /\ st # NoState /\ now >= st.updatedAt
  /\ l \in st.active
  /\ now < l.expiresAt

\* Mutant of releasedState: the request is refunded.
releasedStateRefund(st, l, now) ==
  [st EXCEPT !.active = {k \in @ : k.attempt # l.attempt}, !.generation = @ + 1,
             !.updatedAt = now, !.requestsUsed = @ - 1]

\* delete(state.Active, claim.AttemptID): the key is the attempt.  The request
\* allowance is not refunded.
releasedState(st, l, now) ==
  [st EXCEPT !.active = {k \in @ : k.attempt # l.attempt}, !.generation = @ + 1,
             !.updatedAt = now]
=============================================================================
