-------------------------- MODULE AtomicQuotaProofs --------------------------
(***************************************************************************)
(* The limits of a quota scope, for every set of scopes and policies, every *)
(* lease and every movement of the wall clock.                               *)
(***************************************************************************)
EXTENDS AtomicQuota, FiniteSetTheorems, TLAPS

GrantOK(c) ==
  /\ DOMAIN c.leases = DOMAIN c.policies /\ DOMAIN c.policies \subseteq Scope
  /\ c.at \in Nat
  /\ \A s \in DOMAIN c.policies :
       c.policies[s] \in Policy /\ c.leases[s] \in ActiveLease

\* The state of a scope knows every claim charged to it: none has a later
\* generation or time, and one that may still be on the wire has its lease.
Accounted(s) ==
  IF scopes[s] = NoState
  THEN chargedTo(s) = {}
  ELSE \A c \in chargedTo(s) :
         /\ c.leases[s].generation <= scopes[s].generation
         /\ c.at <= scopes[s].lastClaimAt /\ scopes[s].lastClaimAt # 0
         /\ c \notin released /\ c.leases[s].expiresAt > scopes[s].updatedAt
              => c.leases[s] \in scopes[s].active

\* A generation is the identity of a claim.
OneClaimEach(s) ==
  \A c, d \in chargedTo(s) : c.leases[s].generation = d.leases[s].generation => c = d

\* Active is a map keyed by the attempt, as in the code, and within its limit.
ActiveOK(s) ==
  scopes[s] # NoState =>
    /\ IsFiniteSet(scopes[s].active)
    /\ Cardinality(scopes[s].active) <= scopes[s].policy.maxConcurrent
    /\ \A k, l \in scopes[s].active : k.attempt = l.attempt => k = l

TypeOK ==
  /\ scopes = [s \in Scope |-> scopes[s]]
  /\ \A s \in Scope : scopes[s] # NoState => scopes[s] \in ScopeState
  /\ \A c \in grants : GrantOK(c)
  /\ clock \in Time

Inv ==
  /\ TypeOK
  /\ \A s \in Scope : Accounted(s) /\ OneClaimEach(s) /\ ActiveOK(s)
  /\ ClaimSpacing

-----------------------------------------------------------------------------
\* The policy a call uses for a scope is one of that scope.
LEMMA PolicyOfCall ==
  ASSUME NEW ps \in PolicySets, NEW s \in DOMAIN normalizeOperationQuotaPolicies(ps)
  PROVE  /\ s \in Scope
         /\ normalizeOperationQuotaPolicies(ps)[s] \in Policy
         /\ normalizeOperationQuotaPolicies(ps)[s].scope = s
<1>1. PICK p \in ps : p.scope = s
  BY DEF normalizeOperationQuotaPolicies
<1>2. /\ normalizeOperationQuotaPolicies(ps)[s] \in ps
      /\ normalizeOperationQuotaPolicies(ps)[s].scope = s
  BY <1>1 DEF normalizeOperationQuotaPolicies
<1> QED BY <1>1, <1>2, PolicyAssumption DEF Policy

LEMMA WindowStartNat ==
  ASSUME NEW p \in Policy, NEW now \in Time
  PROVE  windowStart(p, now) \in Nat
BY PolicyAssumption DEF windowStart, Time

LEMMA TimeNat ==
  ASSUME NEW t \in Time
  PROVE  t \in Nat \ {0}
BY PolicyAssumption DEF Time

\* The state a claim is decided on keeps the generation and the last claim.
LEMMA RolledType ==
  ASSUME NEW st, st # NoState => st \in ScopeState, NEW p \in Policy, NEW now \in Time
  PROVE  /\ rolled(st, p, now) \in ScopeState
         /\ st # NoState => /\ rolled(st, p, now).generation = st.generation
                            /\ rolled(st, p, now).lastClaimAt = st.lastClaimAt
                            /\ rolled(st, p, now).active = st.active
         /\ st = NoState => rolled(st, p, now).active = {}
BY WindowStartNat DEF rolled, ScopeState

\* What a claim leaves behind in its scope.
LEMMA ClaimShape ==
  ASSUME NEW st, st # NoState => st \in ScopeState, NEW p \in Policy, NEW now \in Time,
         NEW a \in AttemptID
  PROVE  LET n == nextOperationQuotaClaim(st, p, a, now)
             r == rolled(st, p, now)
             l == grantedLease(st, p, a, now) IN
           /\ n \in ScopeState /\ l \in ActiveLease
           /\ n.generation = r.generation + 1 /\ l.generation = r.generation + 1
           /\ l.attempt = a /\ l.expiresAt = now + Lease
           /\ n.lastClaimAt = now /\ n.updatedAt = now /\ n.policy = r.policy
           /\ n.active = operationQuotaActive(r.active, now) \cup {l}
<1> DEFINE r == rolled(st, p, now)
           l == grantedLease(st, p, a, now)
<1>1. r \in ScopeState
  BY RolledType
<1>2. l \in ActiveLease /\ l.generation = r.generation + 1 /\ l.attempt = a
        /\ l.expiresAt = now + Lease
  BY <1>1, TimeNat, PolicyAssumption DEF grantedLease, ActiveLease, ScopeState
<1>3. operationQuotaActive(r.active, now) \cup {l} \in SUBSET ActiveLease
  BY <1>1, <1>2 DEF operationQuotaActive, ScopeState
<1> HIDE DEF r
<1>4. nextOperationQuotaClaim(st, p, a, now)
        = [r EXCEPT !.generation = @ + 1,
                    !.active = operationQuotaActive(@, now) \cup {l},
                    !.requestsUsed = @ + 1, !.lastClaimAt = now, !.updatedAt = now]
  BY DEF nextOperationQuotaClaim, r
<1> DEFINE n == nextOperationQuotaClaim(st, p, a, now)
<1>5. r.generation + 1 \in Nat /\ r.requestsUsed + 1 \in Nat /\ now \in Nat
  BY <1>1, TimeNat DEF ScopeState
<1> HIDE DEF l, n
<1>6. n = [r EXCEPT !.generation = r.generation + 1,
                    !.active = operationQuotaActive(r.active, now) \cup {l},
                    !.requestsUsed = r.requestsUsed + 1, !.lastClaimAt = now,
                    !.updatedAt = now]
  BY <1>1, <1>4 DEF ScopeState, n
<1>7. n \in ScopeState /\ n.generation = r.generation + 1 /\ n.lastClaimAt = now
        /\ n.updatedAt = now /\ n.policy = r.policy
        /\ n.active = operationQuotaActive(r.active, now) \cup {l}
  BY <1>1, <1>3, <1>5, <1>6 DEF ScopeState
<1> QED BY <1>2, <1>7 DEF r, l, n

\* An admitted claim is made under its own policy, after every earlier claim.
LEMMA AdmittedClaim ==
  ASSUME NEW st, st # NoState => st \in ScopeState, NEW p \in Policy, NEW now \in Time,
         NEW a \in AttemptID, admits(st, p, a, now)
  PROVE  LET r == rolled(st, p, now) IN
           /\ r.policy = p
           /\ st # NoState => now >= st.updatedAt
           /\ r.lastClaimAt # 0 => now - r.lastClaimAt >= p.minimumInterval
           /\ \A l \in operationQuotaActive(r.active, now) : l.attempt # a
           /\ Cardinality(operationQuotaActive(r.active, now)) < p.maxConcurrent
<1>1. rolled(st, p, now).policy = p
  BY DEF admits, windowOpen, rolled, ScopeState
<1> QED BY <1>1 DEF admits, windowOpen, spaced

\* The leases of a scope stay within its limit and one per attempt.
LEMMA ActiveAfterClaim ==
  ASSUME NEW st, st # NoState => st \in ScopeState, NEW p \in Policy, NEW now \in Time,
         NEW a \in AttemptID, admits(st, p, a, now),
         st # NoState => /\ IsFiniteSet(st.active)
                         /\ \A k, l \in st.active : k.attempt = l.attempt => k = l
  PROVE  LET n == nextOperationQuotaClaim(st, p, a, now) IN
           /\ IsFiniteSet(n.active)
           /\ Cardinality(n.active) <= n.policy.maxConcurrent
           /\ \A k, l \in n.active : k.attempt = l.attempt => k = l
<1> DEFINE n == nextOperationQuotaClaim(st, p, a, now)
           r == rolled(st, p, now)
           old == operationQuotaActive(r.active, now)
           g == grantedLease(st, p, a, now)
<1>1. IsFiniteSet(r.active) /\ \A k, l \in r.active : k.attempt = l.attempt => k = l
  BY RolledType, FS_EmptySet
<1>2. old \in SUBSET r.active
  BY DEF operationQuotaActive
<1>3. n.active = old \cup {g} /\ g.attempt = a /\ n.policy = p
  <2>1. n.active = old \cup {g} /\ g.attempt = a /\ n.policy = r.policy
    BY ClaimShape
  <2>2. r.policy = p
    BY AdmittedClaim
  <2> QED BY <2>1, <2>2
<1>4. (\A l \in old : l.attempt # a) /\ Cardinality(old) < p.maxConcurrent
  BY AdmittedClaim
<1> HIDE DEF n, r, old, g
<1>5. IsFiniteSet(old) /\ Cardinality(old) \in Nat
  BY <1>1, <1>2, FS_Subset, FS_CardinalityType
<1>6. IsFiniteSet(old \cup {g}) /\ Cardinality(old \cup {g}) = Cardinality(old) + 1
  BY <1>3, <1>4, <1>5, FS_AddElement
<1>7. p.maxConcurrent \in Nat
  BY PolicyAssumption
<1>8. IsFiniteSet(n.active) /\ Cardinality(n.active) <= n.policy.maxConcurrent
  BY <1>3, <1>4, <1>5, <1>6, <1>7
<1>9. \A k, l \in n.active : k.attempt = l.attempt => k = l
  BY <1>1, <1>2, <1>3, <1>4
<1> QED BY <1>8, <1>9 DEF n

-----------------------------------------------------------------------------
\* A granted call keeps the accounts of every scope it charges, and of the rest.
LEMMA AcquireKeepsInv ==
  ASSUME Inv, NEW a \in AttemptID, NEW ps \in PolicySets, AcquireMany(a, ps)
  PROVE  Inv'
<1> DEFINE pol == normalizeOperationQuotaPolicies(ps)
           g == ClaimOf(a, pol, clock)
<1>0. /\ clock \in Time /\ clock \in Nat \ {0} /\ clock' = clock
      /\ grants' = grants \cup {g} /\ released' = released
  BY TimeNat DEF Inv, TypeOK, AcquireMany
<1>1. \A s \in DOMAIN pol : s \in Scope /\ pol[s] \in Policy /\ admits(scopes[s], pol[s], a, clock)
  BY PolicyOfCall DEF AcquireMany
<1>2. \A s \in DOMAIN pol : scopes'[s] = nextOperationQuotaClaim(scopes[s], pol[s], a, clock)
  BY <1>1 DEF AcquireMany
<1>3. \A s \in Scope \ DOMAIN pol : scopes'[s] = scopes[s]
  BY DEF AcquireMany
<1>4. /\ g.policies = pol /\ g.at = clock /\ DOMAIN g.leases = DOMAIN pol
      /\ \A s \in DOMAIN pol : g.leases[s] = grantedLease(scopes[s], pol[s], a, clock)
  BY DEF ClaimOf
<1>t. \A s \in Scope : scopes[s] # NoState => scopes[s] \in ScopeState
  BY DEF Inv, TypeOK
<1>5. scopes' = [s \in Scope |-> scopes'[s]]
  BY DEF AcquireMany
<1> HIDE DEF pol, g
\* One scope that is charged.
<1>6. ASSUME NEW s \in DOMAIN pol
      PROVE  LET n == scopes'[s] IN
               /\ n \in ScopeState /\ n # NoState /\ g.leases[s] \in ActiveLease
               /\ g.leases[s].generation = n.generation
               /\ n.lastClaimAt = clock /\ n.updatedAt = clock
               /\ g.leases[s] \in n.active
               /\ \A c \in chargedTo(s) :
                    /\ c.leases[s].generation < n.generation
                    /\ c.at <= clock
                    /\ g.at - c.at >= g.policies[s].minimumInterval
                    /\ c \notin released /\ c.leases[s].expiresAt > clock
                         => c.leases[s] \in n.active
  <2> DEFINE st == scopes[s]
             n == scopes'[s]
             r == rolled(st, pol[s], clock)
  <2>1. s \in Scope /\ pol[s] \in Policy /\ admits(st, pol[s], a, clock)
          /\ (st # NoState => st \in ScopeState)
    BY <1>1, <1>t
  <2>2. /\ n \in ScopeState /\ g.leases[s] \in ActiveLease
        /\ n.generation = r.generation + 1 /\ g.leases[s].generation = r.generation + 1
        /\ n.lastClaimAt = clock /\ n.updatedAt = clock
        /\ n.active = operationQuotaActive(r.active, clock) \cup {g.leases[s]}
    BY <1>0, <1>2, <1>4, <2>1, ClaimShape
  <2>3. n # NoState
    BY <2>2, NoStateAssumption
  <2>4. ASSUME NEW c \in chargedTo(s)
        PROVE  /\ c.leases[s].generation < n.generation
               /\ c.at <= clock
               /\ g.at - c.at >= g.policies[s].minimumInterval
               /\ c \notin released /\ c.leases[s].expiresAt > clock
                    => c.leases[s] \in n.active
    <3>1. st # NoState /\ st \in ScopeState
      BY <2>1, <2>4 DEF Inv, Accounted
    <3>2. /\ c.leases[s].generation <= st.generation
          /\ c.at <= st.lastClaimAt /\ st.lastClaimAt # 0
          /\ c \notin released /\ c.leases[s].expiresAt > st.updatedAt
               => c.leases[s] \in st.active
      BY <2>1, <2>4, <3>1 DEF Inv, Accounted
    <3>3. c.leases[s] \in ActiveLease /\ c.at \in Nat
      BY <2>4 DEF Inv, TypeOK, GrantOK, chargedTo
    <3>4. r.generation = st.generation /\ r.lastClaimAt = st.lastClaimAt /\ r.active = st.active
      BY <1>0, <2>1, <3>1, RolledType
    <3>5. clock >= st.updatedAt /\ clock - st.lastClaimAt >= pol[s].minimumInterval
      BY <1>0, <2>1, <3>1, <3>2, <3>4, AdmittedClaim
    <3>6. pol[s].minimumInterval \in Nat
      BY <2>1, PolicyAssumption
    <3>7. st.generation \in Nat /\ st.lastClaimAt \in Nat /\ st.updatedAt \in Nat
      BY <3>1 DEF ScopeState
    <3>8. c.leases[s].generation \in Nat /\ c.leases[s].expiresAt \in Nat
      BY <3>3 DEF ActiveLease
    <3> HIDE DEF st, n, r
    <3>9. c.leases[s].generation < n.generation
      BY <2>2, <3>2, <3>4, <3>7, <3>8
    <3>10. c.at <= clock /\ g.at - c.at >= g.policies[s].minimumInterval
      BY <1>0, <1>4, <3>2, <3>3, <3>5, <3>6, <3>7
    <3>11. c \notin released /\ c.leases[s].expiresAt > clock => c.leases[s] \in n.active
      BY <1>0, <2>2, <3>2, <3>4, <3>5, <3>7, <3>8 DEF operationQuotaActive
    <3> QED BY <3>9, <3>10, <3>11
  <2> QED BY <2>2, <2>3, <2>4
<1>7. ASSUME NEW s \in Scope
      PROVE  chargedTo(s)' = IF s \in DOMAIN pol THEN chargedTo(s) \cup {g} ELSE chargedTo(s)
  BY <1>0, <1>4 DEF chargedTo
<1>8. TypeOK'
  <2>1. \A s \in Scope : scopes'[s] # NoState => scopes'[s] \in ScopeState
    BY <1>3, <1>6, <1>t
  <2>2. GrantOK(g)
    BY <1>0, <1>1, <1>4, <1>6 DEF GrantOK
  <2>3. \A c \in grants' : GrantOK(c)
    BY <1>0, <2>2 DEF Inv, TypeOK
  <2> QED BY <1>0, <1>5, <2>1, <2>3 DEF TypeOK
<1>g. \A s \in Scope : \A c \in chargedTo(s) :
        c.leases[s].generation \in Nat /\ c.leases[s].expiresAt \in Nat
  BY DEF Inv, TypeOK, GrantOK, chargedTo, ActiveLease
<1>n. \A s \in DOMAIN pol : scopes'[s].generation \in Nat
  BY <1>6 DEF ScopeState
<1>9. ASSUME NEW s \in Scope, s \notin DOMAIN pol
      PROVE  Accounted(s)' /\ OneClaimEach(s)' /\ ActiveOK(s)'
  <2>1. chargedTo(s)' = chargedTo(s) /\ scopes'[s] = scopes[s]
    BY <1>3, <1>7, <1>9
  <2> QED BY <1>0, <2>1 DEF Inv, Accounted, OneClaimEach, ActiveOK
<1>10. ASSUME NEW s \in DOMAIN pol
       PROVE  Accounted(s)' /\ OneClaimEach(s)' /\ ActiveOK(s)'
  <2>0. s \in Scope /\ chargedTo(s)' = chargedTo(s) \cup {g}
    BY <1>1, <1>7
  <2>1. ASSUME NEW c \in chargedTo(s) \cup {g}
        PROVE  /\ c.leases[s].generation <= scopes'[s].generation
               /\ c.at <= clock
               /\ c \notin released /\ c.leases[s].expiresAt > clock
                    => c.leases[s] \in scopes'[s].active
    <3>1. CASE c = g
      BY <1>0, <1>4, <1>6, <1>n, <3>1
    <3>2. CASE c \in chargedTo(s)
      BY <1>6, <1>n, <1>g, <2>0, <3>2
    <3> QED BY <3>1, <3>2
  <2>2. Accounted(s)'
    <3>1. scopes'[s] # NoState /\ scopes'[s].lastClaimAt = clock /\ scopes'[s].updatedAt = clock
      BY <1>6
    <3> QED BY <1>0, <2>0, <2>1, <3>1 DEF Accounted
  <2>3. OneClaimEach(s)'
    <3>1. \A c \in chargedTo(s) : c.leases[s].generation # g.leases[s].generation
      BY <1>6, <1>n, <1>g, <2>0
    <3> QED BY <2>0, <3>1 DEF Inv, OneClaimEach
  <2>4. ActiveOK(s)'
    <3>1. scopes[s] # NoState => /\ IsFiniteSet(scopes[s].active)
                                 /\ \A k, l \in scopes[s].active : k.attempt = l.attempt => k = l
      BY <2>0 DEF Inv, ActiveOK
    <3> QED BY <1>0, <1>1, <1>2, <1>t, <2>0, <3>1, ActiveAfterClaim DEF ActiveOK
  <2> QED BY <2>2, <2>3, <2>4
<1>11. ClaimSpacing'
  <2> SUFFICES ASSUME NEW s \in Scope, NEW c \in chargedTo(s)', NEW d \in chargedTo(s)',
                      c.leases[s].generation < d.leases[s].generation
               PROVE  d.at - c.at >= d.policies[s].minimumInterval
    BY DEF ClaimSpacing
  <2>1. CASE c \in chargedTo(s) /\ d \in chargedTo(s)
    BY <2>1 DEF Inv, ClaimSpacing
  <2>2. CASE s \in DOMAIN pol /\ d = g /\ c \in chargedTo(s)
    BY <1>6, <2>2
  <2>3. CASE s \in DOMAIN pol /\ c = g
    <3>1. d.leases[s].generation <= g.leases[s].generation
      BY <1>6, <1>7, <1>g, <1>n, <2>3
    <3> QED BY <1>6, <1>7, <1>g, <1>n, <2>3, <3>1
  <2> QED BY <1>7, <2>1, <2>2, <2>3
<1> QED BY <1>8, <1>9, <1>10, <1>11 DEF Inv

\* A release only forgets the lease of its own claim.
LEMMA ReleaseKeepsInv ==
  ASSUME Inv, NEW d \in grants, ReleaseMany(d)
  PROVE  Inv'
<1>0. /\ clock \in Time /\ clock \in Nat \ {0} /\ clock' = clock
      /\ grants' = grants /\ released' = released \cup {d} /\ GrantOK(d)
  BY TimeNat DEF Inv, TypeOK, ReleaseMany
<1>1. \A s \in DOMAIN d.leases :
        /\ s \in Scope /\ d.leases[s] \in ActiveLease /\ d \in chargedTo(s)
        /\ mayRelease(scopes[s], d.leases[s], clock)
        /\ scopes'[s] = releasedState(scopes[s], d.leases[s], clock)
  BY <1>0 DEF ReleaseMany, GrantOK, chargedTo
<1>2. \A s \in Scope \ DOMAIN d.leases : scopes'[s] = scopes[s]
  BY DEF ReleaseMany
<1>3. \A s \in Scope : chargedTo(s)' = chargedTo(s)
  BY <1>0 DEF chargedTo
<1>4. ASSUME NEW s \in DOMAIN d.leases
      PROVE  LET st == scopes[s]
                 n == scopes'[s] IN
               /\ st \in ScopeState /\ st # NoState /\ n \in ScopeState /\ n # NoState
               /\ n.generation = st.generation + 1 /\ n.lastClaimAt = st.lastClaimAt
               /\ n.updatedAt = clock /\ clock >= st.updatedAt /\ n.policy = st.policy
               /\ n.active = {k \in st.active : k.attempt # d.leases[s].attempt}
               /\ d.leases[s] \in st.active
  <2> DEFINE st == scopes[s]
             n == scopes'[s]
  <2>1. st # NoState /\ clock >= st.updatedAt /\ d.leases[s] \in st.active
    BY <1>1 DEF mayRelease
  <2>2. st \in ScopeState
    BY <1>1, <2>1 DEF Inv, TypeOK
  <2>3. n = [st EXCEPT !.active = {k \in @ : k.attempt # d.leases[s].attempt},
                       !.generation = @ + 1, !.updatedAt = clock]
    BY <1>1 DEF releasedState
  <2> HIDE DEF st, n
  <2>4. /\ n \in ScopeState /\ n.generation = st.generation + 1
        /\ n.lastClaimAt = st.lastClaimAt /\ n.updatedAt = clock /\ n.policy = st.policy
        /\ n.active = {k \in st.active : k.attempt # d.leases[s].attempt}
    <3> DEFINE A == {k \in st.active : k.attempt # d.leases[s].attempt}
    <3>1. A \in SUBSET ActiveLease /\ st.generation + 1 \in Nat
      BY <2>2 DEF ScopeState
    <3>2. n = [st EXCEPT !.active = A, !.generation = st.generation + 1, !.updatedAt = clock]
      BY <2>2, <2>3 DEF ScopeState
    <3> HIDE DEF A
    <3>3. /\ n \in ScopeState /\ n.generation = st.generation + 1
          /\ n.lastClaimAt = st.lastClaimAt /\ n.updatedAt = clock /\ n.policy = st.policy
          /\ n.active = A
      BY <1>0, <2>2, <3>1, <3>2 DEF ScopeState
    <3> QED BY <3>3 DEF A
  <2>5. n # NoState
    BY <2>4, NoStateAssumption
  <2> QED BY <2>1, <2>2, <2>4, <2>5 DEF st, n
<1>5. TypeOK'
  <2>1. scopes' = [s \in Scope |-> scopes'[s]]
    BY DEF ReleaseMany
  <2>2. \A s \in Scope : scopes'[s] # NoState => scopes'[s] \in ScopeState
    BY <1>2, <1>4 DEF Inv, TypeOK
  <2> QED BY <1>0, <2>1, <2>2 DEF Inv, TypeOK
<1>6. ASSUME NEW s \in Scope, s \notin DOMAIN d.leases
      PROVE  Accounted(s)' /\ ActiveOK(s)'
  BY <1>0, <1>2, <1>3, <1>6 DEF Inv, Accounted, ActiveOK
<1>7. ASSUME NEW s \in DOMAIN d.leases
      PROVE  Accounted(s)' /\ ActiveOK(s)'
  <2> DEFINE st == scopes[s]
             n == scopes'[s]
  <2>0. s \in Scope /\ d \in chargedTo(s)
    BY <1>1
  <2>1. /\ st \in ScopeState /\ st # NoState /\ n # NoState
        /\ n.generation = st.generation + 1 /\ n.lastClaimAt = st.lastClaimAt
        /\ n.updatedAt = clock /\ clock >= st.updatedAt /\ n.policy = st.policy
        /\ n.active = {k \in st.active : k.attempt # d.leases[s].attempt}
        /\ d.leases[s] \in st.active
    BY <1>4
  <2>2. st.generation \in Nat /\ st.updatedAt \in Nat
    BY <2>1 DEF ScopeState
  <2>3. \A k, l \in st.active : k.attempt = l.attempt => k = l
    BY <2>0, <2>1 DEF Inv, ActiveOK
  <2>4. ASSUME NEW c \in chargedTo(s)
        PROVE  /\ c.leases[s].generation <= n.generation
               /\ c.at <= n.lastClaimAt /\ n.lastClaimAt # 0
               /\ c \notin released' /\ c.leases[s].expiresAt > n.updatedAt
                    => c.leases[s] \in n.active
    <3>1. /\ c.leases[s].generation <= st.generation
          /\ c.at <= st.lastClaimAt /\ st.lastClaimAt # 0
          /\ c \notin released /\ c.leases[s].expiresAt > st.updatedAt
               => c.leases[s] \in st.active
      BY <2>0, <2>1, <2>4 DEF Inv, Accounted
    <3>2. c.leases[s].generation \in Nat /\ c.leases[s].expiresAt \in Nat
      BY <2>4 DEF Inv, TypeOK, GrantOK, chargedTo, ActiveLease
    <3>3. ASSUME c \notin released', c.leases[s].expiresAt > n.updatedAt
          PROVE  c.leases[s] \in n.active
      <4>1. c # d /\ c \notin released
        BY <1>0, <3>3
      <4>2. c.leases[s].expiresAt > st.updatedAt
        BY <1>0, <2>1, <2>2, <3>2, <3>3
      <4>3. c.leases[s] \in st.active
        BY <3>1, <4>1, <4>2
      <4>4. c.leases[s] # d.leases[s]
        BY <2>0, <2>4, <4>1 DEF Inv, OneClaimEach
      <4> QED BY <2>1, <2>3, <4>3, <4>4
    <3> HIDE DEF st, n
    <3>4. c.leases[s].generation <= n.generation
      BY <2>1, <2>2, <3>1, <3>2
    <3> QED BY <2>1, <3>1, <3>3, <3>4
  <2>5. Accounted(s)'
    BY <1>3, <2>0, <2>1, <2>4 DEF Accounted
  <2>6. ActiveOK(s)'
    <3>1. /\ IsFiniteSet(st.active)
          /\ Cardinality(st.active) <= st.policy.maxConcurrent
      BY <2>0, <2>1 DEF Inv, ActiveOK
    <3>2. n.active \in SUBSET st.active
      BY <2>1
    <3>3. /\ IsFiniteSet(n.active) /\ Cardinality(n.active) <= Cardinality(st.active)
          /\ Cardinality(n.active) \in Nat /\ Cardinality(st.active) \in Nat
      BY <3>1, <3>2, FS_Subset, FS_CardinalityType
    <3>4. st.policy.maxConcurrent \in Nat
      BY <2>1, PolicyAssumption DEF ScopeState
    <3>5. Cardinality(n.active) <= n.policy.maxConcurrent
      BY <2>1, <3>1, <3>3, <3>4
    <3> QED BY <2>3, <3>2, <3>3, <3>5 DEF ActiveOK
  <2> QED BY <2>5, <2>6
<1>8. \A s \in Scope : OneClaimEach(s)'
  BY <1>3 DEF Inv, OneClaimEach
<1>9. ClaimSpacing'
  BY <1>3 DEF Inv, ClaimSpacing
<1> QED BY <1>5, <1>6, <1>7, <1>8, <1>9 DEF Inv

\* Inv is inductive.
LEMMA InvHolds == Spec => []Inv
<1>1. Init => Inv
  <2> SUFFICES ASSUME Init PROVE Inv
    OBVIOUS
  <2>1. clock \in Time
    BY PolicyAssumption DEF Init, Time
  <2>2. \A s \in Scope : scopes[s] = NoState /\ chargedTo(s) = {}
    BY DEF Init, chargedTo
  <2> QED BY <2>1, <2>2 DEF Init, Inv, TypeOK, Accounted, OneClaimEach, ActiveOK, ClaimSpacing
<1>2. Inv /\ [Next]_vars => Inv'
  <2> SUFFICES ASSUME Inv, [Next]_vars PROVE Inv'
    OBVIOUS
  <2>1. ASSUME NEW a \in AttemptID, NEW ps \in PolicySets, AcquireMany(a, ps) PROVE Inv'
    BY <2>1, AcquireKeepsInv
  <2>2. ASSUME NEW c \in grants, ReleaseMany(c) PROVE Inv'
    BY <2>2, ReleaseKeepsInv
  <2>3. ASSUME UNCHANGED <<scopes, grants, released>>, clock' \in Time PROVE Inv'
    BY <2>3 DEF Inv, TypeOK, Accounted, OneClaimEach, ActiveOK, ClaimSpacing, chargedTo
  <2>4. CASE UNCHANGED vars
    BY <2>3, <2>4 DEF vars, Inv, TypeOK
  <2> QED BY <2>1, <2>2, <2>3, <2>4 DEF Next, SetClock
<1> QED BY <1>1, <1>2, PTL DEF Spec

-----------------------------------------------------------------------------
\* Two claims of one scope are the minimum interval of the later one apart, for
\* every set of scopes and policies and however the clock is set
\* (nextOperationQuotaClaim).
THEOREM ClaimsAreSpaced == Spec => []ClaimSpacing
<1>1. Inv => ClaimSpacing
  BY DEF Inv
<1> QED BY <1>1, InvHolds, PTL

\* The calls that may be on the wire together never exceed the limit of the
\* policy of their scope (nextOperationQuotaClaim, ReleaseMany).
THEOREM ConcurrencyIsBounded == Spec => []ConcurrencyBound
<1>1. Inv => ConcurrencyBound
  <2> SUFFICES ASSUME Inv, NEW s \in Scope, scopes[s] # NoState
               PROVE  Cardinality(outstanding(s)) <= scopes[s].policy.maxConcurrent
    BY DEF ConcurrencyBound
  <2> DEFINE S == outstanding(s)
             T == scopes[s].active
             f == [c \in S |-> c.leases[s]]
  <2>1. S \subseteq chargedTo(s) /\ \A c \in S : c.leases[s] \in T
    BY DEF outstanding, Inv, Accounted
  <2>2. f \in Injection(S, T)
    <3>1. f \in [S -> T]
      BY <2>1
    <3>2. \A c, d \in S : f[c] = f[d] => c = d
      BY <2>1 DEF Inv, OneClaimEach
    <3> QED BY <3>1, <3>2 DEF Injection, IsInjective
  <2>3. IsFiniteSet(T) /\ Cardinality(T) <= scopes[s].policy.maxConcurrent
    BY DEF Inv, ActiveOK
  <2> HIDE DEF S, T, f
  <2>4. /\ IsFiniteSet(S) /\ Cardinality(S) <= Cardinality(T)
        /\ Cardinality(S) \in Nat /\ Cardinality(T) \in Nat
    BY <2>2, <2>3, FS_Injection, FS_CardinalityType
  <2>5. scopes[s].policy.maxConcurrent \in Nat
    BY PolicyAssumption DEF Inv, TypeOK, ScopeState
  <2> QED BY <2>3, <2>4, <2>5 DEF S
<1> QED BY <1>1, InvHolds, PTL

-----------------------------------------------------------------------------
(***************************************************************************)
(* The budget.  A policy of another window length is adopted in the middle of *)
(* the stored policy's window with an unused budget (operation_quota.go:397), *)
(* so the budget of a window is a promise about policies of one length.       *)
(***************************************************************************)
OneWindowLength == \A p, q \in Policy : p.scope = q.scope => p.window = q.window

\* The claims of a scope charged in the window that started at w.
claimsIn(s, w) == {c \in chargedTo(s) : windowStart(c.policies[s], c.at) = w}

\* One window, past or current: its claims are made under one policy and within
\* the budget of that policy.
WindowWithinBudget(s, w) ==
  \A c \in claimsIn(s, w) :
    /\ Cardinality(claimsIn(s, w)) <= c.policies[s].requestsPerWindow
    /\ \A d \in claimsIn(s, w) : d.policies[s] = c.policies[s]

\* The stored window is the one of the last claim, no claim was charged in a
\* later one, and requestsUsed counts at least the claims charged in it.
WindowAccounted(s) ==
  scopes[s] # NoState =>
    LET st == scopes[s]
        current == claimsIn(s, st.windowStarted) IN
      /\ st.policy.scope = s /\ st.lastClaimAt # 0
      /\ st.windowStarted = windowStart(st.policy, st.lastClaimAt)
      /\ st.requestsUsed <= st.policy.requestsPerWindow
      /\ IsFiniteSet(current) /\ Cardinality(current) <= st.requestsUsed
      /\ \A c \in current : c.policies[s] = st.policy
      /\ \A c \in chargedTo(s) : windowStart(c.policies[s], c.at) <= st.windowStarted

ScopesOfPolicies == \A c \in grants : \A s \in DOMAIN c.policies : c.policies[s].scope = s

WindowInv ==
  /\ ScopesOfPolicies
  /\ \A s \in Scope : WindowAccounted(s) /\ \A w \in Nat : WindowWithinBudget(s, w)

LEMMA MultipleStep ==
  ASSUME NEW w \in Nat \ {0}, NEW q \in Int, NEW p \in Int, q > p
  PROVE  w * q >= w * p + w
<1>1. q - p \in Nat \ {0}
  OBVIOUS
<1>2. w * (q - p) >= w
  BY <1>1
<1>3. w * (q - p) = w * q - w * p
  OBVIOUS
<1> QED BY <1>2, <1>3

\* Two instants are in one window exactly when their windows start together, and
\* windows follow each other as their instants do.
LEMMA Windows ==
  ASSUME NEW w \in Nat \ {0}, NEW t \in Nat, NEW u \in Nat
  PROVE  LET st == t - (t % w)
             su == u - (u % w) IN
           /\ st \in Nat
           /\ u \in st..(st + w - 1) <=> su = st
           /\ u <= t => su <= st
<1> DEFINE q == t \div w
           p == u \div w
           a == w * q
           b == w * p
           st == t - (t % w)
           su == u - (u % w)
<1>1. q \in Int /\ st = a /\ t % w \in 0..(w - 1)
  OBVIOUS
<1>2. p \in Int /\ su = b /\ u % w \in 0..(w - 1)
  OBVIOUS
<1>3. st \in Int /\ st <= t /\ t < st + w
  BY <1>1
<1>4. su \in Int /\ su <= u /\ u < su + w
  BY <1>2
<1>5. st \in Nat
  OBVIOUS
<1> HIDE DEF q, p
<1>6. q > p => a >= b + w
  BY <1>1, <1>2, MultipleStep
<1>7. p > q => b >= a + w
  BY <1>1, <1>2, MultipleStep
<1>8. q > p \/ p > q \/ a = b
  BY <1>1, <1>2
<1> HIDE DEF a, b, st, su
<1>9. st >= su + w \/ su >= st + w \/ st = su
  BY <1>1, <1>2, <1>6, <1>7, <1>8
<1>10. /\ u \in st..(st + w - 1) <=> su = st
       /\ u <= t => su <= st
  BY <1>3, <1>4, <1>9
<1> QED BY <1>5, <1>10 DEF st, su

LEMMA WindowOfPolicy ==
  ASSUME NEW p \in Policy, NEW q \in Policy, p.window = q.window, NEW t \in Nat, NEW u \in Nat
  PROVE  /\ windowStart(p, t) \in Nat /\ windowStart(p, t) = windowStart(q, t)
         /\ u \in windowStart(p, t)..(windowStart(p, t) + p.window - 1)
              <=> windowStart(q, u) = windowStart(p, t)
         /\ u <= t => windowStart(q, u) <= windowStart(p, t)
<1> DEFINE w == p.window
           st == t - (t % w)
           su == u - (u % w)
<1>1. w \in Nat \ {0}
  BY PolicyAssumption
<1>2. /\ windowStart(p, t) = st /\ windowStart(q, t) = st
      /\ windowStart(p, u) = su /\ windowStart(q, u) = su
  BY DEF windowStart
<1> HIDE DEF w
<1>3. st \in Nat /\ (u \in st..(st + w - 1) <=> su = st) /\ (u <= t => su <= st)
  BY <1>1, Windows
<1> HIDE DEF st, su
<1> QED BY <1>2, <1>3 DEF w

\* What an admitted claim is decided on: the window of its own time, with the
\* budget unused or as stored.
LEMMA AdmittedWindow ==
  ASSUME NEW st, st # NoState => st \in ScopeState, NEW p \in Policy, NEW now \in Time,
         NEW a \in AttemptID, admits(st, p, a, now)
  PROVE  LET r == rolled(st, p, now) IN
           /\ r.windowStarted = windowStart(p, now)
           /\ r.requestsUsed \in Nat /\ r.requestsUsed < p.requestsPerWindow
           /\ st # NoState /\ st.windowStarted = windowStart(p, now)
                => st.policy = p /\ r.requestsUsed = st.requestsUsed
<1>1. rolled(st, p, now) \in ScopeState
  BY RolledType
<1>2. rolled(st, p, now).windowStarted = windowStart(p, now)
  BY DEF rolled, ScopeState
<1>3. rolled(st, p, now).requestsUsed \in Nat
  BY <1>1 DEF ScopeState
<1> QED BY <1>2, <1>3 DEF admits, windowOpen, rolled

LEMMA ClaimWindow ==
  ASSUME NEW st, st # NoState => st \in ScopeState, NEW p \in Policy, NEW now \in Time,
         NEW a \in AttemptID
  PROVE  LET n == nextOperationQuotaClaim(st, p, a, now)
             r == rolled(st, p, now) IN
           n.windowStarted = r.windowStarted /\ n.requestsUsed = r.requestsUsed + 1
<1>1. rolled(st, p, now) \in ScopeState
  BY RolledType
<1> QED BY <1>1 DEF nextOperationQuotaClaim, ScopeState

\* A granted call stays within the budget of the window it is charged in, and
\* charges no window that is over.
LEMMA AcquireKeepsWindows ==
  ASSUME OneWindowLength, Inv, WindowInv, NEW a \in AttemptID, NEW ps \in PolicySets,
         AcquireMany(a, ps)
  PROVE  WindowInv'
<1> DEFINE pol == normalizeOperationQuotaPolicies(ps)
           g == ClaimOf(a, pol, clock)
<1>0. clock \in Time /\ clock \in Nat \ {0} /\ grants' = grants \cup {g}
  BY TimeNat DEF Inv, TypeOK, AcquireMany
<1>1. \A s \in DOMAIN pol :
        /\ s \in Scope /\ pol[s] \in Policy /\ pol[s].scope = s
        /\ admits(scopes[s], pol[s], a, clock)
        /\ scopes'[s] = nextOperationQuotaClaim(scopes[s], pol[s], a, clock)
  BY PolicyOfCall DEF AcquireMany
<1>2. \A s \in Scope \ DOMAIN pol : scopes'[s] = scopes[s]
  BY DEF AcquireMany
<1>3. g.policies = pol /\ g.at = clock
  BY DEF ClaimOf
<1>4. \A s \in Scope : scopes[s] # NoState => scopes[s] \in ScopeState
  BY DEF Inv, TypeOK
<1> HIDE DEF pol, g
<1>5. \A s \in Scope :
        chargedTo(s)' = IF s \in DOMAIN pol THEN chargedTo(s) \cup {g} ELSE chargedTo(s)
  BY <1>0, <1>3 DEF chargedTo
<1>6. ScopesOfPolicies'
  BY <1>0, <1>1, <1>3 DEF WindowInv, ScopesOfPolicies
<1>7. ASSUME NEW s \in Scope, s \notin DOMAIN pol
      PROVE  WindowAccounted(s)' /\ \A w \in Nat : WindowWithinBudget(s, w)'
  <2>1. chargedTo(s)' = chargedTo(s) /\ scopes'[s] = scopes[s]
    BY <1>2, <1>5, <1>7
  <2>2. \A w : claimsIn(s, w)' = claimsIn(s, w)
    BY <2>1 DEF claimsIn
  <2> QED BY <2>1, <2>2 DEF WindowInv, WindowAccounted, WindowWithinBudget
<1>8. ASSUME NEW s \in DOMAIN pol
      PROVE  WindowAccounted(s)' /\ \A w \in Nat : WindowWithinBudget(s, w)'
  <2> DEFINE st == scopes[s]
             n == scopes'[s]
             p == pol[s]
             r == rolled(st, p, clock)
  <2> PICK W : W = windowStart(p, clock)
    OBVIOUS
  <2> DEFINE old == claimsIn(s, W)
  <2>1. /\ s \in Scope /\ p \in Policy /\ p.scope = s /\ admits(st, p, a, clock)
        /\ (st # NoState => st \in ScopeState)
        /\ n = nextOperationQuotaClaim(st, p, a, clock)
    BY <1>1, <1>4
  <2>2. /\ r.windowStarted = W
        /\ r.requestsUsed \in Nat /\ r.requestsUsed < p.requestsPerWindow
        /\ st # NoState /\ st.windowStarted = W
             => st.policy = p /\ r.requestsUsed = st.requestsUsed
    BY <1>0, <2>1, AdmittedWindow
  <2>3. r.policy = p
    BY <1>0, <2>1, AdmittedClaim
  <2>4. /\ n \in ScopeState /\ n.windowStarted = W /\ n.requestsUsed = r.requestsUsed + 1
        /\ n.policy = p /\ n.lastClaimAt = clock
    <3>1. n \in ScopeState /\ n.policy = r.policy /\ n.lastClaimAt = clock
      BY <1>0, <2>1, ClaimShape
    <3>2. n.windowStarted = r.windowStarted /\ n.requestsUsed = r.requestsUsed + 1
      BY <1>0, <2>1, ClaimWindow
    <3> QED BY <2>2, <2>3, <3>1, <3>2
  <2>5. W \in Nat
    BY <1>0, <2>1, WindowOfPolicy
  <2>6. p.requestsPerWindow \in Nat
    BY <2>1, PolicyAssumption
  <2>7. ASSUME st # NoState
        PROVE  st.windowStarted \in Nat /\ st.windowStarted <= W
    <3>1. /\ st.windowStarted = windowStart(st.policy, st.lastClaimAt)
          /\ st.policy.scope = s /\ st.lastClaimAt # 0
      BY <2>1, <2>7 DEF WindowInv, WindowAccounted
    <3>2. st.policy \in Policy /\ st.lastClaimAt \in Nat /\ st.windowStarted \in Nat
      BY <2>1, <2>7 DEF ScopeState
    <3>3. r.lastClaimAt = st.lastClaimAt
      BY <1>0, <2>1, <2>7, RolledType
    <3>4. clock - st.lastClaimAt >= p.minimumInterval
      BY <1>0, <2>1, <3>1, <3>3, AdmittedClaim
    <3>5. p.minimumInterval \in Nat
      BY <2>1, PolicyAssumption
    <3>6. st.lastClaimAt <= clock
      BY <1>0, <3>2, <3>4, <3>5
    <3>7. p.window = st.policy.window
      BY <2>1, <3>1, <3>2 DEF OneWindowLength
    <3> QED BY <1>0, <2>1, <3>1, <3>2, <3>6, <3>7, WindowOfPolicy
  <2>8. \A c \in chargedTo(s) : st # NoState /\ windowStart(c.policies[s], c.at) <= st.windowStarted
    BY <2>1 DEF Inv, Accounted, WindowInv, WindowAccounted
  <2>9. \A c \in chargedTo(s) : windowStart(c.policies[s], c.at) \in Nat
    <3>1. \A c \in chargedTo(s) : c.policies[s] \in Policy /\ c.at \in Nat
      BY DEF Inv, TypeOK, GrantOK, chargedTo
    <3> QED BY <3>1, WindowOfPolicy
  <2> HIDE DEF r, n, p
  <2>10. \A c \in chargedTo(s) : windowStart(c.policies[s], c.at) <= W
    BY <2>5, <2>7, <2>8, <2>9
  <2>11. /\ IsFiniteSet(old) /\ Cardinality(old) <= r.requestsUsed
         /\ \A c \in old : c.policies[s] = p
    <3>1. CASE st # NoState /\ st.windowStarted = W
      BY <2>1, <2>2, <3>1 DEF WindowInv, WindowAccounted
    <3>2. CASE st = NoState \/ st.windowStarted # W
      <4>1. old = {}
        BY <2>5, <2>7, <2>8, <2>9, <3>2 DEF claimsIn
      <4>2. IsFiniteSet({}) /\ Cardinality({}) = 0
        BY FS_EmptySet
      <4> HIDE DEF old
      <4> QED BY <2>2, <4>1, <4>2
    <3> QED BY <3>1, <3>2
  <2>12. windowStart(g.policies[s], g.at) = W
    BY <1>3 DEF p
  <2>13. \A w : claimsIn(s, w)' = IF w = W THEN claimsIn(s, w) \cup {g} ELSE claimsIn(s, w)
    BY <1>5, <2>1, <2>12 DEF claimsIn
  <2> DEFINE new == old \cup {g}
  <2>14. IsFiniteSet(new) /\ Cardinality(new) <= r.requestsUsed + 1
         /\ Cardinality(new) <= p.requestsPerWindow
    <3>1. Cardinality(old) \in Nat
      BY <2>11, FS_CardinalityType
    <3>2. IsFiniteSet(new) /\ (Cardinality(new) = Cardinality(old) \/ Cardinality(new) = Cardinality(old) + 1)
      BY <2>11, FS_AddElement
    <3> HIDE DEF old, new
    <3> QED BY <2>2, <2>6, <2>11, <3>1, <3>2
  <2>15. \A c \in new : c.policies[s] = p
    BY <1>3, <2>11 DEF p
  <2>16. claimsIn(s, W)' = new
    BY <2>13
  <2>17. WindowAccounted(s)'
    <3>1. n.requestsUsed <= n.policy.requestsPerWindow
      BY <2>2, <2>4, <2>6
    <3>2. \A c \in chargedTo(s)' : windowStart(c.policies[s], c.at) <= W
      BY <1>5, <2>1, <2>5, <2>10, <2>12
    <3>3. {c \in chargedTo(s)' : windowStart(c.policies[s], c.at) = n.windowStarted} = new
      BY <2>4, <2>16 DEF claimsIn
    <3>4. n.windowStarted = windowStart(n.policy, n.lastClaimAt) /\ n.lastClaimAt # 0
      BY <1>0, <2>4
    <3>5. Cardinality(new) <= n.requestsUsed
      BY <2>4, <2>14
    <3> HIDE DEF new
    <3> QED BY <2>1, <2>4, <2>14, <2>15, <3>1, <3>2, <3>3, <3>4, <3>5
            DEF WindowAccounted, claimsIn, n
  <2>18. ASSUME NEW w \in Nat PROVE WindowWithinBudget(s, w)'
    <3>1. CASE w = W
      <4>1. claimsIn(s, w)' = new
        BY <2>16, <3>1
      <4> HIDE DEF new
      <4> QED BY <2>14, <2>15, <4>1 DEF WindowWithinBudget
    <3>2. CASE w # W
      BY <2>1, <2>13, <3>2 DEF WindowInv, WindowWithinBudget
    <3> QED BY <3>1, <3>2
  <2> QED BY <2>17, <2>18
<1> QED BY <1>6, <1>7, <1>8 DEF WindowInv

\* A release refunds no request and moves no window.
LEMMA ReleaseKeepsWindows ==
  ASSUME Inv, WindowInv, NEW d \in grants, ReleaseMany(d)
  PROVE  WindowInv'
<1>1. grants' = grants /\ GrantOK(d)
  BY DEF Inv, TypeOK, ReleaseMany
<1>2. \A s \in Scope : chargedTo(s)' = chargedTo(s)
  BY <1>1 DEF chargedTo
<1>3. \A s \in Scope : \A w : claimsIn(s, w)' = claimsIn(s, w)
  BY <1>2 DEF claimsIn
<1>4. ASSUME NEW s \in Scope, scopes'[s] # NoState
      PROVE  LET st == scopes[s]
                 n == scopes'[s] IN
               /\ st # NoState /\ n.policy = st.policy /\ n.lastClaimAt = st.lastClaimAt
               /\ n.windowStarted = st.windowStarted /\ n.requestsUsed = st.requestsUsed
  <2>1. CASE s \in DOMAIN d.leases
    <3>1. scopes'[s] = releasedState(scopes[s], d.leases[s], clock) /\ scopes[s] # NoState
      BY <2>1 DEF ReleaseMany, mayRelease
    <3>2. scopes[s] \in ScopeState
      BY <3>1 DEF Inv, TypeOK
    <3> QED BY <3>1, <3>2 DEF releasedState, ScopeState
  <2>2. CASE s \notin DOMAIN d.leases
    BY <1>4, <2>2 DEF ReleaseMany
  <2> QED BY <2>1, <2>2
<1>5. \A s \in Scope : WindowAccounted(s)'
  BY <1>2, <1>3, <1>4 DEF WindowInv, WindowAccounted
<1>6. \A s \in Scope : \A w \in Nat : WindowWithinBudget(s, w)'
  BY <1>3 DEF WindowInv, WindowWithinBudget
<1> QED BY <1>1, <1>5, <1>6 DEF WindowInv, ScopesOfPolicies

LEMMA WindowInvHolds == ASSUME OneWindowLength PROVE Spec => []WindowInv
<1>1. Init => WindowInv
  <2> SUFFICES ASSUME Init PROVE WindowInv
    OBVIOUS
  <2>1. \A s \in Scope : scopes[s] = NoState /\ chargedTo(s) = {} /\ \A w : claimsIn(s, w) = {}
    BY DEF Init, chargedTo, claimsIn
  <2> QED BY <2>1 DEF Init, WindowInv, ScopesOfPolicies, WindowAccounted, WindowWithinBudget
<1>2. Inv /\ WindowInv /\ [Next]_vars => WindowInv'
  <2> SUFFICES ASSUME Inv, WindowInv, [Next]_vars PROVE WindowInv'
    OBVIOUS
  <2>1. ASSUME NEW a \in AttemptID, NEW ps \in PolicySets, AcquireMany(a, ps) PROVE WindowInv'
    BY <2>1, AcquireKeepsWindows
  <2>2. ASSUME NEW c \in grants, ReleaseMany(c) PROVE WindowInv'
    BY <2>2, ReleaseKeepsWindows
  <2>3. ASSUME UNCHANGED <<scopes, grants>> PROVE WindowInv'
    <3>1. \A s \in Scope : chargedTo(s)' = chargedTo(s)
      BY <2>3 DEF chargedTo
    <3>2. \A s \in Scope : \A w : claimsIn(s, w)' = claimsIn(s, w)
      BY <3>1 DEF claimsIn
    <3> QED BY <2>3, <3>1, <3>2 DEF WindowInv, ScopesOfPolicies, WindowAccounted, WindowWithinBudget
  <2> QED BY <2>1, <2>2, <2>3 DEF Next, SetClock, vars
<1> QED BY <1>1, <1>2, InvHolds, PTL DEF Spec

\* The claims charged in the window of a claim are those whose window starts
\* when that of the claim does.
LEMMA SameWindow ==
  ASSUME OneWindowLength, Inv, WindowInv, NEW s \in Scope, NEW c \in chargedTo(s), NEW d \in chargedTo(s)
  PROVE  /\ windowStart(c.policies[s], c.at) \in Nat
         /\ inWindowOf(s, c, d)
              <=> windowStart(d.policies[s], d.at) = windowStart(c.policies[s], c.at)
<1>1. /\ c.policies[s] \in Policy /\ c.at \in Nat /\ c.policies[s].scope = s
      /\ d.policies[s] \in Policy /\ d.at \in Nat /\ d.policies[s].scope = s
  BY DEF Inv, TypeOK, GrantOK, chargedTo, WindowInv, ScopesOfPolicies
<1>2. c.policies[s].window = d.policies[s].window
  BY <1>1 DEF OneWindowLength
<1> QED BY <1>1, <1>2, WindowOfPolicy DEF inWindowOf

\* However the clock is set and whatever is released, a scope is never charged
\* more requests in one window than its policy allows, for every set of scopes
\* and of policies whose windows have one length per scope
\* (nextOperationQuotaClaim).
THEOREM BudgetIsPerWindow == ASSUME OneWindowLength PROVE Spec => []BudgetPerWindow
<1>1. Inv /\ WindowInv => BudgetPerWindow
  <2> SUFFICES ASSUME Inv, WindowInv, NEW s \in Scope, NEW c \in chargedTo(s)
               PROVE  Cardinality({d \in chargedTo(s) : inWindowOf(s, c, d)})
                        <= c.policies[s].requestsPerWindow
    BY DEF BudgetPerWindow
  <2> DEFINE w == windowStart(c.policies[s], c.at)
  <2>1. {d \in chargedTo(s) : inWindowOf(s, c, d)} = claimsIn(s, w)
    BY SameWindow DEF claimsIn
  <2>2. w \in Nat /\ c \in claimsIn(s, w)
    BY SameWindow DEF claimsIn
  <2> QED BY <2>1, <2>2 DEF WindowInv, WindowWithinBudget
<1> QED BY <1>1, InvHolds, WindowInvHolds, PTL

\* The claims charged in one window of a scope are made under one policy, for
\* policies whose windows have one length per scope (nextOperationQuotaClaim).
THEOREM PolicyIsFixedWithinWindow == ASSUME OneWindowLength PROVE Spec => []PolicyFixedWithinWindow
<1>1. Inv /\ WindowInv => PolicyFixedWithinWindow
  <2> SUFFICES ASSUME Inv, WindowInv, NEW s \in Scope, NEW c \in chargedTo(s),
                      NEW d \in chargedTo(s), inWindowOf(s, c, d)
               PROVE  d.policies[s] = c.policies[s]
    BY DEF PolicyFixedWithinWindow
  <2> DEFINE w == windowStart(c.policies[s], c.at)
  <2>1. w \in Nat /\ c \in claimsIn(s, w) /\ d \in claimsIn(s, w)
    BY SameWindow DEF claimsIn
  <2> QED BY <2>1 DEF WindowInv, WindowWithinBudget
<1> QED BY <1>1, InvHolds, WindowInvHolds, PTL
=============================================================================
