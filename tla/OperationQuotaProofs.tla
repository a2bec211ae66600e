------------------------- MODULE OperationQuotaProofs -------------------------
(***************************************************************************)
(* The write-ahead transaction makes the quota authority atomic: every       *)
(* behaviour of OperationQuota, crashes and clock changes included, is one   *)
(* of AtomicQuota.                                                           *)
(***************************************************************************)
EXTENDS OperationQuota, TLAPS

\* The lock holder's view: what it decides on is durable, and what it has not
\* written yet is in the transaction.
LockInv ==
  /\ phase \in {"free", "recovering", "deciding", "committing"}
  /\ phase = "deciding" => wal = NoTransaction
  /\ phase \in {"recovering", "committing"} =>
       /\ wal # NoTransaction /\ todo \subseteq DOMAIN wal.states
       /\ \A s \in DOMAIN wal.states \ todo : files[s] = wal.states[s]

\* A call names well-formed policies or a claim that was charged.
CallInv ==
  phase # "free" =>
    \/ call \in ReserveCalls /\ call.policies # {} /\ ~conflicting(call.policies)
    \/ call.kind = "release" /\ call.claim \in grants

ClaimInv ==
  /\ claims \subseteq grants
  /\ claim = NoClaim \/ claim \in grants
  /\ \A c \in grants : DOMAIN c.leases \subseteq Scope

FileInv ==
  /\ files = [s \in Scope |-> files[s]]
  /\ wal # NoTransaction => DOMAIN wal.states \subseteq Scope

QInv == LockInv /\ CallInv /\ ClaimInv /\ FileInv /\ clock \in Time

LEMMA InitQInv == Init => QInv
<1> SUFFICES ASSUME Init PROVE QInv
  OBVIOUS
<1>1. clock \in Time
  BY PolicyAssumption DEF Init, Time
<1>2. LockInv /\ CallInv /\ ClaimInv
  BY DEF Init, LockInv, CallInv, ClaimInv
<1>3. FileInv
  BY DEF Init, FileInv
<1> QED BY <1>1, <1>2, <1>3 DEF QInv

\* The scopes a call charges exist.
LEMMA PolicyScopes ==
  ASSUME NEW ps \in PolicySets
  PROVE  DOMAIN normalizeOperationQuotaPolicies(ps) \subseteq Scope
  BY PolicyAssumption DEF normalizeOperationQuotaPolicies, Policy

\* A decision is written as a transaction over scopes that exist, and the files
\* are left for later.
LEMMA DecisionKeepsQInv ==
  ASSUME QInv, NEW t, NEW c, writeTransaction(t, c), t.kind # "none",
         DOMAIN t.states \subseteq Scope, phase = "deciding",
         grants \subseteq grants', grants' = grants \/ (grants' = grants \cup {c} /\ DOMAIN c.leases \subseteq Scope),
         c = NoClaim \/ c \in grants'
  PROVE  QInv'
<1>1. wal' # NoTransaction
  BY DEF writeTransaction, NoTransaction
<1>2. LockInv'
  BY <1>1 DEF writeTransaction, LockInv
<1>3. CallInv'
  BY DEF QInv, CallInv, writeTransaction, ReserveCalls
<1>4. ClaimInv'
  BY DEF QInv, ClaimInv, writeTransaction
<1>5. FileInv' /\ clock' \in Time
  BY DEF QInv, FileInv, writeTransaction
<1> QED BY <1>2, <1>3, <1>4, <1>5 DEF QInv

LEMMA ReserveKeepsQInv == QInv /\ Reserve => QInv'
<1> SUFFICES ASSUME QInv, Reserve PROVE QInv'
  OBVIOUS
<1> DEFINE policies == normalizeOperationQuotaPolicies(call.policies)
           c == ClaimOf(call.attempt, policies, clock)
           t == [kind |-> "reserve", attempt |-> call.attempt,
                 states |-> [s \in DOMAIN policies |->
                   nextOperationQuotaClaim(files[s], policies[s], call.attempt, clock)]]
<1>1. call \in ReserveCalls
  BY DEF QInv, CallInv, Reserve
<1>2. DOMAIN policies \subseteq Scope
  BY <1>1, PolicyScopes DEF ReserveCalls
<1>3. writeTransaction(t, c) /\ grants' = grants \cup {c} /\ phase = "deciding"
  BY DEF Reserve
<1>4. t.kind # "none" /\ DOMAIN t.states = DOMAIN policies /\ DOMAIN c.leases = DOMAIN policies
  BY DEF ClaimOf
<1> HIDE DEF policies, c, t
<1> QED BY <1>2, <1>3, <1>4, DecisionKeepsQInv

LEMMA ReleaseKeepsQInv == QInv /\ Release => QInv'
<1> SUFFICES ASSUME QInv, Release PROVE QInv'
  OBVIOUS
<1> DEFINE c == call.claim
           t == [kind |-> "release", attempt |-> c.attempt,
                 states |-> [s \in DOMAIN c.leases |-> releasedState(files[s], c.leases[s], clock)]]
<1>1. c \in grants
  BY DEF QInv, CallInv, Release, ReserveCalls
<1>2. DOMAIN c.leases \subseteq Scope
  BY <1>1 DEF QInv, ClaimInv
<1>3. writeTransaction(t, NoClaim) /\ grants' = grants /\ phase = "deciding"
  BY DEF Release
<1>4. t.kind # "none" /\ DOMAIN t.states = DOMAIN c.leases
  OBVIOUS
<1> HIDE DEF c, t
<1> QED BY <1>2, <1>3, <1>4, DecisionKeepsQInv

LEMMA NextQInv == QInv /\ [Next]_vars => QInv'
<1> SUFFICES ASSUME QInv, [Next]_vars PROVE QInv'
  OBVIOUS
<1> USE DEF QInv
<1>1. ASSUME NEW c \in ReserveCalls \cup ReleaseCalls, TakeLock(c) PROVE QInv'
  <2>1. LockInv'
    BY <1>1 DEF TakeLock, LockInv
  <2>2. CallInv'
    <3>1. CASE c \in ReserveCalls
      BY <1>1, <3>1 DEF TakeLock, CallInv, ReserveCalls
    <3>2. CASE c \in ReleaseCalls
      BY <1>1, <3>2 DEF TakeLock, CallInv, ReleaseCalls, ClaimInv
    <3> QED BY <1>1, <3>1, <3>2
  <2>3. ClaimInv' /\ FileInv' /\ clock' \in Time
    BY <1>1 DEF TakeLock, ClaimInv, FileInv
  <2> QED BY <2>1, <2>2, <2>3
<1>2. ASSUME NEW s \in Scope, WriteScope(s) PROVE QInv'
  <2>1. files' = [files EXCEPT ![s] = wal.states[s]] /\ s \in DOMAIN files
    BY <1>2 DEF WriteScope, FileInv
  <2>2. LockInv'
    BY <1>2, <2>1 DEF WriteScope, LockInv
  <2>3. CallInv' /\ ClaimInv'
    BY <1>2 DEF WriteScope, CallInv, ClaimInv, ReserveCalls
  <2>4. FileInv'
    BY <1>2, <2>1 DEF WriteScope, FileInv
  <2> QED BY <1>2, <2>2, <2>3, <2>4 DEF WriteScope
<1>3. CASE RemoveTransaction
  <2>1. LockInv'
    BY <1>3 DEF RemoveTransaction, removable, LockInv, unlocked
  <2>2. CallInv' /\ ClaimInv'
    BY <1>3 DEF RemoveTransaction, removable, CallInv, ClaimInv, LockInv, unlocked, ReserveCalls
  <2>3. FileInv' /\ clock' \in Time
    BY <1>3 DEF RemoveTransaction, FileInv
  <2> QED BY <2>1, <2>2, <2>3
<1>4. CASE Reserve
  BY <1>4, ReserveKeepsQInv
<1>5. CASE Release
  BY <1>5, ReleaseKeepsQInv
<1>6. CASE Refuse \/ Crash
  BY <1>6 DEF Refuse, Crash, unlocked, LockInv, CallInv, ClaimInv, FileInv
<1>7. CASE (\E t \in Time : SetClock(t)) \/ UNCHANGED vars
  <2>1. clock' \in Time
    BY <1>7 DEF SetClock, vars
  <2>2. UNCHANGED <<files, wal, lockVars, claims, grants, released, crashes>>
    BY <1>7 DEF SetClock, vars
  <2> QED BY <2>1, <2>2 DEF lockVars, LockInv, CallInv, ClaimInv, FileInv, ReserveCalls
<1> QED BY <1>1, <1>2, <1>3, <1>4, <1>5, <1>6, <1>7 DEF Next, LockHolderStep

LEMMA QInvariance == Spec => []QInv
  BY InitQInv, NextQInv, PTL DEF Spec

-----------------------------------------------------------------------------
LEMMA InitRefines == Init => Atomic!Init
  BY DEF Init, Atomic!Init, effective, NoTransaction

\* Without a pending transaction the files are what counts.
LEMMA EffectiveFiles ==
  ASSUME QInv, wal = NoTransaction
  PROVE  effective = files
  BY DEF QInv, FileInv, effective

\* A transaction takes effect the moment it is written.
LEMMA EffectiveDecision ==
  ASSUME QInv, phase = "deciding", NEW t, NEW c, writeTransaction(t, c), t.kind # "none"
  PROVE  effective' = [s \in Scope |-> IF s \in DOMAIN t.states THEN t.states[s] ELSE effective[s]]
<1>1. wal' # NoTransaction /\ wal' = t /\ files' = files
  BY DEF writeTransaction, NoTransaction
<1>2. effective = files
  BY EffectiveFiles DEF QInv, LockInv
<1> QED BY <1>1, <1>2 DEF effective

\* AtomicQuota decides with the same operators.
LEMMA SameDecision ==
  ASSUME NEW st, NEW p, NEW a, NEW now, NEW l
  PROVE  /\ Atomic!admits(st, p, a, now) <=> admits(st, p, a, now)
         /\ Atomic!nextOperationQuotaClaim(st, p, a, now) = nextOperationQuotaClaim(st, p, a, now)
         /\ Atomic!mayRelease(st, l, now) <=> mayRelease(st, l, now)
         /\ Atomic!releasedState(st, l, now) = releasedState(st, l, now)
<1>1. Atomic!rolled(st, p, now) = rolled(st, p, now)
  BY DEF Atomic!rolled, rolled, Atomic!windowStart, windowStart
<1>2. Atomic!admits(st, p, a, now) <=> admits(st, p, a, now)
  <2>1. Atomic!windowOpen(st, p, now) <=> windowOpen(st, p, now)
    BY DEF Atomic!windowOpen, windowOpen, Atomic!operationQuotaActive, operationQuotaActive,
           Atomic!windowStart, windowStart
  <2>2. \A r : Atomic!spaced(r, p, now) <=> spaced(r, p, now)
    BY DEF Atomic!spaced, spaced
  <2>3. \A x : Atomic!operationQuotaActive(x, now) = operationQuotaActive(x, now)
    BY DEF Atomic!operationQuotaActive, operationQuotaActive
  <2>4. \A x : Atomic!Cardinality(x) = Cardinality(x)
    BY DEF Atomic!Cardinality, Cardinality
  <2> QED BY <1>1, <2>1, <2>2, <2>3, <2>4 DEF Atomic!admits, admits
<1>3. Atomic!nextOperationQuotaClaim(st, p, a, now) = nextOperationQuotaClaim(st, p, a, now)
  BY DEF Atomic!nextOperationQuotaClaim, nextOperationQuotaClaim, Atomic!grantedLease, grantedLease,
         Atomic!operationQuotaActive, operationQuotaActive, Atomic!rolled, rolled,
         Atomic!windowStart, windowStart
<1>4. /\ Atomic!mayRelease(st, l, now) <=> mayRelease(st, l, now)
      /\ Atomic!releasedState(st, l, now) = releasedState(st, l, now)
  BY DEF Atomic!mayRelease, mayRelease, Atomic!releasedState, releasedState
<1> QED BY <1>2, <1>3, <1>4

LEMMA ReserveRefines == QInv /\ Reserve => \E a \in AttemptID, ps \in PolicySets : Atomic!AcquireMany(a, ps)
<1> SUFFICES ASSUME QInv, Reserve
             PROVE  Atomic!AcquireMany(call.attempt, call.policies)
                    /\ call.attempt \in AttemptID /\ call.policies \in PolicySets
  OBVIOUS
<1> DEFINE policies == normalizeOperationQuotaPolicies(call.policies)
           c == ClaimOf(call.attempt, policies, clock)
           t == [kind |-> "reserve", attempt |-> call.attempt,
                 states |-> [s \in DOMAIN policies |->
                   nextOperationQuotaClaim(files[s], policies[s], call.attempt, clock)]]
<1>1. /\ call.attempt \in AttemptID /\ call.policies \in PolicySets
      /\ call.policies # {} /\ ~conflicting(call.policies)
  BY DEF QInv, CallInv, Reserve, ReserveCalls
<1>2. effective = files
  BY EffectiveFiles DEF QInv, LockInv, Reserve
<1>3. writeTransaction(t, c) /\ phase = "deciding" /\ t.kind # "none"
  BY DEF Reserve
<1>4. effective' = [s \in Scope |->
                      IF s \in DOMAIN policies
                      THEN nextOperationQuotaClaim(effective[s], policies[s], call.attempt, clock)
                      ELSE effective[s]]
  <2>1. DOMAIN t.states = DOMAIN policies
    OBVIOUS
  <2>2. \A s \in DOMAIN policies :
          t.states[s] = nextOperationQuotaClaim(effective[s], policies[s], call.attempt, clock)
    BY <1>2
  <2> HIDE DEF t, policies
  <2> QED BY <1>3, <2>1, <2>2, EffectiveDecision
<1>5. c = Atomic!ClaimOf(call.attempt, policies, clock)
  BY <1>2 DEF ClaimOf, Atomic!ClaimOf, grantedLease, Atomic!grantedLease, rolled, Atomic!rolled,
              windowStart, Atomic!windowStart
<1>6. \A s \in DOMAIN policies : admits(effective[s], policies[s], call.attempt, clock)
  BY <1>2 DEF Reserve
<1>7. grants' = grants \cup {c} /\ UNCHANGED <<released, clock>>
  BY DEF Reserve, writeTransaction
<1>8. policies = Atomic!normalizeOperationQuotaPolicies(call.policies)
  BY DEF normalizeOperationQuotaPolicies, Atomic!normalizeOperationQuotaPolicies
<1> HIDE DEF c, t, policies
<1>9. ~Atomic!conflicting(call.policies)
  BY <1>1 DEF conflicting, Atomic!conflicting
<1> QED BY <1>1, <1>4, <1>5, <1>6, <1>7, <1>8, <1>9, SameDecision DEF Atomic!AcquireMany

LEMMA ReleaseRefines == QInv /\ Release => \E c \in grants : Atomic!ReleaseMany(c)
<1> SUFFICES ASSUME QInv, Release
             PROVE  Atomic!ReleaseMany(call.claim) /\ call.claim \in grants
  OBVIOUS
<1> DEFINE c == call.claim
           t == [kind |-> "release", attempt |-> c.attempt,
                 states |-> [s \in DOMAIN c.leases |-> releasedState(files[s], c.leases[s], clock)]]
<1>1. c \in grants
  BY DEF QInv, CallInv, Release, ReserveCalls
<1>2. effective = files
  BY EffectiveFiles DEF QInv, LockInv, Release
<1>3. writeTransaction(t, NoClaim) /\ phase = "deciding" /\ t.kind # "none"
  BY DEF Release
<1>4. effective' = [s \in Scope |->
                      IF s \in DOMAIN c.leases
                      THEN releasedState(effective[s], c.leases[s], clock)
                      ELSE effective[s]]
  <2>1. DOMAIN t.states = DOMAIN c.leases
    OBVIOUS
  <2>2. \A s \in DOMAIN c.leases : t.states[s] = releasedState(effective[s], c.leases[s], clock)
    BY <1>2
  <2> HIDE DEF t, c
  <2> QED BY <1>3, <2>1, <2>2, EffectiveDecision
<1>5. \A s \in DOMAIN c.leases : mayRelease(effective[s], c.leases[s], clock)
  BY <1>2 DEF Release
<1>6. released' = released \cup {c} /\ UNCHANGED <<grants, clock>>
  BY DEF Release, writeTransaction
<1> HIDE DEF t
<1> QED BY <1>1, <1>4, <1>5, <1>6, SameDecision DEF Atomic!ReleaseMany

LEMMA NextRefines == QInv /\ [Next]_vars => [Atomic!Next]_(Atomic!vars)
<1> SUFFICES ASSUME QInv, [Next]_vars PROVE [Atomic!Next]_(Atomic!vars)
  OBVIOUS
<1>1. ASSUME NEW s \in Scope, WriteScope(s) PROVE UNCHANGED Atomic!vars
  <2>1. /\ wal' = wal /\ wal # NoTransaction /\ s \in DOMAIN files
        /\ files' = [files EXCEPT ![s] = wal.states[s]]
    BY <1>1 DEF QInv, LockInv, FileInv, WriteScope
  <2>2. CASE s \in DOMAIN wal.states
    <3>1. effective' = effective
      BY <2>1, <2>2 DEF effective
    <3> QED BY <1>1, <3>1 DEF WriteScope, Atomic!vars
  <2>3. s \in todo /\ todo \subseteq DOMAIN wal.states
    BY <1>1 DEF WriteScope, QInv, LockInv
  <2> QED BY <2>2, <2>3
<1>2. CASE RemoveTransaction
  <2>1. \A s \in Scope : effective[s] = files[s]
    BY <1>2 DEF RemoveTransaction, removable, QInv, LockInv, FileInv, effective
  <2>2. effective' = effective
    BY <1>2, <2>1 DEF RemoveTransaction, effective
  <2> QED BY <1>2, <2>2 DEF RemoveTransaction, Atomic!vars
<1>3. CASE Reserve
  BY <1>3, ReserveRefines DEF Atomic!Next
<1>4. CASE Release
  BY <1>4, ReleaseRefines DEF Atomic!Next
<1>5. ASSUME NEW t \in Time, SetClock(t) PROVE Atomic!Next
  <2>1. effective' = effective
    BY <1>5 DEF SetClock, effective
  <2> QED BY <1>5, <2>1 DEF SetClock, Atomic!SetClock, Atomic!Next, Time, Atomic!Time
<1>6. CASE (\E c \in ReserveCalls \cup ReleaseCalls : TakeLock(c)) \/ Refuse \/ Crash \/ UNCHANGED vars
  <2>1. UNCHANGED <<files, wal, grants, released, clock>>
    BY <1>6 DEF TakeLock, Refuse, Crash, vars
  <2>2. effective' = effective
    BY <2>1 DEF effective
  <2> QED BY <2>1, <2>2 DEF Atomic!vars
<1> QED BY <1>1, <1>2, <1>3, <1>4, <1>5, <1>6 DEF Next, LockHolderStep

\* The write-ahead transaction makes AcquireMany and ReleaseMany atomic over all
\* the scopes of a call: every behaviour of the authority, with crashes between
\* any two writes and any movement of the clock, is one of AtomicQuota.
THEOREM AuthorityIsAtomic == Spec => RefinesAtomicQuota
<1>1. Spec => Atomic!Init /\ [][Atomic!Next]_(Atomic!vars)
  BY InitRefines, NextRefines, QInvariance, PTL DEF Spec
<1> QED BY <1>1 DEF RefinesAtomicQuota, Atomic!Spec

-----------------------------------------------------------------------------
\* A scope state that has counted a claim.
counted(st, c, s) ==
  /\ st # NoState
  /\ st.generation >= c.leases[s].generation
  /\ st.lastClaimAt >= c.at

StatesTyped ==
  /\ \A s \in Scope : files[s] # NoState => files[s] \in ScopeState
  /\ wal # NoTransaction => \A s \in DOMAIN wal.states : wal.states[s] \in ScopeState
  /\ \A c \in grants : c.at \in Nat /\ \A s \in DOMAIN c.leases : c.leases[s] \in ActiveLease

\* A returned claim is counted by every file it names and by whatever a pending
\* transaction will put in its place; the claim in hand by the transaction.
ChargeInv ==
  /\ StatesTyped
  /\ \A c \in claims : \A s \in DOMAIN c.leases :
       /\ counted(files[s], c, s)
       /\ wal # NoTransaction /\ s \in DOMAIN wal.states => counted(wal.states[s], c, s)
  /\ phase = "committing" /\ claim # NoClaim =>
       \A s \in DOMAIN claim.leases :
         s \in DOMAIN wal.states /\ counted(wal.states[s], claim, s)

\* A granted slot is a later generation and a later claim than any before it.
LEMMA ClaimAdvances ==
  ASSUME NEW st, st # NoState => st \in ScopeState, NEW p \in Policy, NEW now \in Time,
         NEW a \in AttemptID, admits(st, p, a, now)
  PROVE  LET n == nextOperationQuotaClaim(st, p, a, now)
             l == grantedLease(st, p, a, now) IN
           /\ n \in ScopeState /\ l \in ActiveLease
           /\ n.generation = l.generation /\ n.lastClaimAt = now
           /\ st # NoState => n.generation > st.generation /\ now >= st.lastClaimAt
<1> DEFINE r == rolled(st, p, now)
           l == grantedLease(st, p, a, now)
           n == nextOperationQuotaClaim(st, p, a, now)
           A == operationQuotaActive(r.active, now) \cup {l}
<1>1. now \in Nat /\ Lease \in Nat /\ p.minimumInterval \in Nat /\ p.window \in Nat \ {0}
  BY PolicyAssumption DEF Time
<1>2. windowStart(p, now) \in Nat
  BY <1>1 DEF windowStart
<1>3. /\ r \in ScopeState
      /\ st # NoState => r.generation = st.generation /\ r.lastClaimAt = st.lastClaimAt
  BY <1>2 DEF rolled, ScopeState
<1>4. r.lastClaimAt = 0 \/ now - r.lastClaimAt >= p.minimumInterval
  BY DEF admits, spaced
<1>5. /\ r.generation \in Nat /\ r.requestsUsed \in Nat /\ r.lastClaimAt \in Nat
      /\ r.active \in SUBSET ActiveLease
  BY <1>3 DEF ScopeState
<1> HIDE DEF r
<1>6. l = [attempt |-> a, generation |-> r.generation + 1, expiresAt |-> now + Lease]
  BY DEF grantedLease, r
<1>7. l \in ActiveLease /\ l.generation = r.generation + 1
  BY <1>1, <1>5, <1>6 DEF ActiveLease
<1> HIDE DEF l
<1>8. A \in SUBSET ActiveLease
  BY <1>5, <1>7 DEF operationQuotaActive
<1>9. n = [r EXCEPT !.generation = r.generation + 1, !.active = A,
                    !.requestsUsed = r.requestsUsed + 1, !.lastClaimAt = now, !.updatedAt = now]
  BY <1>3 DEF nextOperationQuotaClaim, ScopeState, r, l
<1> HIDE DEF n, A
<1>10. r.generation + 1 \in Nat /\ r.requestsUsed + 1 \in Nat
  BY <1>5
<1>11. n \in ScopeState /\ n.generation = r.generation + 1 /\ n.lastClaimAt = now
  BY <1>1, <1>3, <1>8, <1>9, <1>10 DEF ScopeState
<1>12. now >= r.lastClaimAt
  BY <1>1, <1>4, <1>5
<1>13. st # NoState => n.generation > st.generation /\ now >= st.lastClaimAt
  BY <1>3, <1>5, <1>11, <1>12
<1> QED BY <1>7, <1>11, <1>13 DEF n, l

LEMMA ReleaseAdvances ==
  ASSUME NEW st \in ScopeState, NEW l \in ActiveLease, NEW now \in Time
  PROVE  LET n == releasedState(st, l, now) IN
           /\ n \in ScopeState
           /\ n.generation > st.generation /\ n.lastClaimAt = st.lastClaimAt
<1> DEFINE A == {k \in st.active : k.attempt # l.attempt}
           n == releasedState(st, l, now)
<1>1. A \in SUBSET ActiveLease /\ st.generation + 1 \in Nat /\ st.generation \in Nat
  BY DEF ScopeState
<1>2. n = [st EXCEPT !.active = A, !.generation = st.generation + 1, !.updatedAt = now]
  BY DEF releasedState, ScopeState
<1>3. now \in Nat
  BY PolicyAssumption DEF Time
<1> HIDE DEF A, n
<1>4. n \in ScopeState /\ n.generation = st.generation + 1 /\ n.lastClaimAt = st.lastClaimAt
  BY <1>1, <1>2, <1>3 DEF ScopeState
<1> QED BY <1>1, <1>4 DEF n

LEMMA CountedLater ==
  ASSUME NEW st \in ScopeState, NEW n \in ScopeState, NEW c, NEW s, counted(st, c, s),
         c.at \in Nat, c.leases[s] \in ActiveLease,
         n.generation > st.generation, n.lastClaimAt >= st.lastClaimAt
  PROVE  counted(n, c, s)
<1>1. st.generation \in Nat /\ st.lastClaimAt \in Nat /\ n.generation \in Nat /\ n.lastClaimAt \in Nat
  BY DEF ScopeState
<1>2. c.leases[s].generation \in Nat
  BY DEF ActiveLease
<1>3. st.generation >= c.leases[s].generation /\ st.lastClaimAt >= c.at
  BY DEF counted
<1>4. n.generation >= c.leases[s].generation /\ n.lastClaimAt >= c.at
  BY <1>1, <1>2, <1>3
<1> QED BY <1>4, NoStateAssumption DEF counted

\* A decision writes states that count whatever the files have counted.
LEMMA DecisionKeepsCharges ==
  ASSUME QInv, ChargeInv, NEW t, NEW c, writeTransaction(t, c), t.kind # "none",
         phase = "deciding", StatesTyped',
         \A s \in DOMAIN t.states : files[s] # NoState =>
           t.states[s].generation > files[s].generation /\ t.states[s].lastClaimAt >= files[s].lastClaimAt,
         c # NoClaim => \A s \in DOMAIN c.leases : s \in DOMAIN t.states /\ counted(t.states[s], c, s)
  PROVE  ChargeInv'
<1>1. wal' = t /\ wal' # NoTransaction /\ files' = files /\ claims' = claims /\ claim' = c
  BY DEF writeTransaction, NoTransaction
<1>2. ASSUME NEW d \in claims, NEW s \in DOMAIN d.leases, s \in DOMAIN t.states
      PROVE  counted(t.states[s], d, s)
  <2>1. d \in grants /\ s \in Scope
    BY <1>2 DEF QInv, ClaimInv
  <2>2. d.at \in Nat /\ d.leases[s] \in ActiveLease /\ counted(files[s], d, s)
    BY <1>2, <2>1 DEF ChargeInv, StatesTyped
  <2>3. files[s] # NoState /\ files[s] \in ScopeState
    BY <2>1, <2>2 DEF counted, ChargeInv, StatesTyped
  <2>4. t.states[s] \in ScopeState
    BY <1>1, <1>2 DEF StatesTyped
  <2> QED BY <1>2, <2>2, <2>3, <2>4, CountedLater
<1>3. \A d \in claims : \A s \in DOMAIN d.leases : counted(files[s], d, s)
  BY DEF ChargeInv
<1>4. \A d \in claims' : \A s \in DOMAIN d.leases :
        /\ counted(files'[s], d, s)
        /\ s \in DOMAIN wal'.states => counted(wal'.states[s], d, s)
  BY <1>1, <1>2, <1>3
<1>5. claim' # NoClaim =>
        \A s \in DOMAIN claim'.leases : s \in DOMAIN wal'.states /\ counted(wal'.states[s], claim', s)
  BY <1>1
<1> QED BY <1>4, <1>5 DEF ChargeInv, counted

LEMMA ReserveKeepsCharges == QInv /\ ChargeInv /\ Reserve => ChargeInv'
<1> SUFFICES ASSUME QInv, ChargeInv, Reserve PROVE ChargeInv'
  OBVIOUS
<1> DEFINE policies == normalizeOperationQuotaPolicies(call.policies)
           c == ClaimOf(call.attempt, policies, clock)
           t == [kind |-> "reserve", attempt |-> call.attempt,
                 states |-> [s \in DOMAIN policies |->
                   nextOperationQuotaClaim(files[s], policies[s], call.attempt, clock)]]
<1>1. call.attempt \in AttemptID /\ call.policies \in PolicySets /\ clock \in Time
  BY DEF QInv, CallInv, Reserve, ReserveCalls
<1>2. \A s \in DOMAIN policies : s \in Scope /\ policies[s] \in Policy
  <2>1. ASSUME NEW s \in DOMAIN policies PROVE policies[s] \in call.policies
    BY DEF normalizeOperationQuotaPolicies
  <2> QED BY <1>1, <2>1, PolicyScopes DEF Policy
<1>3. writeTransaction(t, c) /\ grants' = grants \cup {c} /\ phase = "deciding"
  BY DEF Reserve
<1>4. \A s \in DOMAIN policies : admits(files[s], policies[s], call.attempt, clock)
  BY DEF Reserve
<1>5. /\ t.kind # "none" /\ DOMAIN t.states = DOMAIN policies /\ DOMAIN c.leases = DOMAIN policies
      /\ c.at = clock
      /\ \A s \in DOMAIN policies :
           /\ t.states[s] = nextOperationQuotaClaim(files[s], policies[s], call.attempt, clock)
           /\ c.leases[s] = grantedLease(files[s], policies[s], call.attempt, clock)
  BY DEF ClaimOf
<1> HIDE DEF policies, c, t
<1>6. clock \in Nat
  BY <1>1, PolicyAssumption DEF Time
<1>7. ASSUME NEW s \in DOMAIN policies
      PROVE  /\ t.states[s] \in ScopeState /\ c.leases[s] \in ActiveLease
             /\ counted(t.states[s], c, s)
             /\ files[s] # NoState =>
                  /\ t.states[s].generation > files[s].generation
                  /\ t.states[s].lastClaimAt >= files[s].lastClaimAt
  <2>1. files[s] # NoState => files[s] \in ScopeState
    BY <1>2 DEF ChargeInv, StatesTyped
  <2>2. /\ t.states[s] \in ScopeState /\ c.leases[s] \in ActiveLease
        /\ t.states[s].generation = c.leases[s].generation /\ t.states[s].lastClaimAt = clock
        /\ files[s] # NoState =>
             t.states[s].generation > files[s].generation /\ clock >= files[s].lastClaimAt
    <3> DEFINE st == files[s]
               q == policies[s]
               a == call.attempt
    <3>1. q \in Policy /\ a \in AttemptID /\ admits(st, q, a, clock)
      BY <1>1, <1>2, <1>4
    <3>2. /\ t.states[s] = nextOperationQuotaClaim(st, q, a, clock)
          /\ c.leases[s] = grantedLease(st, q, a, clock)
      BY <1>5
    <3> HIDE DEF st, q, a
    <3>3. LET n == nextOperationQuotaClaim(st, q, a, clock)
              l == grantedLease(st, q, a, clock) IN
            /\ n \in ScopeState /\ l \in ActiveLease
            /\ n.generation = l.generation /\ n.lastClaimAt = clock
            /\ st # NoState => n.generation > st.generation /\ clock >= st.lastClaimAt
      BY <1>1, <2>1, <3>1, ClaimAdvances DEF st
    <3> QED BY <3>2, <3>3 DEF st
  <2>3. t.states[s].generation \in Nat
    BY <2>2 DEF ScopeState
  <2> QED BY <1>5, <1>6, <2>2, <2>3, NoStateAssumption DEF counted
<1>8. StatesTyped'
  <2>1. files' = files /\ wal' = t
    BY <1>3 DEF writeTransaction
  <2> QED BY <1>3, <1>5, <1>6, <1>7, <2>1 DEF ChargeInv, StatesTyped
<1> QED BY <1>3, <1>5, <1>7, <1>8, DecisionKeepsCharges

LEMMA ReleaseKeepsCharges == QInv /\ ChargeInv /\ Release => ChargeInv'
<1> SUFFICES ASSUME QInv, ChargeInv, Release PROVE ChargeInv'
  OBVIOUS
<1> DEFINE c == call.claim
           t == [kind |-> "release", attempt |-> c.attempt,
                 states |-> [s \in DOMAIN c.leases |-> releasedState(files[s], c.leases[s], clock)]]
<1>1. c \in grants /\ clock \in Time
  BY DEF QInv, CallInv, Release, ReserveCalls
<1>2. DOMAIN c.leases \subseteq Scope
  BY <1>1 DEF QInv, ClaimInv
<1>3. writeTransaction(t, NoClaim) /\ grants' = grants /\ phase = "deciding"
  BY DEF Release
<1>4. /\ t.kind # "none" /\ DOMAIN t.states = DOMAIN c.leases
      /\ \A s \in DOMAIN c.leases : t.states[s] = releasedState(files[s], c.leases[s], clock)
  OBVIOUS
<1>5. \A s \in DOMAIN c.leases : files[s] # NoState
  BY DEF Release, mayRelease
<1> HIDE DEF c, t
<1>6. ASSUME NEW s \in DOMAIN c.leases
      PROVE  /\ t.states[s] \in ScopeState
             /\ t.states[s].generation > files[s].generation
             /\ t.states[s].lastClaimAt >= files[s].lastClaimAt
  <2>1. files[s] \in ScopeState /\ c.leases[s] \in ActiveLease
    BY <1>1, <1>2, <1>5 DEF ChargeInv, StatesTyped
  <2>2. /\ t.states[s] \in ScopeState /\ t.states[s].generation > files[s].generation
        /\ t.states[s].lastClaimAt = files[s].lastClaimAt
    BY <1>1, <1>4, <2>1, ReleaseAdvances
  <2>3. files[s].lastClaimAt \in Nat
    BY <2>1 DEF ScopeState
  <2> QED BY <2>2, <2>3
<1>7. StatesTyped'
  <2>1. files' = files /\ wal' = t
    BY <1>3 DEF writeTransaction
  <2> QED BY <1>3, <1>4, <1>6, <2>1 DEF ChargeInv, StatesTyped
<1> QED BY <1>3, <1>4, <1>6, <1>7, DecisionKeepsCharges

LEMMA NextChargeInv == QInv /\ ChargeInv /\ [Next]_vars => ChargeInv'
<1> SUFFICES ASSUME QInv, ChargeInv, [Next]_vars PROVE ChargeInv'
  OBVIOUS
<1>1. ASSUME NEW s \in Scope, WriteScope(s) PROVE ChargeInv'
  <2>1. /\ wal' = wal /\ wal # NoTransaction /\ s \in DOMAIN files /\ s \in DOMAIN wal.states
        /\ files' = [files EXCEPT ![s] = wal.states[s]]
    BY <1>1 DEF QInv, LockInv, FileInv, WriteScope
  <2>2. files'[s] = wal.states[s] /\ \A u : u # s => files'[u] = files[u]
    BY <2>1
  <2>3. UNCHANGED <<wal, phase, claim, claims, grants>>
    BY <1>1 DEF WriteScope
  <2>4. StatesTyped'
    BY <2>1, <2>2, <2>3 DEF ChargeInv, StatesTyped
  <2>5. \A c \in claims : \A u \in DOMAIN c.leases : counted(files'[u], c, u)
    BY <2>1, <2>2 DEF ChargeInv
  <2> QED BY <2>3, <2>4, <2>5 DEF ChargeInv, counted
<1>2. CASE RemoveTransaction
  <2>1. /\ wal' = NoTransaction /\ UNCHANGED <<files, grants>>
        /\ phase \in {"recovering", "committing"} /\ todo = {}
        /\ phase' \in {"free", "deciding"}
    BY <1>2 DEF RemoveTransaction, removable, unlocked
  <2>2. \A s \in DOMAIN wal.states : files[s] = wal.states[s]
    BY <2>1 DEF QInv, LockInv
  <2>3. ASSUME NEW c \in claims', NEW s \in DOMAIN c.leases PROVE counted(files[s], c, s)
    <3>1. CASE c \in claims
      BY <2>3, <3>1 DEF ChargeInv
    <3>2. CASE c \notin claims
      <4>1. c = claim /\ claim # NoClaim /\ phase = "committing"
        BY <1>2, <2>1, <2>3, <3>2 DEF RemoveTransaction
      <4> QED BY <2>2, <2>3, <4>1 DEF ChargeInv
    <3> QED BY <3>1, <3>2
  <2> QED BY <2>1, <2>3 DEF ChargeInv, StatesTyped, counted
<1>3. CASE Reserve
  BY <1>3, ReserveKeepsCharges
<1>4. CASE Release
  BY <1>4, ReleaseKeepsCharges
<1>5. CASE (\E c \in ReserveCalls \cup ReleaseCalls : TakeLock(c)) \/ Refuse \/ Crash
  <2>1. UNCHANGED <<files, wal, claims, grants>> /\ phase' # "committing"
    BY <1>5 DEF TakeLock, Refuse, Crash, unlocked
  <2> QED BY <2>1 DEF ChargeInv, StatesTyped, counted
<1>6. CASE (\E t \in Time : SetClock(t)) \/ UNCHANGED vars
  <2>1. UNCHANGED <<files, wal, claims, grants, phase, claim>>
    BY <1>6 DEF SetClock, vars, lockVars
  <2> QED BY <2>1 DEF ChargeInv, StatesTyped, counted
<1> QED BY <1>1, <1>2, <1>3, <1>4, <1>5, <1>6 DEF Next, LockHolderStep

\* Budgets are charged before a claim is returned: whatever crashes and however
\* the clock is set, the file of every scope has counted every claim a caller
\* has seen (acquireManyWithClockContext, commitOperationQuotaTransaction).
THEOREM ClaimsAreChargedFirst == Spec => []ChargedBeforeReturned
<1>1. Init => ChargeInv
  BY DEF Init, ChargeInv, StatesTyped
<1>2. QInv /\ ChargeInv => ChargedBeforeReturned
  BY DEF QInv, ClaimInv, ChargeInv, ChargedBeforeReturned, counted
<1> QED BY <1>1, <1>2, NextChargeInv, QInvariance, PTL DEF Spec
=============================================================================
