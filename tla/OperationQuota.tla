---------------------------- MODULE OperationQuota ----------------------------
(***************************************************************************)
(* The quota authority of internal/health/operation_quota.go: one state file *)
(* for every scope, a write-ahead transaction for all the scopes of a call,  *)
(* and one lock file.                                                        *)
(*                                                                           *)
(* A call takes the lock, replays a transaction that an earlier call left    *)
(* behind, reads the clock, decides, writes the transaction, writes the      *)
(* scope files one by one and removes the transaction.  Each write is an     *)
(* atomic rename and an action here.  The process may die between any two of *)
(* them; a write that fails has the same effect, since the call then gives   *)
(* up the lock and leaves the rest to the next call.  The scope files are    *)
(* written in the order of their opaque digests, here in any order.          *)
(***************************************************************************)
EXTENDS OperationQuotaScope

CONSTANTS
  NoCall, NoClaim,
  MaxCrashes  \* bound: crashes and failed writes

VARIABLES
  files,      \* scope -> what its state file holds, or NoState
  wal,        \* .pending-transaction.json, or NoTransaction
  phase,      \* of the call that holds .authority.lock
  call,       \* that call, or NoCall
  claim,      \* the claim it has charged and will return, or NoClaim
  todo,       \* the scopes whose file it still has to write
  claims,     \* every claim returned to a caller
  grants,     \* every claim a durable transaction has charged
  released,   \* every claim a durable transaction has released
  clock,
  crashes

\* .pending-transaction.json does not exist.
NoTransaction == [kind |-> "none"]

lockVars == <<phase, call, claim, todo>>
vars == <<files, wal, lockVars, claims, grants, released, clock, crashes>>

ReserveCalls == [kind : {"reserve"}, attempt : AttemptID, policies : PolicySets]
ReleaseCalls == {[kind |-> "release", claim |-> c] : c \in claims}

Init ==
  /\ files = [s \in Scope |-> NoState]
  /\ wal = NoTransaction
  /\ phase = "free" /\ call = NoCall /\ claim = NoClaim /\ todo = {}
  /\ claims = {} /\ grants = {} /\ released = {}
  /\ clock = StartTime
  /\ crashes = 0

\* The lock is given up.
unlocked == phase' = "free" /\ call' = NoCall /\ claim' = NoClaim /\ todo' = {}

\* Mutant of TakeLock: a transaction that was left behind is not replayed.
TakeLockNoRecovery(c) ==
  /\ phase = "free"
  /\ c.kind = "reserve" => c.policies # {} /\ ~conflicting(c.policies)
  /\ call' = c /\ phase' = "deciding" /\ todo' = {}
  /\ UNCHANGED <<files, wal, claim, claims, grants, released, clock, crashes>>

\* Mutant of TakeLock: a transaction that was left behind is an error.
TakeLockOnlyClean(c) ==
  /\ phase = "free" /\ wal = NoTransaction
  /\ c.kind = "reserve" => c.policies # {} /\ ~conflicting(c.policies)
  /\ call' = c /\ phase' = "deciding" /\ todo' = {}
  /\ UNCHANGED <<files, wal, claim, claims, grants, released, clock, crashes>>

\* withAuthorityLockContext and readOperationQuotaTransaction: a transaction
\* that was left behind is to be committed before anything else is read.
TakeLock(c) ==
  /\ phase = "free"
  /\ c.kind = "reserve" => c.policies # {} /\ ~conflicting(c.policies)
  /\ call' = c
  /\ IF wal = NoTransaction
     THEN phase' = "deciding" /\ todo' = {}
     ELSE phase' = "recovering" /\ todo' = DOMAIN wal.states
  /\ UNCHANGED <<files, wal, claim, claims, grants, released, clock, crashes>>

\* commitOperationQuotaTransaction writes one scope file ...
WriteScope(s) ==
  /\ phase \in {"recovering", "committing"} /\ s \in todo
  /\ files' = [files EXCEPT ![s] = wal.states[s]]
  /\ todo' = todo \ {s}
  /\ UNCHANGED <<wal, phase, call, claim, claims, grants, released, clock, crashes>>

\* Mutant of removable: the transaction is removed before the last file is written.
removableEarly == phase \in {"recovering", "committing"} /\ \E s \in Scope : todo \subseteq {s}

\* ... and, once all are written, removes the transaction.
removable == phase \in {"recovering", "committing"} /\ todo = {}

\* A recovered call goes on to its own decision, a committed one returns.
RemoveTransaction ==
  /\ removable
  /\ wal' = NoTransaction
  /\ IF phase = "recovering"
     THEN phase' = "deciding" /\ UNCHANGED <<call, claim, todo, claims>>
     ELSE /\ unlocked
          /\ claims' = IF claim = NoClaim THEN claims ELSE claims \cup {claim}
  /\ UNCHANGED <<files, grants, released, clock, crashes>>

ClaimOf(a, policies, now) ==
  [attempt |-> a, at |-> now, policies |-> policies,
   leases |-> [s \in DOMAIN policies |-> grantedLease(files[s], policies[s], a, now)]]

\* validOperationQuotaTransaction: a reservation holds a lease in every scope, a
\* release in none.
validOperationQuotaTransaction(t) ==
  /\ DOMAIN t.states # {}
  /\ \A s \in DOMAIN t.states :
       (t.kind = "reserve") <=> \E l \in t.states[s].active : l.attempt = t.attempt

writeTransaction(t, c) ==
  /\ validOperationQuotaTransaction(t)
  /\ wal' = t
  /\ phase' = "committing" /\ todo' = DOMAIN t.states /\ claim' = c
  /\ UNCHANGED <<files, call, claims, clock, crashes>>

\* acquireManyWithClockContext, from reading the clock to the durable transaction.
Reserve ==
  /\ phase = "deciding" /\ call.kind = "reserve"
  /\ LET policies == normalizeOperationQuotaPolicies(call.policies)
         c == ClaimOf(call.attempt, policies, clock) IN
       /\ \A s \in DOMAIN policies : admits(files[s], policies[s], call.attempt, clock)
       /\ writeTransaction(
            [kind |-> "reserve", attempt |-> call.attempt,
             states |-> [s \in DOMAIN policies |->
                           nextOperationQuotaClaim(files[s], policies[s], call.attempt, clock)]], c)
       /\ grants' = grants \cup {c}
       /\ UNCHANGED released

\* releaseManyWithClockContext, likewise.
Release ==
  /\ phase = "deciding" /\ call.kind = "release"
  /\ LET c == call.claim IN
       /\ \A s \in DOMAIN c.leases : mayRelease(files[s], c.leases[s], clock)
       /\ writeTransaction(
            [kind |-> "release", attempt |-> c.attempt,
             states |-> [s \in DOMAIN c.leases |-> releasedState(files[s], c.leases[s], clock)]],
            NoClaim)
       /\ released' = released \cup {c}
       /\ UNCHANGED grants

refused ==
  IF call.kind = "reserve"
  THEN LET policies == normalizeOperationQuotaPolicies(call.policies) IN
         \E s \in DOMAIN policies : ~admits(files[s], policies[s], call.attempt, clock)
  ELSE \E s \in DOMAIN call.claim.leases : ~mayRelease(files[s], call.claim.leases[s], clock)

\* One scope refuses: the call returns its error and no scope is touched.
Refuse ==
  /\ phase = "deciding" /\ refused
  /\ unlocked
  /\ UNCHANGED <<files, wal, claims, grants, released, clock, crashes>>

\* The process dies, or a write fails and the call returns an error.
Crash ==
  /\ phase # "free" /\ crashes < MaxCrashes
  /\ crashes' = crashes + 1
  /\ unlocked
  /\ UNCHANGED <<files, wal, claims, grants, released, clock>>

SetClock(t) ==
  /\ clock' = t
  /\ UNCHANGED <<files, wal, lockVars, claims, grants, released, crashes>>

LockHolderStep ==
  (\E s \in Scope : WriteScope(s)) \/ RemoveTransaction \/ Reserve \/ Release \/ Refuse

Next ==
  \/ \E c \in ReserveCalls \cup ReleaseCalls : TakeLock(c)
  \/ LockHolderStep
  \/ Crash
  \/ \E t \in Time : SetClock(t)

Spec == Init /\ [][Next]_vars

\* Workers keep calling, and a call that holds the lock goes on until it is done
\* or dies.
FairSpec ==
  /\ Spec
  /\ WF_vars(\E c \in ReserveCalls : TakeLock(c))
  /\ WF_vars(LockHolderStep)

-----------------------------------------------------------------------------
\* What the scopes hold once a pending transaction is replayed.
effective ==
  [s \in Scope |->
     IF wal # NoTransaction /\ s \in DOMAIN wal.states THEN wal.states[s] ELSE files[s]]

Atomic == INSTANCE AtomicQuota WITH scopes <- effective

\* AcquireMany and ReleaseMany are atomic over all scopes of a call, whatever
\* crashes in between: the write-ahead transaction is the point at which a call
\* takes effect.
RefinesAtomicQuota == Atomic!Spec

\* Budgets are charged before a claim is returned: each scope file, not only the
\* transaction, has already counted every claim a caller has seen.
ChargedBeforeReturned ==
  \A c \in claims : \A s \in DOMAIN c.leases :
    /\ c \in grants
    /\ files[s] # NoState
    /\ files[s].generation >= c.leases[s].generation
    /\ files[s].lastClaimAt >= c.at

\* A transaction that a crash left behind is eventually replayed, by whichever
\* call comes next.
RecoveryCompletes == wal # NoTransaction ~> wal = NoTransaction
=============================================================================
