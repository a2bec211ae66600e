-------------------------- MODULE OperationPlanWorker --------------------------
(***************************************************************************)
(* ExecuteOne of internal/health/operation_plan_worker.go for one          *)
(* operation: workers (threads of one or of several scheduler processes)   *)
(* claim an attempt in the ledger, reserve archive capacity, take quota    *)
(* leases, run the probe child up to a deadline, archive its receipt and   *)
(* commit it to the ledger.  Every store call is one locked section, so    *)
(* one action; the stores are reduced to what the worker can observe of    *)
(* them (their own modules are OperationAttemptStore, OperationQuota and   *)
(* OperationHistoryStore).                                                 *)
(*                                                                         *)
(* Faults: a store call may fail before or after its effect is durable, a  *)
(* worker may crash between any two calls.  A crash does not end the       *)
(* child: it runs on until it is done or until its deadline, which the CLI *)
(* is given on its command line.                                           *)
(***************************************************************************)
EXTENDS OperationPlanProbe, Sequences, FiniteSets

CONSTANTS
  Worker,
  ProbeTime,        \* RequestTimeout + maxOperationPlanProbeProcessOverhead
  MaxProbeTime,     \* maxOperationPlanProbeDeadline
  AttemptLease,     \* config.AttemptLease
  QuotaLease,       \* config.QuotaLease
  MaxConcurrent,    \* the quota policy's concurrent leases
  HistoryCapacity,  \* records and reservations the archive may hold
  MaxAttempts,      \* bound: attempts begun
  MaxFaults,        \* bound: faults and crashes
  MaxTime           \* bound: the last instant of the model

\* newOperationPlanWorker refuses leases shorter than the probe deadline, and
\* validOperationProbeExpectation a request timeout longer than it.
ASSUME WorkerAssumption ==
  /\ ProbeTime \in 1..MaxProbeTime
  /\ AttemptLease \in Nat /\ AttemptLease >= MaxProbeTime
  /\ QuotaLease \in Nat /\ QuotaLease >= MaxProbeTime
  /\ {MaxConcurrent, HistoryCapacity, MaxAttempts, MaxFaults, MaxTime} \subseteq Nat

VARIABLES
  clock,
  faults,      \* faults so far
  attempts,    \* the ledger: attempt g is attempts[g]
  reserved,    \* the archive's reservations, by attempt
  records,     \* the archive: what the receipt of an attempt proves
  leases,      \* the quota authority's leases
  running,     \* the children that run, with their deadlines
  requested,   \* the attempts whose child sent its provider request
  worker       \* the workers' control state and locals

storeVars == <<attempts, reserved, records, leases>>
vars == <<clock, faults, storeVars, running, requested, worker>>

Idle == [pc |-> "idle"]
AttemptIds == 1..MaxAttempts

\* Another operation of the same quota scope may hold a lease.
Init ==
  /\ clock = 1 /\ faults = 0
  /\ attempts = <<>> /\ reserved = {} /\ records = {}
  /\ leases \in SUBSET {[attempt |-> 0, expiresAt |-> clock + QuotaLease]}
  /\ running = {} /\ requested = {}
  /\ worker = [w \in Worker |-> Idle]

goto(w, pc) == worker' = [worker EXCEPT ![w].pc = pc]
return(w) == worker' = [worker EXCEPT ![w] = Idle]

\* Injects one fault.
Fault == faults < MaxFaults /\ faults' = faults + 1
NoFault == faults' = faults

\* Attempt g holds the operation.
claimed(g) == g \in DOMAIN attempts /\ attempts[g].state = "claimed"

-----------------------------------------------------------------------------
(***************************************************************************)
(* The stores.  transitionClaim closes attempt g as `s' if it is still     *)
(* claimed; a transition that carries evidence finds an expired lease and  *)
(* closes the attempt as unknown instead.                                  *)
(***************************************************************************)
transition(g, s) ==
  attempts' = IF claimed(g) THEN [attempts EXCEPT ![g].state = s] ELSE attempts

withinLease(g, s) == IF clock < attempts[g].expiresAt THEN s ELSE "unknown"

liveLeases == {l \in leases : clock < l.expiresAt}

historyUsed == Cardinality(reserved) + Cardinality(records)

-----------------------------------------------------------------------------
(***************************************************************************)
(* BeginAttempt: a claim that ran out is closed as unknown and nothing     *)
(* else happens; a live claim refuses.  Whether the operation is due is    *)
(* the ledger's business: the worker may find it due at any time.          *)
(***************************************************************************)
BeginAttempt(w) ==
  /\ worker[w].pc = "idle"
  /\ Len(attempts) < MaxAttempts /\ clock + AttemptLease <= MaxTime
  /\ ~claimed(Len(attempts))
  /\ attempts' = Append(attempts, [state |-> "claimed", expiresAt |-> clock + AttemptLease])
  /\ worker' = [worker EXCEPT ![w] = [pc |-> "history_reservation", attempt |-> Len(attempts) + 1]]
  /\ UNCHANGED <<clock, faults, reserved, records, leases, running, requested>>

BeginFindsExpired(w) ==
  /\ worker[w].pc = "idle"
  /\ claimed(Len(attempts)) /\ clock >= attempts[Len(attempts)].expiresAt
  /\ attempts' = [attempts EXCEPT ![Len(attempts)].state = "unknown"]
  /\ UNCHANGED <<clock, faults, reserved, records, leases, running, requested, worker>>

(***************************************************************************)
(* history.Reserve.  A failed call may have stored its reservation, which  *)
(* its returned token says; the worker then cancels it before it defers.   *)
(***************************************************************************)
Reserve(w) ==
  /\ worker[w].pc = "history_reservation"
  /\ LET g == worker[w].attempt
         stores == reserved' = reserved \cup {g}
     IN  \/ historyUsed < HistoryCapacity /\ stores /\ NoFault /\ goto(w, "quota_acquire")
         \/ historyUsed >= HistoryCapacity /\ NoFault /\ reserved' = reserved /\ goto(w, "defer")
         \/ Fault /\ reserved' = reserved /\ goto(w, "defer")
         \/ historyUsed < HistoryCapacity /\ stores /\ Fault /\ goto(w, "cancel_or_return")
  /\ UNCHANGED <<clock, attempts, records, leases, running, requested>>

(***************************************************************************)
(* quotas.acquireManyLive: all leases or none, expired ones purged.  A     *)
(* failed call may have charged the quota (its transaction is recovered    *)
(* later); the worker gets no claim to release.                            *)
(***************************************************************************)
AcquireQuota(w) ==
  /\ worker[w].pc = "quota_acquire"
  /\ LET lease == [attempt |-> worker[w].attempt, expiresAt |-> clock + QuotaLease]
         free == Cardinality(liveLeases) < MaxConcurrent
     IN  \/ /\ free /\ NoFault /\ leases' = liveLeases \cup {lease}
            /\ worker' = [worker EXCEPT ![w] =
                 [pc |-> "execution_deadline", attempt |-> lease.attempt, quotaExpiresAt |-> lease.expiresAt]]
         \/ ~free /\ NoFault /\ leases' = leases /\ goto(w, "quota_acquire_cleanup")
         \/ Fault /\ leases' = leases /\ goto(w, "quota_acquire_cleanup")
         \/ free /\ Fault /\ leases' = liveLeases \cup {lease} /\ goto(w, "quota_acquire_cleanup")
  /\ UNCHANGED <<clock, attempts, reserved, records, running, requested>>

(***************************************************************************)
(* cancelOperationHistoryReservation.  After a failed quota call the       *)
(* attempt is deferred whether or not the cancel succeeded; elsewhere a    *)
(* failed cancel returns at once and leaves the attempt claimed.           *)
(***************************************************************************)
CancelReservation(w) ==
  /\ worker[w].pc \in {"quota_acquire_cleanup", "cancel_or_return"}
  /\ \/ NoFault /\ reserved' = reserved \ {worker[w].attempt} /\ goto(w, "defer")
     \/ /\ Fault /\ reserved' = reserved
        /\ IF worker[w].pc = "quota_acquire_cleanup" THEN goto(w, "defer") ELSE return(w)
  /\ UNCHANGED <<clock, attempts, records, leases, running, requested>>

\* deferBeforeDispatch: RecordPreDispatchDeferred.
Defer(w) ==
  /\ worker[w].pc = "defer"
  /\ \/ NoFault /\ transition(worker[w].attempt, withinLease(worker[w].attempt, "deferred"))
     \/ Fault /\ attempts' = attempts
  /\ return(w)
  /\ UNCHANGED <<clock, reserved, records, leases, running, requested>>

(***************************************************************************)
(* operationPlanProbeExecutionDeadline: the child must be able to end      *)
(* before the attempt's lease and before every quota lease.                *)
(***************************************************************************)
\* Mutant of deadlineFeasible: the attempt's lease is not compared.
deadlineFeasibleQuotaOnly(deadline, attemptExpiresAt, quotaExpiresAt) ==
  deadline - clock <= MaxProbeTime /\ deadline < quotaExpiresAt

deadlineFeasible(deadline, attemptExpiresAt, quotaExpiresAt) ==
  deadline - clock <= MaxProbeTime /\ deadline < attemptExpiresAt /\ deadline < quotaExpiresAt

\* Mutant of afterInfeasible: the reservation is not cancelled.
afterInfeasibleDefers(g) == [pc |-> "defer", attempt |-> g]

\* An infeasible deadline defers the attempt once its reservation is cancelled.
afterInfeasible(g) == [pc |-> "cancel_or_return", attempt |-> g]

ExecutionDeadline(w) ==
  /\ worker[w].pc = "execution_deadline"
  /\ LET g == worker[w].attempt
         deadline == clock + ProbeTime
         released == {l \in leases : l.attempt # g}
     IN  IF deadlineFeasible(deadline, attempts[g].expiresAt, worker[w].quotaExpiresAt)
           THEN /\ worker' = [worker EXCEPT ![w] = [pc |-> "runner", attempt |-> g, deadline |-> deadline]]
                /\ NoFault /\ leases' = leases
           ELSE /\ \/ NoFault /\ leases' = released
                   \/ Fault /\ leases' = leases
                /\ worker' = [worker EXCEPT ![w] = afterInfeasible(g)]
  /\ UNCHANGED <<clock, attempts, reserved, records, running, requested>>

(***************************************************************************)
(* OperationPlanProbeRunner.Run.  The preflight may fail (the executable,  *)
(* the credential binding or the receipt directory is not as it must be);  *)
(* it does fail once the deadline has passed.                              *)
(***************************************************************************)
StartChild(w) ==
  /\ worker[w].pc = "runner"
  /\ \/ /\ clock < worker[w].deadline /\ NoFault
        /\ running' = running \cup {[attempt |-> worker[w].attempt, deadline |-> worker[w].deadline]}
        /\ goto(w, "child")
     \/ clock >= worker[w].deadline /\ NoFault /\ running' = running /\ goto(w, "fail")
     \/ Fault /\ running' = running /\ goto(w, "fail")
  /\ UNCHANGED <<clock, storeVars, requested>>

\* The CLI sends its one provider request.
ChildRequests(c) ==
  /\ c \in running /\ c.attempt \notin requested /\ clock < c.deadline
  /\ requested' = requested \cup {c.attempt}
  /\ UNCHANGED <<clock, faults, storeVars, running, worker>>

waitsFor(w, c) == worker[w].pc = "child" /\ worker[w].attempt = c.attempt

\* A receipt that says truthfully whether the request was sent reaches the
\* worker that waits for it, which makes an archive record of it in memory
\* (newRecord) and keeps what the remaining calls can tell of the receipt.
ChildReports(w, c, r) ==
  /\ c \in running /\ waitsFor(w, c)
  /\ r.requestStarted <=> c.attempt \in requested
  /\ running' = running \ {c}
  /\ worker' = [worker EXCEPT ![w] =
       IF ValidateStoredRecord(r)
         THEN [pc |-> "history_append", attempt |-> c.attempt,
               proves |-> committedState(r), accepted |-> ledgerAccepts(r),
               badTimes |-> badResultTimes(r)]
         ELSE [pc |-> "history_validate", attempt |-> c.attempt]]
  /\ UNCHANGED <<clock, faults, storeVars, requested>>

\* The child is killed at its deadline, exits without a receipt that
\* validates, or nobody waits for it any more.
ChildLost(c) ==
  /\ c \in running
  /\ running' = running \ {c}
  /\ worker' = [w \in Worker |-> IF waitsFor(w, c) THEN [pc |-> "fail", attempt |-> c.attempt] ELSE worker[w]]
  /\ UNCHANGED <<clock, faults, storeVars, requested>>

\* Mutant of ArchiveReceipt: the error of an append is ignored.
ArchiveReceiptUnchecked(w) ==
  /\ worker[w].pc = "history_append"
  /\ LET g == worker[w].attempt
     IN  \/ /\ NoFault /\ reserved' = reserved \ {g}
            /\ records' = records \cup {[attempt |-> g, proves |-> worker[w].proves]}
         \/ Fault /\ UNCHANGED <<reserved, records>>
  /\ goto(w, "attempt_complete")
  /\ UNCHANGED <<clock, attempts, leases, running, requested>>

(***************************************************************************)
(* AppendValidated.  A failed append may have stored the record; the       *)
(* attempt is then unknown although its receipt is archived.               *)
(***************************************************************************)
ArchiveReceipt(w) ==
  /\ worker[w].pc = "history_append"
  /\ LET g == worker[w].attempt
         appends == /\ g \in reserved /\ reserved' = reserved \ {g}
                    /\ records' = records \cup {[attempt |-> g, proves |-> worker[w].proves]}
         skips == UNCHANGED <<reserved, records>>
     IN  \/ appends /\ NoFault /\ goto(w, "attempt_complete")
         \/ appends /\ Fault /\ goto(w, "fail")
         \/ Fault /\ skips /\ goto(w, "fail")
  /\ UNCHANGED <<clock, attempts, leases, running, requested>>

(***************************************************************************)
(* RecordBlockedAttempt, RecordRequestStarted or CompleteAttempt           *)
(* FromValidatedHistory: a receipt the entry point refuses changes         *)
(* nothing.  Within the lease, a response whose times do not fit makes a   *)
(* failure without a receipt, which writeState refuses: the attempt stays  *)
(* claimed.                                                                *)
(***************************************************************************)
CompleteAttempt(w) ==
  /\ worker[w].pc = "attempt_complete"
  /\ LET g == worker[w].attempt
         writes == /\ worker[w].accepted
                   /\ worker[w].badTimes => clock >= attempts[g].expiresAt
     IN  \/ NoFault /\ writes /\ transition(g, withinLease(g, worker[w].proves))
         \/ NoFault /\ ~writes /\ attempts' = attempts
         \/ Fault /\ attempts' = attempts
  /\ goto(w, "quota_release")
  /\ UNCHANGED <<clock, reserved, records, leases, running, requested>>

\* The failure path after the child (the runner's error, a receipt newRecord
\* refuses, a failed append): failAttempt, its own failure ignored.
FailAttempt(w) ==
  /\ worker[w].pc \in {"fail", "history_validate"}
  /\ \/ NoFault /\ transition(worker[w].attempt, "unknown")
     \/ Fault /\ attempts' = attempts
  /\ goto(w, "quota_release")
  /\ UNCHANGED <<clock, reserved, records, leases, running, requested>>

\* releaseQuotaClaims, on every path that took the leases.
ReleaseQuota(w) ==
  /\ worker[w].pc = "quota_release"
  /\ \/ NoFault /\ leases' = {l \in leases : l.attempt # worker[w].attempt}
     \/ Fault /\ leases' = leases
  /\ return(w)
  /\ UNCHANGED <<clock, attempts, reserved, records, running, requested>>

\* The worker's process dies; its child and its stores' contents stay.
Crash(w) ==
  /\ worker[w] # Idle /\ Fault
  /\ return(w)
  /\ UNCHANGED <<clock, storeVars, running, requested>>

\* A child does not outlive its deadline: the runner kills it, or it stops by
\* itself when nobody is left to kill it.
Tick ==
  /\ clock < MaxTime /\ \A c \in running : clock < c.deadline
  /\ clock' = clock + 1
  /\ UNCHANGED <<faults, storeVars, running, requested, worker>>

WorkerStep(w) ==
  \/ Reserve(w) \/ AcquireQuota(w) \/ CancelReservation(w) \/ Defer(w)
  \/ ExecutionDeadline(w) \/ StartChild(w) \/ ArchiveReceipt(w)
  \/ CompleteAttempt(w) \/ FailAttempt(w) \/ ReleaseQuota(w)

Next ==
  \/ \E w \in Worker : BeginAttempt(w) \/ BeginFindsExpired(w) \/ WorkerStep(w) \/ Crash(w)
  \/ \E c \in running : ChildRequests(c) \/ ChildLost(c)
  \/ \E w \in Worker, c \in running, r \in RunnerReceipts : ChildReports(w, c, r)
  \/ Tick

Spec == Init /\ [][Next]_vars

-----------------------------------------------------------------------------
(***************************************************************************)
(* The provider never sees two requests of this operation at once, also    *)
(* when a worker died and its child lives on, and a child runs only under  *)
(* a quota lease that has not expired: its deadline lies before the expiry *)
(* of the claim that bars the next attempt and of the slot that it uses    *)
(* (operation_plan_worker.go:523-535).                                     *)
(***************************************************************************)
RequestCovered ==
  /\ Cardinality(running) <= 1
  /\ \A c \in running : \E l \in liveLeases : l.attempt = c.attempt

(***************************************************************************)
(* The ledger never misstates what happened, whatever failed in between:   *)
(* `deferred' and `failed' mean that no request left, `observed' and       *)
(* `request_started' that one did, and every attempt closed from a receipt *)
(* has that receipt in the archive (operation_plan_worker.go:350-405).     *)
(***************************************************************************)
EvidenceTruthful ==
  \A g \in 1..Len(attempts) :
    LET s == attempts[g].state IN
      /\ s \in {"deferred", "failed"} => g \notin requested
      /\ s \in {"observed", "request_started"} => g \in requested
      /\ s \in {"observed", "request_started", "failed"} =>
           [attempt |-> g, proves |-> s] \in records

(***************************************************************************)
(* Three parts of the code validate a receipt: the runner, the archive and *)
(* the ledger's entry point the worker picks.  The archive never refuses   *)
(* what the runner accepted.  Without a failing call and within the lease  *)
(* the ledger commits it too, with one exception: a response dated in the  *)
(* second before the attempt or in the second after its receipt            *)
(* (operation_plan_probe.go:517, operation_attempt_store.go:444) is        *)
(* archived, and its attempt is left claimed, never closed as something    *)
(* else.                                                                   *)
(***************************************************************************)
ReceiptCommits ==
  [][\A w \in Worker :
       /\ worker'[w].pc # "history_validate"
       /\ /\ worker[w].pc = "attempt_complete" /\ worker'[w].pc = "quota_release" /\ faults' = faults
          /\ claimed(worker[w].attempt) /\ clock < attempts[worker[w].attempt].expiresAt
          => attempts'[worker[w].attempt].state =
               IF worker[w].badTimes THEN "claimed" ELSE worker[w].proves]_vars

(***************************************************************************)
(* Every early return gives back what was taken before it: while no call   *)
(* has failed and no worker has died, a quota lease belongs to a worker    *)
(* that runs, and so does a reservation, unless the outcome of its attempt *)
(* is unknown and its receipt may still turn up                            *)
(* (operation_plan_worker.go:302-348).                                     *)
(***************************************************************************)
inProgress(g) == \E w \in Worker : worker[w] # Idle /\ worker[w].attempt = g

NothingLeaks ==
  faults = 0 =>
    /\ \A g \in reserved : inProgress(g) \/ attempts[g].state = "unknown"
    /\ \A l \in leases : l.attempt = 0 \/ inProgress(l.attempt)
=============================================================================
