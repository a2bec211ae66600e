------------------------ MODULE OperationAttemptStore ------------------------
(***************************************************************************)
(* The durable per-operation attempt ledger and delivery outbox of         *)
(* internal/health/operation_attempt_store.go.                             *)
(*                                                                         *)
(* Every operation has its own state file, replaced atomically under one   *)
(* shared file lock, so one action of this module is one locked section    *)
(* and one operation's file is modelled.  Callers keep the claims they are *)
(* handed: claims and deliveryClaims hold every claim ever returned, and a *)
(* caller may present any of them at any later time, any number of times,  *)
(* or (a crash, a lost process) never.  The time a caller passes was read  *)
(* before it waited for the lock, so it may lag the clock by MaxStale.     *)
(*                                                                         *)
(* Time 0 is Go's zero time; the clock starts at 1.                        *)
(***************************************************************************)
EXTENDS Integers, Sequences

CONSTANTS
  Binding,              \* Registry plan bindings the operation may be run under
  PlanOf,               \* binding -> its plan SHA (a binding without its Gatus key)
  PeriodOf,             \* binding -> its observation period
  NoPlan,               \* the plan SHA of a file that does not exist yet
  MaxHistory,           \* maxOperationAttemptHistory
  AttemptLease,         \* the lease of an attempt claim
  DeliveryLease,        \* the lease of a delivery claim
  DeferredRetryDelay,   \* operationAttemptDeferredRetryDelay
  MaxDeliveryAttempts,  \* the delivery attempts the validator accepts
  MaxStale,             \* bound: how far a caller's time may lag the clock
  MaxTime               \* bound: the last instant of the model

ASSUME BindingAssumption ==
  /\ Binding # {}
  /\ PeriodOf \in [Binding -> Nat \ {0}]
  /\ \A b \in Binding : PlanOf[b] # NoPlan
  /\ \A b, c \in Binding : PlanOf[b] = PlanOf[c] => PeriodOf[b] = PeriodOf[c]

ASSUME BoundAssumption ==
  /\ MaxHistory \in Nat \ {0}
  /\ AttemptLease \in Nat \ {0}
  /\ DeliveryLease \in Nat \ {0}
  /\ DeferredRetryDelay \in Nat \ {0}
  /\ MaxDeliveryAttempts \in Nat
  /\ MaxStale \in Nat
  /\ MaxTime \in Nat

VARIABLES
  attempts,            \* state.Attempts, oldest first
  generation,          \* state.Generation
  currentPlan,         \* state.CurrentPlanSHA256
  everStarted,         \* state.EverRequestStarted
  currentPlanStarted,  \* state.CurrentPlanEverRequestStarted
  claims,              \* every OperationAttemptClaim handed to a caller
  deliveryClaims,      \* every OperationDeliveryClaim handed to a caller
  clock                \* wall-clock time

fileVars == <<attempts, generation, currentPlan, everStarted, currentPlanStarted>>
vars == <<fileVars, claims, deliveryClaims, clock>>

-----------------------------------------------------------------------------
(***************************************************************************)
(* The stored records.  `reason' abstracts BlockReason, DeferredStage and  *)
(* DeferredCategory to what the code tells apart: a validated local block, *)
(* a deferral without retry authority, and a quota-window drain.  `result' *)
(* abstracts Result to whether it is a Gatus-deliverable observation or a  *)
(* response whose semantics are unestablished.  GatusReceivedAt and        *)
(* GatusResultState are set with, and only with, the readback_verified     *)
(* state, which stands for them.                                           *)
(***************************************************************************)
AttemptStates == {"claimed", "request_started", "observed", "unknown", "failed", "deferred"}
DeliveryStates == {"not_ready", "pending", "acknowledged", "readback_verified", "not_applicable"}
DeferredReasons == {"hold", "quota_window_draining"}
Results == {"deliverable", "unestablished"}

Attempt ==
  [binding : Binding, generation : Nat, startedAt : Nat, leaseExpiresAt : Nat,
   state : AttemptStates, finishedAt : Nat,
   requestStarted : {"nil", "no", "yes"}, receiptValidated : BOOLEAN,
   reason : {"none", "blocked"} \cup DeferredReasons,
   result : {"nil"} \cup Results, receivedAt : Nat,
   deliveryState : DeliveryStates, deliveryGeneration : Nat,
   deliveryStartedAt : Nat, deliveryAckAt : Nat]

Claim == [binding : Binding, generation : Nat, startedAt : Nat, expiresAt : Nat]

\* claimedAt is the time the claim was granted; the code keeps it only in the
\* attempt, the claim carries it here so that properties can refer to it.
DeliveryClaim == [attemptGeneration : Nat, deliveryGeneration : Nat, claimedAt : Nat]

NewAttempt(b, g, now) ==
  [binding |-> b, generation |-> g, startedAt |-> now, leaseExpiresAt |-> now + AttemptLease,
   state |-> "claimed", finishedAt |-> 0,
   requestStarted |-> "nil", receiptValidated |-> FALSE,
   reason |-> "none", result |-> "nil", receivedAt |-> 0,
   deliveryState |-> "not_ready", deliveryGeneration |-> 0,
   deliveryStartedAt |-> 0, deliveryAckAt |-> 0]

\* A delivery that is over: nothing is owed to Gatus any more.
Settled(a) == a.deliveryState \in {"readback_verified", "not_applicable"}

-----------------------------------------------------------------------------
(***************************************************************************)
(* validOperationAttemptState: what writeState persists and readState      *)
(* accepts.                                                                *)
(***************************************************************************)
validEvidence(a) ==
  CASE a.state = "claimed" ->
         /\ a.finishedAt = 0 /\ a.deliveryState = "not_ready" /\ ~a.receiptValidated
         /\ a.requestStarted = "nil" /\ a.result = "nil" /\ a.reason = "none"
    [] a.state = "observed" ->
         /\ a.result # "nil" /\ a.receivedAt # 0 /\ a.finishedAt >= a.receivedAt
         /\ a.receiptValidated /\ a.requestStarted = "yes" /\ a.reason = "none"
    [] a.state = "request_started" ->
         a.result = "nil" /\ a.receiptValidated /\ a.requestStarted = "yes" /\ a.reason = "none"
    [] a.state = "failed" ->
         a.result = "nil" /\ a.receiptValidated /\ a.requestStarted = "no" /\ a.reason = "blocked"
    [] a.state = "deferred" ->
         /\ a.result = "nil" /\ ~a.receiptValidated /\ a.requestStarted = "no"
         /\ a.reason \in DeferredReasons /\ a.deliveryState = "not_ready"
    [] a.state = "unknown" ->
         /\ a.result = "nil" /\ ~a.receiptValidated /\ a.requestStarted = "nil"
         /\ a.reason = "none" /\ a.deliveryState = "not_ready"

validDelivery(a) ==
  /\ a.deliveryGeneration <= MaxDeliveryAttempts
  /\ a.deliveryState \in {"pending", "acknowledged", "readback_verified"} =>
       a.state = "observed" /\ a.deliveryGeneration >= 1
  /\ a.deliveryState = "pending" =>
       a.deliveryStartedAt # 0 /\ a.deliveryStartedAt >= a.receivedAt
  /\ a.deliveryState \in {"acknowledged", "readback_verified"} =>
       /\ a.deliveryAckAt # 0
       /\ a.deliveryAckAt >= a.deliveryStartedAt /\ a.deliveryAckAt >= a.receivedAt
  /\ a.deliveryState = "not_applicable" =>
       /\ a.result = "unestablished" /\ a.deliveryGeneration = 0
       /\ a.deliveryStartedAt = 0 /\ a.deliveryAckAt = 0

validOperationAttemptState(as, gen, plan, ever, curEver) ==
  /\ gen # 0 /\ Len(as) \in 1..MaxHistory
  /\ LET latest == as[Len(as)] IN
       /\ plan = PlanOf[latest.binding]
       /\ latest.requestStarted = "yes" => curEver
       /\ latest.generation <= gen
  /\ curEver => ever
  /\ \A i \in DOMAIN as :
       /\ as[i].generation > (IF i = 1 THEN 0 ELSE as[i - 1].generation)
       /\ as[i].generation <= gen
       /\ as[i].startedAt # 0 /\ as[i].leaseExpiresAt >= as[i].startedAt
       /\ as[i].state # "claimed" =>
            as[i].finishedAt # 0 /\ as[i].finishedAt >= as[i].startedAt
       /\ validEvidence(as[i])
       /\ as[i].requestStarted = "yes" => ever
       /\ validDelivery(as[i])

\* writeState: an invalid state is refused and nothing is persisted.  Every
\* caller has bumped the generation by one.
writeState(as, plan, ever, curEver) ==
  IF validOperationAttemptState(as, generation + 1, plan, ever, curEver)
  THEN /\ attempts' = as
       /\ generation' = generation + 1
       /\ currentPlan' = plan
       /\ everStarted' = ever
       /\ currentPlanStarted' = curEver
  ELSE UNCHANGED fileVars

\* The same write changing one attempt and nothing else of the state.
writeAttempt(i, a) ==
  writeState([attempts EXCEPT ![i] = a], currentPlan, everStarted, currentPlanStarted)

-----------------------------------------------------------------------------
\* Init: no state file exists for the operation.
Init ==
  /\ attempts = << >>
  /\ generation = 0
  /\ currentPlan = NoPlan
  /\ everStarted = FALSE
  /\ currentPlanStarted = FALSE
  /\ claims = {}
  /\ deliveryClaims = {}
  /\ clock = 1

\* The times a caller that is only now granted the lock may have read.
SampledNow == {t \in 1..clock : clock - t <= MaxStale}

Tick ==
  /\ clock < MaxTime
  /\ clock' = clock + 1
  /\ UNCHANGED <<fileVars, claims, deliveryClaims>>

-----------------------------------------------------------------------------
(***************************************************************************)
(* BeginAttempt.                                                           *)
(***************************************************************************)
maxPeriod(b, c) == IF PeriodOf[b] > PeriodOf[c] THEN PeriodOf[b] ELSE PeriodOf[c]

\* Mutant of hasRetryableQuotaWindowDrain: any deferral may be retried early.
retryableAnyDeferral(latest, b, now) ==
  latest.binding = b /\ latest.state = "deferred" /\ latest.finishedAt <= now

hasRetryableQuotaWindowDrain(latest, b, now) ==
  /\ latest.binding = b
  /\ latest.state = "deferred"
  /\ latest.reason = "quota_window_draining"
  /\ latest.finishedAt < latest.leaseExpiresAt
  /\ latest.finishedAt <= now

dueForBinding(latest, b, now) ==
  IF hasRetryableQuotaWindowDrain(latest, b, now)
  THEN now >= latest.finishedAt + DeferredRetryDelay
  ELSE now >= latest.startedAt + maxPeriod(latest.binding, b)

\* Mutant of pinned: an acknowledged summary counts as delivered.
pinnedUntilAcknowledged(a) ==
  a.state = "unknown" \/ (a.state = "observed" /\ a.deliveryState \in {"not_ready", "pending"})

\* The oldest attempt may not be rotated out of a full ledger.
pinned(a) == a.state = "unknown" \/ (a.state = "observed" /\ ~Settled(a))

\* Mutant of markUnknown: FinishedAt is forgotten.
markUnknownUnfinished(a, now) == [a EXCEPT !.state = "unknown"]

markUnknown(a, now) == [a EXCEPT !.state = "unknown", !.finishedAt = now]

\* ErrOperationAttemptAmbiguous: an expired claim is closed as unknown and no
\* new claim is granted by this call.
BeginFindsExpired(now) ==
  /\ attempts # << >>
  /\ LET latest == attempts[Len(attempts)] IN
       /\ latest.state = "claimed"
       /\ now >= latest.leaseExpiresAt
       /\ writeAttempt(Len(attempts), markUnknown(latest, now))
  /\ UNCHANGED <<claims, deliveryClaims, clock>>

\* Mutant of mayBegin: a live claim does not hold the operation.
mayBeginWhileClaimed(b, now) ==
  /\ attempts # << >> => dueForBinding(attempts[Len(attempts)], b, now)
  /\ Len(attempts) >= MaxHistory => ~pinned(attempts[1])

mayBegin(b, now) ==
  /\ attempts # << >> =>
       LET latest == attempts[Len(attempts)] IN
         latest.state # "claimed" /\ dueForBinding(latest, b, now)
  /\ Len(attempts) >= MaxHistory => ~pinned(attempts[1])

rotated ==
  IF Len(attempts) >= MaxHistory
  THEN SubSeq(attempts, Len(attempts) - MaxHistory + 2, Len(attempts))
  ELSE attempts

\* Mutant of carriedStarted: a plan change does not reset the flag.
carriedStartedAcrossPlans(b) == currentPlanStarted

\* CurrentPlanEverRequestStarted starts afresh with a new plan.
carriedStarted(b) == currentPlanStarted /\ currentPlan = PlanOf[b]

BeginGrantsClaim(b, now) ==
  /\ now + AttemptLease <= MaxTime  \* bound: the lease ends within the model
  /\ mayBegin(b, now)
  /\ LET g == generation + 1
         as == Append(rotated, NewAttempt(b, g, now)) IN
       /\ validOperationAttemptState(as, g, PlanOf[b], everStarted, carriedStarted(b))
       /\ writeState(as, PlanOf[b], everStarted, carriedStarted(b))
       /\ claims' = claims \cup {[binding |-> b, generation |-> g, startedAt |-> now,
                                  expiresAt |-> now + AttemptLease]}
  /\ UNCHANGED <<deliveryClaims, clock>>

BeginAttempt(b, now) == BeginFindsExpired(now) \/ BeginGrantsClaim(b, now)

-----------------------------------------------------------------------------
(***************************************************************************)
(* The transitions of a claimed attempt.                                   *)
(***************************************************************************)

\* Mutant of holds: an attempt that was closed meanwhile is not fenced.
holdsClosed(c, i) ==
  attempts[i].generation = c.generation /\ attempts[i].binding = c.binding

\* transitionClaimContext: the claim must still name a claimed attempt.
holds(c, i) ==
  /\ attempts[i].generation = c.generation
  /\ attempts[i].state = "claimed"
  /\ attempts[i].binding = c.binding
  /\ attempts[i].startedAt = c.startedAt
  /\ attempts[i].leaseExpiresAt = c.expiresAt

\* Mutant of leaseExpired: the last instant of the lease still counts.
leaseExpiredLate(a, now) == now > a.leaseExpiresAt

leaseExpired(a, now) == now >= a.leaseExpiresAt

\* Every transition but failAttempt: after the lease it records an unknown
\* outcome (and returns ErrOperationAttemptFenced), before it what the caller
\* reports.  `started' tells whether that is evidence of a provider request.
transitionClaim(c, i, now, new, started) ==
  /\ holds(c, i)
  /\ IF leaseExpired(attempts[i], now)
     THEN writeAttempt(i, markUnknown(attempts[i], now))
     ELSE writeState([attempts EXCEPT ![i] = new], currentPlan,
                     everStarted \/ started,
                     \/ currentPlanStarted
                     \/ started /\ currentPlan = PlanOf[attempts[i].binding])
  /\ UNCHANGED <<claims, deliveryClaims, clock>>

badResultTimes(a, observedAt, receivedAt, now) ==
  \/ observedAt < a.startedAt \/ observedAt > now
  \/ receivedAt # 0 /\ (receivedAt < observedAt \/ receivedAt > now)

markObserved(a, receivedAt, result, now) ==
  [a EXCEPT !.state = "observed", !.receiptValidated = TRUE, !.requestStarted = "yes",
            !.finishedAt = now, !.result = result,
            !.receivedAt = IF receivedAt = 0 THEN now ELSE receivedAt,
            !.deliveryState = IF result = "unestablished" THEN "not_applicable" ELSE "not_ready"]

markBadTimes(a, now) == [a EXCEPT !.state = "failed", !.finishedAt = now]

markRequestStarted(a, now) ==
  [a EXCEPT !.state = "request_started", !.receiptValidated = TRUE,
            !.requestStarted = "yes", !.finishedAt = now]

markBlocked(a, now) ==
  [a EXCEPT !.state = "failed", !.receiptValidated = TRUE, !.requestStarted = "no",
            !.reason = "blocked", !.finishedAt = now]

markDeferred(a, reason, now) ==
  [a EXCEPT !.state = "deferred", !.requestStarted = "no", !.reason = reason, !.finishedAt = now]

\* completeAttemptContext.  A result whose times do not fit is turned into a
\* failure without a receipt, which writeState then refuses.
CompleteAttempt(c, observedAt, receivedAt, result, now) ==
  \E i \in DOMAIN attempts :
    LET bad == badResultTimes(attempts[i], observedAt, receivedAt, now)
    IN  transitionClaim(c, i, now,
          IF bad THEN markBadTimes(attempts[i], now)
                 ELSE markObserved(attempts[i], receivedAt, result, now),
          ~bad)

RecordRequestStarted(c, now) ==
  \E i \in DOMAIN attempts :
    transitionClaim(c, i, now, markRequestStarted(attempts[i], now), TRUE)

RecordBlockedAttempt(c, now) ==
  \E i \in DOMAIN attempts :
    transitionClaim(c, i, now, markBlocked(attempts[i], now), FALSE)

RecordPreDispatchDeferred(c, reason, now) ==
  \E i \in DOMAIN attempts :
    transitionClaim(c, i, now, markDeferred(attempts[i], reason, now), FALSE)

\* failAttemptContext has no lease check: unknown is unknown at any time.
FailAttempt(c, now) ==
  /\ \E i \in DOMAIN attempts :
       holds(c, i) /\ writeAttempt(i, markUnknown(attempts[i], now))
  /\ UNCHANGED <<claims, deliveryClaims, clock>>

-----------------------------------------------------------------------------
(***************************************************************************)
(* The Gatus outbox.                                                       *)
(***************************************************************************)

\* Mutant of earlierUndelivered: only a delivery under way counts.
earlierPending(i) == \E k \in 1..(i - 1) : attempts[k].deliveryState = "pending"

\* An earlier observation is still owed to Gatus.
earlierUndelivered(i) ==
  \E k \in 1..(i - 1) : attempts[k].state = "observed" /\ ~Settled(attempts[k])

\* Mutants of mayClaimDelivery: a pending delivery is reclaimed at once, and an
\* acknowledged one is delivered again.
mayClaimDeliveryNoLease(i, now) ==
  LET a == attempts[i] IN
    /\ a.state = "observed" /\ now >= a.receivedAt
    /\ a.deliveryState \in {"not_ready", "pending"}
    /\ ~earlierUndelivered(i)

mayClaimDeliveryAcknowledged(i, now) ==
  LET a == attempts[i] IN
    /\ a.state = "observed" /\ now >= a.receivedAt
    /\ ~Settled(a)
    /\ ~earlierUndelivered(i)
    /\ a.deliveryState = "pending" => now >= a.deliveryStartedAt + DeliveryLease

mayClaimDelivery(i, now) ==
  LET a == attempts[i] IN
    /\ a.state = "observed" /\ now >= a.receivedAt
    /\ a.deliveryState \in {"not_ready", "pending"}
    /\ ~earlierUndelivered(i)
    /\ a.deliveryState = "pending" => now >= a.deliveryStartedAt + DeliveryLease

\* The write is refused once the attempt has used up its delivery attempts; the
\* claim is returned only after the write.
ClaimDelivery(i, now) ==
  LET a == attempts[i] IN
    /\ mayClaimDelivery(i, now)
    /\ a.deliveryGeneration < MaxDeliveryAttempts
    /\ writeAttempt(i, [a EXCEPT !.deliveryState = "pending", !.deliveryStartedAt = now,
                                 !.deliveryGeneration = @ + 1])
    /\ deliveryClaims' = deliveryClaims \cup
         {[attemptGeneration |-> a.generation, deliveryGeneration |-> a.deliveryGeneration + 1,
           claimedAt |-> now]}
    /\ UNCHANGED <<claims, clock>>

acknowledges(d, i) ==
  /\ attempts[i].generation = d.attemptGeneration
  /\ attempts[i].deliveryState = "pending"
  /\ attempts[i].deliveryGeneration = d.deliveryGeneration

AcknowledgeDelivery(d, responseAt) ==
  /\ \E i \in DOMAIN attempts :
       /\ acknowledges(d, i)
       /\ responseAt >= attempts[i].deliveryStartedAt
       /\ writeAttempt(i, [attempts[i] EXCEPT !.deliveryState = "acknowledged",
                                              !.deliveryAckAt = responseAt])
  /\ UNCHANGED <<claims, deliveryClaims, clock>>

\* RecordGatusReadback names the attempt, not the delivery claim.
RecordGatusReadback(i, receivedAt) ==
  /\ attempts[i].deliveryState = "acknowledged"
  /\ receivedAt >= attempts[i].deliveryAckAt
  /\ writeAttempt(i, [attempts[i] EXCEPT !.deliveryState = "readback_verified"])
  /\ UNCHANGED <<claims, deliveryClaims, clock>>

-----------------------------------------------------------------------------
ClaimStep(c, now) ==
  \/ \E observedAt \in 1..(clock + 1), receivedAt \in 0..(clock + 1), r \in Results :
       CompleteAttempt(c, observedAt, receivedAt, r, now)
  \/ RecordRequestStarted(c, now)
  \/ RecordBlockedAttempt(c, now)
  \/ \E reason \in DeferredReasons : RecordPreDispatchDeferred(c, reason, now)
  \/ FailAttempt(c, now)

DeliveryStep(now) ==
  \/ \E i \in DOMAIN attempts : ClaimDelivery(i, now) \/ RecordGatusReadback(i, now)
  \/ \E d \in deliveryClaims : AcknowledgeDelivery(d, now)

Next ==
  \/ Tick
  \/ \E now \in SampledNow :
       \/ \E b \in Binding : BeginAttempt(b, now)
       \/ \E c \in claims : ClaimStep(c, now)
       \/ DeliveryStep(now)

Spec == Init /\ [][Next]_vars

\* The scheduler keeps polling due operations, and time passes.
Fairness == WF_vars(Tick) /\ WF_vars(\E now \in SampledNow, b \in Binding : BeginAttempt(b, now))
FairSpec == Spec /\ Fairness

-----------------------------------------------------------------------------
(***************************************************************************)
(* Properties.                                                             *)
(***************************************************************************)

\* Type correctness: the ledger holds well-formed attempts, and the claims handed
\* out name generations the state file has persisted.
TypeOK ==
  /\ attempts \in Seq(Attempt)
  /\ generation \in Nat
  /\ currentPlan \in {NoPlan} \cup {PlanOf[b] : b \in Binding}
  /\ everStarted \in BOOLEAN /\ currentPlanStarted \in BOOLEAN
  /\ claims \subseteq Claim /\ \A c \in claims : c.generation <= generation
  /\ deliveryClaims \subseteq DeliveryClaim
  /\ clock \in Nat

\* Of all the claims ever handed out, at most one can still change the ledger:
\* BeginAttempt closes an expired claim before it grants another, and
\* transitionClaim fences every claim that was closed behind its owner's back.
ClaimExclusive ==
  \A c, d \in claims : \A i, j \in DOMAIN attempts :
    holds(c, i) /\ holds(d, j) => c = d /\ i = Len(attempts)

\* Evidence is only accepted within the lease: an attempt that carries an
\* outcome other than unknown was finished before its lease ran out, however
\* late the worker's call was granted the lock.
EvidenceWithinLease ==
  \A i \in DOMAIN attempts :
    attempts[i].state \notin {"claimed", "unknown"} =>
      attempts[i].startedAt <= attempts[i].finishedAt
        /\ attempts[i].finishedAt < attempts[i].leaseExpiresAt

\* Two attempts of one operation start at least the longer of their observation
\* periods apart, unless the earlier one was a quota-window drain that never
\* reached the provider: the 30 second retry of such deferrals never lets a
\* request that may have been dispatched be repeated early, across any chain of
\* retries and plan changes.
RequestSpacing ==
  \A i, j \in DOMAIN attempts :
    i < j /\ attempts[i].reason # "quota_window_draining" =>
      /\ attempts[j].startedAt >= attempts[i].startedAt + PeriodOf[attempts[i].binding]
      /\ attempts[j].startedAt >= attempts[i].startedAt + PeriodOf[attempts[j].binding]

\* Gatus sees observations in order: no delivery of an attempt was ever claimed
\* while an older retained observation was not read back yet.
InOrderDelivery ==
  \A i, j \in DOMAIN attempts :
    i < j /\ attempts[j].deliveryGeneration > 0 /\ attempts[i].state = "observed" =>
      Settled(attempts[i])

\* Two deliveries of the same observation are claimed at least a delivery lease
\* apart, so that two deliverers push it at the same time only if one overran
\* its lease.
DeliveryExclusive ==
  \A c, d \in deliveryClaims :
    c.attemptGeneration = d.attemptGeneration /\ c.deliveryGeneration < d.deliveryGeneration =>
      d.claimedAt >= c.claimedAt + DeliveryLease

\* Attempt i was made under the plan that is still the current one.
underCurrentPlan(i) ==
  \A k \in i..Len(attempts) : PlanOf[attempts[k].binding] = currentPlan

\* CurrentPlanEverRequestStarted is exact: it is set when a retained attempt of
\* the current plan reached the provider, and, as long as the ring has not
\* filled up, only then (never on the evidence of an earlier plan).
PlanEvidenceExact ==
  LET startedHere == \E i \in DOMAIN attempts :
                       attempts[i].requestStarted = "yes" /\ underCurrentPlan(i)
  IN /\ startedHere => currentPlanStarted
     /\ Len(attempts) < MaxHistory /\ currentPlanStarted => startedHere

\* writeState never refuses what a handler is entitled to write: an open claim
\* can always be closed as unknown, a due operation always begun, an owed
\* delivery always claimed (within its attempts), so that the validator's many
\* conditions never wedge the ledger.
NoWriteRefused ==
  \A now \in SampledNow :
    /\ \A b \in Binding :
         mayBegin(b, now) =>
           validOperationAttemptState(Append(rotated, NewAttempt(b, generation + 1, now)),
             generation + 1, PlanOf[b], everStarted, carriedStarted(b))
    /\ \A i \in DOMAIN attempts :
         attempts[i].state = "claimed" /\ now >= attempts[i].startedAt =>
           validOperationAttemptState([attempts EXCEPT ![i] = markUnknown(attempts[i], now)],
             generation + 1, currentPlan, everStarted, currentPlanStarted)
    /\ \A i \in DOMAIN attempts :
         mayClaimDelivery(i, now) /\ attempts[i].deliveryGeneration < MaxDeliveryAttempts =>
           validOperationAttemptState(
             [attempts EXCEPT ![i] = [attempts[i] EXCEPT !.deliveryState = "pending",
                !.deliveryStartedAt = now, !.deliveryGeneration = @ + 1]],
             generation + 1, currentPlan, everStarted, currentPlanStarted)

\* What an attempt proves about the provider request.
evidence(a) ==
  <<a.binding, a.startedAt, a.leaseExpiresAt, a.state, a.finishedAt, a.requestStarted,
    a.receiptValidated, a.reason, a.result, a.receivedAt>>

\* A closed attempt is immutable: no late, duplicated or fenced call changes
\* what it says about the provider, in particular an unknown outcome stays
\* unknown.
ClosedIsFrozen ==
  [][\A i \in DOMAIN attempts, j \in DOMAIN attempts' :
       /\ attempts[i].state # "claimed"
       /\ attempts'[j].generation = attempts[i].generation
       => evidence(attempts'[j]) = evidence(attempts[i])]_vars

deliveryRank(a) ==
  CASE a.deliveryState = "not_ready" -> 0
    [] a.deliveryState = "pending" -> 1
    [] a.deliveryState = "acknowledged" -> 2
    [] a.deliveryState \in {"readback_verified", "not_applicable"} -> 3

\* The outbox only moves forward: an acknowledged summary never becomes pending
\* again (it would be pushed to Gatus a second time), and the first readback
\* of a summary is final.
OutboxForward ==
  [][\A i \in DOMAIN attempts, j \in DOMAIN attempts' :
       /\ attempts'[j].generation = attempts[i].generation
       => /\ deliveryRank(attempts'[j]) >= deliveryRank(attempts[i])
          /\ Settled(attempts[i]) => attempts'[j] = attempts[i]]_vars

\* Rotation loses nothing that is still owed: an attempt leaves the ring only
\* when its outcome is known and its observation, if any, is settled with Gatus.
RotationKeepsEvidence ==
  [][\A i \in DOMAIN attempts :
       (\A j \in DOMAIN attempts' : attempts'[j].generation # attempts[i].generation)
       => /\ attempts[i].state \notin {"claimed", "unknown"}
          /\ attempts[i].state = "observed" => Settled(attempts[i])]_vars

claimedSince(t) ==
  attempts # << >> /\ attempts[Len(attempts)].state = "claimed"
    /\ attempts[Len(attempts)].startedAt = t

\* A claim whose worker died is not held forever: polling closes it once its
\* lease has run out.
AbandonedClaimResolved == \A t \in 1..MaxTime : claimedSince(t) ~> ~claimedSince(t)
=============================================================================
