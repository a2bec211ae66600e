--------------------- MODULE OperationAttemptStoreProofs ---------------------
(***************************************************************************)
(* TLAPS proofs about OperationAttemptStore, for every set of bindings,    *)
(* every lease, period and bound.                                          *)
(*                                                                         *)
(* The argument: every step leaves the ring alone, closes the claimed      *)
(* attempt, moves one observed attempt along the outbox, or appends a new  *)
(* claimed attempt to the rotated ring (StepShape).  The inductive         *)
(* invariant Inv adds to the checked properties that the file satisfies    *)
(* the validator and that only the last attempt can be claimed.            *)
(***************************************************************************)
EXTENDS OperationAttemptStore, SequenceTheorems, TLAPS

\* The state file, once it exists, is one that readState accepts.
FileValid ==
  attempts # << >> =>
    validOperationAttemptState(attempts, generation, currentPlan, everStarted, currentPlanStarted)

GenerationsIncrease ==
  \A i, j \in DOMAIN attempts : i < j => attempts[i].generation < attempts[j].generation

ClaimedIsLast ==
  \A i \in DOMAIN attempts : attempts[i].state = "claimed" => i = Len(attempts)

-----------------------------------------------------------------------------
\* The three shapes of a change to the ring.
closes(i, a) ==
  /\ attempts[i].state = "claimed"
  /\ a.state # "claimed"
  /\ a.generation = attempts[i].generation
  /\ a.binding = attempts[i].binding
  /\ a.startedAt = attempts[i].startedAt
  /\ a.leaseExpiresAt = attempts[i].leaseExpiresAt
  /\ a.deliveryGeneration = attempts[i].deliveryGeneration
  /\ a.state # "unknown" => a.finishedAt < a.leaseExpiresAt

delivers(i, a) ==
  /\ attempts[i].state = "observed"
  /\ ~Settled(attempts[i])
  /\ a.generation = attempts[i].generation
  /\ evidence(a) = evidence(attempts[i])
  /\ a.deliveryGeneration # attempts[i].deliveryGeneration => ~earlierUndelivered(i)
  /\ deliveryRank(a) >= deliveryRank(attempts[i])
  /\ a.deliveryState # "not_ready"
  /\ \/ /\ a.deliveryGeneration = attempts[i].deliveryGeneration
        /\ a.deliveryStartedAt = attempts[i].deliveryStartedAt
     \/ /\ a.deliveryGeneration = attempts[i].deliveryGeneration + 1
        /\ mayClaimDelivery(i, a.deliveryStartedAt)

replaces(i, a) ==
  attempts' = [attempts EXCEPT ![i] = a] /\ (closes(i, a) \/ delivers(i, a))

appends(b, now) ==
  mayBegin(b, now) /\ attempts' = Append(rotated, NewAttempt(b, generation + 1, now))

shape ==
  \/ UNCHANGED attempts
  \/ \E i \in DOMAIN attempts, a \in Attempt : replaces(i, a)
  \/ \E b \in Binding, now \in Nat : appends(b, now)

-----------------------------------------------------------------------------
(***************************************************************************)
(* Lemmas.                                                                 *)
(***************************************************************************)

\* A write either persists the new ring or leaves the file alone.
LEMMA WriteShape ==
  ASSUME NEW as, NEW plan, NEW ever, NEW curEver, writeState(as, plan, ever, curEver)
  PROVE  \/ UNCHANGED fileVars
         \/ /\ attempts' = as
            /\ generation' = generation + 1
            /\ currentPlan' = plan /\ everStarted' = ever /\ currentPlanStarted' = curEver
            /\ validOperationAttemptState(as, generation + 1, plan, ever, curEver)
BY DEF writeState

\* The sampled times are natural numbers.
LEMMA SampledNat == ASSUME TypeOK, NEW now \in SampledNow PROVE now \in Nat
BY DEF TypeOK, SampledNow

\* The closed form a of a claimed attempt keeps who, when and until when, and is
\* typed.
closedForm(a, new) ==
  /\ new \in Attempt
  /\ new.state # "claimed"
  /\ new.generation = a.generation /\ new.binding = a.binding
  /\ new.startedAt = a.startedAt /\ new.leaseExpiresAt = a.leaseExpiresAt
  /\ new.deliveryGeneration = a.deliveryGeneration

LEMMA MarkUnknown ==
  ASSUME NEW a \in Attempt, NEW now \in Nat
  PROVE  closedForm(a, markUnknown(a, now)) /\ markUnknown(a, now).state = "unknown"
BY DEF markUnknown, Attempt, AttemptStates, closedForm

LEMMA MarkBadTimes ==
  ASSUME NEW a \in Attempt, NEW now \in Nat
  PROVE  closedForm(a, markBadTimes(a, now)) /\ markBadTimes(a, now).finishedAt = now
BY DEF markBadTimes, Attempt, AttemptStates, closedForm

LEMMA MarkRequestStarted ==
  ASSUME NEW a \in Attempt, NEW now \in Nat
  PROVE  closedForm(a, markRequestStarted(a, now)) /\ markRequestStarted(a, now).finishedAt = now
BY DEF markRequestStarted, Attempt, AttemptStates, closedForm

LEMMA MarkBlocked ==
  ASSUME NEW a \in Attempt, NEW now \in Nat
  PROVE  closedForm(a, markBlocked(a, now)) /\ markBlocked(a, now).finishedAt = now
BY DEF markBlocked, Attempt, AttemptStates, closedForm

LEMMA MarkDeferred ==
  ASSUME NEW a \in Attempt, NEW now \in Nat, NEW r \in DeferredReasons
  PROVE  closedForm(a, markDeferred(a, r, now)) /\ markDeferred(a, r, now).finishedAt = now
BY DEF markDeferred, Attempt, AttemptStates, closedForm

LEMMA MarkObserved ==
  ASSUME NEW a \in Attempt, NEW now \in Nat, NEW receivedAt \in Nat, NEW r \in Results
  PROVE  /\ closedForm(a, markObserved(a, receivedAt, r, now))
         /\ markObserved(a, receivedAt, r, now).finishedAt = now
<1> DEFINE ra == IF receivedAt = 0 THEN now ELSE receivedAt
           ds == IF r = "unestablished" THEN "not_applicable" ELSE "not_ready"
           new == [a EXCEPT !.state = "observed", !.receiptValidated = TRUE,
                            !.requestStarted = "yes", !.finishedAt = now, !.result = r,
                            !.receivedAt = ra, !.deliveryState = ds]
<1>1. ra \in Nat /\ ds \in DeliveryStates
  BY DEF DeliveryStates
<1>2. new = markObserved(a, receivedAt, r, now)
  BY DEF markObserved
<1> HIDE DEF ra, ds
<1>3. closedForm(a, new) /\ new.finishedAt = now
  BY <1>1 DEF Attempt, AttemptStates, closedForm
<1> QED BY <1>2, <1>3

\* A step of a claim holder closes the claimed attempt, if it changes the ring.
LEMMA ClaimStepShape ==
  ASSUME TypeOK, NEW c \in claims, NEW now \in Nat, ClaimStep(c, now)
  PROVE  shape
<1>1. ASSUME NEW i \in DOMAIN attempts PROVE attempts[i] \in Attempt
  BY DEF TypeOK
<1>2. ASSUME NEW i \in DOMAIN attempts, holds(c, i), NEW a, closedForm(attempts[i], a),
             a.state # "unknown" => a.finishedAt < attempts[i].leaseExpiresAt,
             NEW plan, NEW ever, NEW curEver,
             writeState([attempts EXCEPT ![i] = a], plan, ever, curEver)
      PROVE  shape
  <2>1. closes(i, a) /\ a \in Attempt
    BY <1>2 DEF closedForm, closes, holds
  <2>2. UNCHANGED attempts \/ attempts' = [attempts EXCEPT ![i] = a]
    BY <1>2, WriteShape DEF fileVars
  <2> QED BY <2>1, <2>2 DEF shape, replaces
<1>3. ASSUME NEW i \in DOMAIN attempts, holds(c, i),
             writeAttempt(i, markUnknown(attempts[i], now))
      PROVE  shape
  <2> DEFINE a == markUnknown(attempts[i], now)
  <2>1. closedForm(attempts[i], a) /\ a.state = "unknown"
    BY <1>1, MarkUnknown
  <2>2. writeState([attempts EXCEPT ![i] = a], currentPlan, everStarted, currentPlanStarted)
    BY <1>3 DEF writeAttempt
  <2> QED BY <1>2, <1>3, <2>1, <2>2
\* Any report before the end of the lease, an unknown outcome after it.
<1>4. ASSUME NEW i \in DOMAIN attempts, holds(c, i),
             NEW new, closedForm(attempts[i], new), new.finishedAt = now,
             NEW plan, NEW ever, NEW curEver,
             IF leaseExpired(attempts[i], now)
             THEN writeAttempt(i, markUnknown(attempts[i], now))
             ELSE writeState([attempts EXCEPT ![i] = new], plan, ever, curEver)
      PROVE  shape
  <2>1. CASE leaseExpired(attempts[i], now)
    BY <1>3, <1>4, <2>1
  <2>2. CASE ~leaseExpired(attempts[i], now)
    <3>1. new.finishedAt < attempts[i].leaseExpiresAt
      BY <1>1, <1>4, <2>2 DEF leaseExpired, Attempt
    <3> QED BY <1>2, <1>4, <2>2, <3>1
  <2> QED BY <2>1, <2>2
<1>5. CASE FailAttempt(c, now)
  BY <1>3, <1>5 DEF FailAttempt
<1>6. CASE RecordRequestStarted(c, now)
  BY <1>1, <1>4, <1>6, MarkRequestStarted DEF RecordRequestStarted, transitionClaim
<1>7. CASE RecordBlockedAttempt(c, now)
  BY <1>1, <1>4, <1>7, MarkBlocked DEF RecordBlockedAttempt, transitionClaim
<1>8. ASSUME NEW reason \in DeferredReasons, RecordPreDispatchDeferred(c, reason, now)
      PROVE  shape
  BY <1>1, <1>4, <1>8, MarkDeferred DEF RecordPreDispatchDeferred, transitionClaim
<1>9. ASSUME NEW observedAt \in 1..(clock + 1), NEW receivedAt \in 0..(clock + 1),
             NEW r \in Results, CompleteAttempt(c, observedAt, receivedAt, r, now)
      PROVE  shape
  <2> DEFINE new(a) == IF badResultTimes(a, observedAt, receivedAt, now)
                       THEN markBadTimes(a, now)
                       ELSE markObserved(a, receivedAt, r, now)
             started(a) == ~badResultTimes(a, observedAt, receivedAt, now)
  <2>1. PICK i \in DOMAIN attempts :
          /\ holds(c, i)
          /\ IF leaseExpired(attempts[i], now)
             THEN writeAttempt(i, markUnknown(attempts[i], now))
             ELSE writeState([attempts EXCEPT ![i] = new(attempts[i])], currentPlan,
                             everStarted \/ started(attempts[i]),
                             \/ currentPlanStarted
                             \/ started(attempts[i]) /\ currentPlan = PlanOf[attempts[i].binding])
    BY <1>9 DEF CompleteAttempt, transitionClaim
  <2>2. closedForm(attempts[i], new(attempts[i])) /\ new(attempts[i]).finishedAt = now
    <3>1. receivedAt \in Nat
      BY DEF TypeOK
    <3>2. CASE badResultTimes(attempts[i], observedAt, receivedAt, now)
      BY <1>1, <3>2, MarkBadTimes
    <3>3. CASE ~badResultTimes(attempts[i], observedAt, receivedAt, now)
      BY <1>1, <3>1, <3>3, MarkObserved
    <3> QED BY <3>2, <3>3
  <2> QED BY <1>4, <2>1, <2>2
<1> QED BY <1>5, <1>6, <1>7, <1>8, <1>9 DEF ClaimStep

\* An outbox step moves one observed attempt forward, if it changes the ring.
LEMMA DeliveryStepShape ==
  ASSUME TypeOK, FileValid, NEW now \in Nat, DeliveryStep(now)
  PROVE  shape
<1>1. ASSUME NEW i \in DOMAIN attempts
      PROVE  /\ attempts[i] \in Attempt
             /\ attempts[i].deliveryState \in {"pending", "acknowledged"} =>
                  attempts[i].state = "observed"
  <2>1. attempts[i] \in Attempt /\ attempts # << >>
    BY DEF TypeOK
  <2> QED BY <2>1 DEF FileValid, validOperationAttemptState, validDelivery
<1>2. ASSUME NEW i \in DOMAIN attempts, NEW a \in Attempt, delivers(i, a), writeAttempt(i, a)
      PROVE  shape
  <2>1. UNCHANGED attempts \/ attempts' = [attempts EXCEPT ![i] = a]
    BY <1>2, WriteShape DEF fileVars, writeAttempt
  <2> QED BY <1>2, <2>1 DEF shape, replaces
<1>3. ASSUME NEW i \in DOMAIN attempts, ClaimDelivery(i, now)
      PROVE  shape
  <2> DEFINE a == [attempts[i] EXCEPT !.deliveryState = "pending", !.deliveryStartedAt = now,
                                      !.deliveryGeneration = @ + 1]
  <2>1. a \in Attempt
    <3>1. ASSUME NEW g \in Nat
          PROVE  [attempts[i] EXCEPT !.deliveryState = "pending", !.deliveryStartedAt = now,
                                     !.deliveryGeneration = g] \in Attempt
      BY ZenonT(60), <1>1 DEF Attempt, DeliveryStates
    <3>2. attempts[i].deliveryGeneration + 1 \in Nat
      BY <1>1 DEF Attempt
    <3> QED BY <3>1, <3>2
  <2>2. /\ attempts[i].state = "observed" /\ ~Settled(attempts[i]) /\ ~earlierUndelivered(i)
        /\ deliveryRank(attempts[i]) \in {0, 1}
    BY <1>3 DEF ClaimDelivery, mayClaimDelivery, Settled, deliveryRank
  <2>3. a.generation = attempts[i].generation /\ evidence(a) = evidence(attempts[i])
    BY <1>1 DEF evidence, Attempt
  <2>4. deliveryRank(a) = 1 /\ a.deliveryState # "not_ready"
    BY <1>1 DEF deliveryRank, Attempt
  <2>5. /\ a.deliveryGeneration = attempts[i].deliveryGeneration + 1
        /\ a.deliveryStartedAt = now /\ mayClaimDelivery(i, now)
    BY <1>1, <1>3 DEF ClaimDelivery, Attempt
  <2>6. delivers(i, a)
    BY <2>2, <2>3, <2>4, <2>5 DEF delivers
  <2> QED BY <1>2, <1>3, <2>1, <2>6 DEF ClaimDelivery
<1>4. ASSUME NEW i \in DOMAIN attempts, RecordGatusReadback(i, now)
      PROVE  shape
  <2> DEFINE a == [attempts[i] EXCEPT !.deliveryState = "readback_verified"]
  <2>1. a \in Attempt
    BY <1>1 DEF Attempt, DeliveryStates
  <2>2. delivers(i, a)
    BY <1>1, <1>4 DEF RecordGatusReadback, delivers, evidence, deliveryRank, Settled, Attempt
  <2> QED BY <1>2, <1>4, <2>1, <2>2 DEF RecordGatusReadback
<1>5. ASSUME NEW d \in deliveryClaims, AcknowledgeDelivery(d, now)
      PROVE  shape
  <2>1. PICK i \in DOMAIN attempts :
          /\ acknowledges(d, i)
          /\ writeAttempt(i, [attempts[i] EXCEPT !.deliveryState = "acknowledged",
                                                 !.deliveryAckAt = now])
    BY <1>5 DEF AcknowledgeDelivery
  <2> DEFINE a == [attempts[i] EXCEPT !.deliveryState = "acknowledged", !.deliveryAckAt = now]
  <2>2. a \in Attempt
    BY <1>1 DEF Attempt, DeliveryStates
  <2>3. delivers(i, a)
    BY <1>1, <2>1 DEF acknowledges, delivers, evidence, deliveryRank, Settled, Attempt
  <2> QED BY <1>2, <2>1, <2>2, <2>3
<1> QED BY <1>3, <1>4, <1>5 DEF DeliveryStep

\* BeginAttempt closes an expired claim or appends a new one.
LEMMA BeginShape ==
  ASSUME TypeOK, NEW b \in Binding, NEW now \in Nat, BeginAttempt(b, now)
  PROVE  shape
<1>1. CASE BeginFindsExpired(now)
  <2> DEFINE n == Len(attempts)
             a == markUnknown(attempts[n], now)
  <2>1. n \in DOMAIN attempts /\ attempts[n] \in Attempt
    BY <1>1 DEF BeginFindsExpired, TypeOK
  <2>2. closedForm(attempts[n], a) /\ a.state = "unknown" /\ attempts[n].state = "claimed"
    BY <1>1, <2>1, MarkUnknown DEF BeginFindsExpired
  <2>3. UNCHANGED attempts \/ attempts' = [attempts EXCEPT ![n] = a]
    BY <1>1, WriteShape DEF BeginFindsExpired, writeAttempt, fileVars
  <2> QED BY <2>1, <2>2, <2>3 DEF shape, replaces, closes, closedForm
<1>2. CASE BeginGrantsClaim(b, now)
  <2> DEFINE as == Append(rotated, NewAttempt(b, generation + 1, now))
  <2>1. mayBegin(b, now) /\ writeState(as, PlanOf[b], everStarted, carriedStarted(b))
    BY <1>2 DEF BeginGrantsClaim
  <2>2. UNCHANGED attempts \/ attempts' = as
    BY <2>1, WriteShape DEF fileVars
  <2> QED BY <2>1, <2>2 DEF shape, appends
<1> QED BY <1>1, <1>2 DEF BeginAttempt

\* Every step has one of the three shapes.
LEMMA StepShape ==
  ASSUME TypeOK, FileValid, [Next]_vars
  PROVE  shape
<1>1. CASE UNCHANGED vars
  BY <1>1 DEF vars, fileVars, shape
<1>2. CASE Tick
  BY <1>2 DEF Tick, fileVars, shape
<1>3. ASSUME NEW now \in SampledNow, NEW b \in Binding, BeginAttempt(b, now)
      PROVE  shape
  BY <1>3, SampledNat, BeginShape
<1>4. ASSUME NEW now \in SampledNow, NEW c \in claims, ClaimStep(c, now)
      PROVE  shape
  BY <1>4, SampledNat, ClaimStepShape
<1>5. ASSUME NEW now \in SampledNow, DeliveryStep(now)
      PROVE  shape
  BY <1>5, SampledNat, DeliveryStepShape
<1> QED BY <1>1, <1>2, <1>3, <1>4, <1>5 DEF Next

\* The ring after a new claim: the old one, without its oldest attempt if it was
\* full, followed by the new attempt.
appended(k, n) ==
  /\ k <= Len(attempts)
  /\ k = 1 => ~pinned(attempts[1])
  /\ Len(attempts') = Len(attempts) + 1 - k
  /\ attempts'[Len(attempts')] = n
  /\ \A i \in 1..(Len(attempts) - k) : attempts'[i] = attempts[i + k]

\* The ring without its oldest attempt, if it was full.
rotatedBy(k) ==
  /\ k <= Len(attempts) /\ (k = 1 <=> Len(attempts) >= MaxHistory)
  /\ rotated \in Seq(Attempt) /\ Len(rotated) = Len(attempts) - k
  /\ \A i \in 1..(Len(attempts) - k) : rotated[i] = attempts[i + k]

LEMMA Rotated ==
  ASSUME TypeOK, FileValid
  PROVE  \E k \in {0, 1} : rotatedBy(k)
<1>2. attempts \in Seq(Attempt) /\ MaxHistory \in Nat \ {0} /\ Len(attempts) <= MaxHistory
  BY BoundAssumption DEF TypeOK, FileValid, validOperationAttemptState
<1>4. CASE Len(attempts) >= MaxHistory
  <2>1. rotated = SubSeq(attempts, 2, Len(attempts))
    BY <1>2, <1>4 DEF rotated
  <2>2. Len(attempts) \in Nat /\ 1 <= Len(attempts)
    BY <1>2, <1>4
  <2>3. \A i \in 2..Len(attempts) : attempts[i] \in Attempt
    BY <1>2
  <2>4. /\ rotated \in Seq(Attempt)
        /\ Len(rotated) = IF 2 <= Len(attempts) THEN Len(attempts) - 2 + 1 ELSE 0
        /\ \A i \in 1..(Len(attempts) - 2 + 1) : rotated[i] = attempts[2 + i - 1]
    BY <2>1, <2>2, <2>3, SubSeqProperties
  <2>5. ASSUME NEW i \in 1..(Len(attempts) - 1) PROVE rotated[i] = attempts[i + 1]
    <3>1. i \in 1..(Len(attempts) - 2 + 1) /\ 2 + i - 1 = i + 1
      BY <2>2
    <3>2. rotated[i] = attempts[2 + i - 1]
      BY <2>4, <3>1
    <3> QED BY <3>1, <3>2
  <2>6. Len(rotated) = Len(attempts) - 1
    <3>1. ASSUME NEW l \in Nat, NEW r, 1 <= l, r = IF 2 <= l THEN l - 2 + 1 ELSE 0
          PROVE  r = l - 1
      BY <3>1
    <3>2. Len(rotated) = IF 2 <= Len(attempts) THEN Len(attempts) - 2 + 1 ELSE 0
      BY <2>4
    <3> QED BY <2>2, <3>1, <3>2
  <2>7. rotatedBy(1)
    BY <1>4, <2>2, <2>4, <2>5, <2>6 DEF rotatedBy
  <2> QED BY <2>7
<1>5. CASE ~(Len(attempts) >= MaxHistory)
  <2>1. rotated = attempts
    BY <1>5 DEF rotated
  <2>2. rotatedBy(0)
    BY <1>2, <1>5, <2>1 DEF rotatedBy
  <2> QED BY <2>2
<1> QED BY <1>4, <1>5

LEMMA NewAttemptTyped ==
  ASSUME TypeOK, NEW b \in Binding, NEW now \in Nat
  PROVE  NewAttempt(b, generation + 1, now) \in Attempt
<1>1. generation + 1 \in Nat /\ now + AttemptLease \in Nat
  BY BoundAssumption DEF TypeOK
<1> QED BY <1>1 DEF NewAttempt, Attempt, AttemptStates, DeliveryStates

LEMMA Appended ==
  ASSUME TypeOK, FileValid, NEW b \in Binding, NEW now \in Nat, appends(b, now)
  PROVE  /\ NewAttempt(b, generation + 1, now) \in Attempt
         /\ attempts' \in Seq(Attempt)
         /\ \E k \in {0, 1} : appended(k, NewAttempt(b, generation + 1, now))
<1> DEFINE n == NewAttempt(b, generation + 1, now)
<1>1. n \in Attempt
  BY NewAttemptTyped
<1>2. attempts' = Append(rotated, n) /\ mayBegin(b, now) /\ Len(attempts) \in Nat
  BY DEF appends, TypeOK
<1> HIDE DEF n
<1>3. PICK k \in {0, 1} : rotatedBy(k)
  BY Rotated
<1>4. /\ attempts' \in Seq(Attempt)
      /\ Len(attempts') = Len(rotated) + 1 /\ attempts'[Len(rotated) + 1] = n
      /\ \A i \in 1..Len(rotated) : attempts'[i] = rotated[i]
  BY <1>1, <1>2, <1>3 DEF rotatedBy
<1>5. k = 1 => ~pinned(attempts[1])
  BY <1>2, <1>3 DEF mayBegin, rotatedBy
<1>6. appended(k, n)
  BY <1>2, <1>3, <1>4, <1>5 DEF appended, rotatedBy
<1> QED BY <1>1, <1>4, <1>6 DEF n

-----------------------------------------------------------------------------
(***************************************************************************)
(* The inductive invariant.                                                *)
(***************************************************************************)
Inv ==
  /\ TypeOK
  /\ FileValid
  /\ GenerationsIncrease
  /\ ClaimedIsLast
  /\ EvidenceWithinLease
  /\ RequestSpacing
  /\ InOrderDelivery

LEMMA InitInv == Init => Inv
<1> SUFFICES ASSUME Init PROVE Inv
  OBVIOUS
<1>1. attempts \in Seq(Attempt) /\ DOMAIN attempts = {}
  BY DEF Init
<1> QED BY <1>1 DEF Init, Inv, TypeOK, FileValid, GenerationsIncrease, ClaimedIsLast,
                    EvidenceWithinLease, RequestSpacing, InOrderDelivery

\* The file every step leaves behind is valid: writeState checks it.
LEMMA FileValidStep == FileValid /\ [Next]_vars => FileValid'
<1> SUFFICES ASSUME FileValid, [Next]_vars PROVE FileValid'
  OBVIOUS
<1>1. ASSUME NEW as, NEW plan, NEW ever, NEW curEver, writeState(as, plan, ever, curEver)
      PROVE  FileValid'
  BY <1>1, WriteShape DEF FileValid, fileVars
<1>2. ASSUME UNCHANGED fileVars PROVE FileValid'
  BY <1>2 DEF FileValid, fileVars
<1>3. ASSUME NEW i, NEW a, writeAttempt(i, a) PROVE FileValid'
  BY <1>1, <1>3 DEF writeAttempt
<1>4. ASSUME NEW now \in SampledNow, NEW b \in Binding, BeginAttempt(b, now) PROVE FileValid'
  BY <1>1, <1>3, <1>4 DEF BeginAttempt, BeginFindsExpired, BeginGrantsClaim
<1>5. ASSUME NEW now \in SampledNow, DeliveryStep(now) PROVE FileValid'
  BY <1>3, <1>5 DEF DeliveryStep, ClaimDelivery, RecordGatusReadback, AcknowledgeDelivery
<1>6. ASSUME NEW c \in claims, NEW now \in SampledNow, ClaimStep(c, now) PROVE FileValid'
  <2>1. CASE FailAttempt(c, now)
    BY <1>3, <2>1 DEF FailAttempt
  <2>2. CASE RecordRequestStarted(c, now)
    BY <1>1, <1>3, <2>2 DEF RecordRequestStarted, transitionClaim
  <2>3. CASE RecordBlockedAttempt(c, now)
    BY <1>1, <1>3, <2>3 DEF RecordBlockedAttempt, transitionClaim
  <2>4. ASSUME NEW reason \in DeferredReasons, RecordPreDispatchDeferred(c, reason, now)
        PROVE  FileValid'
    BY <1>1, <1>3, <2>4 DEF RecordPreDispatchDeferred, transitionClaim
  <2>5. ASSUME NEW observedAt, NEW receivedAt, NEW r, CompleteAttempt(c, observedAt, receivedAt, r, now)
        PROVE  FileValid'
    BY <1>1, <1>3, <2>5 DEF CompleteAttempt, transitionClaim
  <2> QED BY <1>6, <2>1, <2>2, <2>3, <2>4, <2>5 DEF ClaimStep
<1> QED BY <1>2, <1>4, <1>5, <1>6 DEF Next, Tick, vars

\* The types of the file's scalar fields, and that its generation never falls.
scalarsTyped ==
  /\ generation' \in Nat /\ generation <= generation'
  /\ currentPlan' \in {NoPlan} \cup {PlanOf[b] : b \in Binding}
  /\ everStarted' \in BOOLEAN /\ currentPlanStarted' \in BOOLEAN

LEMMA ScalarStep == TypeOK /\ [Next]_vars => scalarsTyped
<1> SUFFICES ASSUME TypeOK, [Next]_vars PROVE scalarsTyped
  OBVIOUS
<1>1. ASSUME NEW as, NEW plan \in {NoPlan} \cup {PlanOf[b] : b \in Binding},
             NEW ever \in BOOLEAN, NEW curEver \in BOOLEAN, writeState(as, plan, ever, curEver)
      PROVE  scalarsTyped
  <2>1. CASE UNCHANGED fileVars
    BY <2>1 DEF scalarsTyped, fileVars, TypeOK
  <2>2. CASE generation' = generation + 1 /\ currentPlan' = plan /\ everStarted' = ever
             /\ currentPlanStarted' = curEver
    <3>1. generation' \in Nat /\ generation <= generation'
      BY <2>2 DEF TypeOK
    <3> QED BY <2>2, <3>1 DEF scalarsTyped
  <2> QED BY <1>1, <2>1, <2>2, WriteShape
<1>2. ASSUME UNCHANGED fileVars PROVE scalarsTyped
  BY <1>2 DEF scalarsTyped, fileVars, TypeOK
<1>3. ASSUME NEW i, NEW a, writeAttempt(i, a) PROVE scalarsTyped
  BY <1>1, <1>3 DEF writeAttempt, TypeOK
<1>4. ASSUME NEW now \in SampledNow, NEW b \in Binding, BeginAttempt(b, now) PROVE scalarsTyped
  <2>1. carriedStarted(b) \in BOOLEAN /\ PlanOf[b] \in {NoPlan} \cup {PlanOf[x] : x \in Binding}
        /\ everStarted \in BOOLEAN
    BY DEF carriedStarted, TypeOK
  <2>2. CASE BeginFindsExpired(now)
    BY <1>3, <2>2 DEF BeginFindsExpired
  <2>3. CASE BeginGrantsClaim(b, now)
    BY <1>1, <2>1, <2>3 DEF BeginGrantsClaim
  <2> QED BY <1>4, <2>2, <2>3 DEF BeginAttempt
<1>5. ASSUME NEW now \in SampledNow, DeliveryStep(now) PROVE scalarsTyped
  BY <1>3, <1>5 DEF DeliveryStep, ClaimDelivery, RecordGatusReadback, AcknowledgeDelivery
<1>6. ASSUME NEW c \in claims, NEW now \in SampledNow, ClaimStep(c, now) PROVE scalarsTyped
  <2>1. ASSUME NEW i \in DOMAIN attempts, NEW as, NEW started \in BOOLEAN,
               writeState(as, currentPlan, everStarted \/ started,
                          \/ currentPlanStarted
                          \/ started /\ currentPlan = PlanOf[attempts[i].binding])
        PROVE  scalarsTyped
    BY <1>1, <2>1 DEF TypeOK
  <2>2. CASE FailAttempt(c, now)
    BY <1>3, <2>2 DEF FailAttempt
  <2>3. CASE RecordRequestStarted(c, now)
    BY <1>3, <2>1, <2>3 DEF RecordRequestStarted, transitionClaim
  <2>4. CASE RecordBlockedAttempt(c, now)
    BY <1>3, <2>1, <2>4 DEF RecordBlockedAttempt, transitionClaim
  <2>5. ASSUME NEW reason \in DeferredReasons, RecordPreDispatchDeferred(c, reason, now)
        PROVE  scalarsTyped
    BY <1>3, <2>1, <2>5 DEF RecordPreDispatchDeferred, transitionClaim
  <2>6. ASSUME NEW observedAt, NEW receivedAt, NEW r,
               CompleteAttempt(c, observedAt, receivedAt, r, now)
        PROVE  scalarsTyped
    BY <1>3, <2>1, <2>6 DEF CompleteAttempt, transitionClaim
  <2> QED BY <1>6, <2>2, <2>3, <2>4, <2>5, <2>6 DEF ClaimStep
<1> QED BY <1>2, <1>4, <1>5, <1>6 DEF Next, Tick, vars

\* A claim handed out names the generation that was persisted with it.
LEMMA ClaimsStep ==
  ASSUME TypeOK, [Next]_vars
  PROVE  /\ claims' \subseteq Claim /\ \A c \in claims' : c.generation <= generation'
         /\ deliveryClaims' \subseteq DeliveryClaim
         /\ clock' \in Nat
<1>1. generation \in Nat /\ generation' \in Nat /\ generation <= generation'
  BY ScalarStep DEF scalarsTyped, TypeOK
<1>2. ASSUME UNCHANGED claims
      PROVE  claims' \subseteq Claim /\ \A c \in claims' : c.generation <= generation'
  BY <1>1, <1>2 DEF TypeOK, Claim
<1>3. ASSUME UNCHANGED deliveryClaims PROVE deliveryClaims' \subseteq DeliveryClaim
  BY <1>3 DEF TypeOK
<1>4. CASE UNCHANGED vars
  BY <1>2, <1>3, <1>4 DEF vars, TypeOK
<1>5. CASE Tick
  BY <1>2, <1>3, <1>5 DEF Tick, TypeOK
<1>6. ASSUME NEW now \in SampledNow, NEW b \in Binding, BeginGrantsClaim(b, now)
      PROVE  claims' \subseteq Claim /\ \A c \in claims' : c.generation <= generation'
  <2> DEFINE new == [binding |-> b, generation |-> generation + 1, startedAt |-> now,
                     expiresAt |-> now + AttemptLease]
  <2>1. claims' = claims \cup {new} /\ generation' = generation + 1
    BY <1>6 DEF BeginGrantsClaim, writeState
  <2>2. new \in Claim /\ new.generation = generation + 1
    <3>1. now \in Nat /\ now + AttemptLease \in Nat /\ generation + 1 \in Nat
      BY SampledNat, BoundAssumption, <1>1
    <3> QED BY <3>1 DEF Claim
  <2>3. \A c \in claims : c \in Claim /\ c.generation <= generation
    BY DEF TypeOK
  <2> HIDE DEF new
  <2>4. \A c \in claims : c.generation <= generation + 1
    BY <1>1, <2>3 DEF Claim
  <2> QED BY <1>1, <2>1, <2>2, <2>3, <2>4
<1>7. ASSUME NEW now \in SampledNow, NEW b \in Binding, BeginAttempt(b, now)
      PROVE  /\ claims' \subseteq Claim /\ \A c \in claims' : c.generation <= generation'
             /\ deliveryClaims' \subseteq DeliveryClaim
             /\ clock' \in Nat
  BY <1>2, <1>3, <1>6, <1>7 DEF BeginAttempt, BeginFindsExpired, BeginGrantsClaim, TypeOK
<1>8. ASSUME NEW now \in SampledNow, NEW c \in claims, ClaimStep(c, now)
      PROVE  UNCHANGED <<claims, deliveryClaims, clock>>
  BY <1>8 DEF ClaimStep, CompleteAttempt, RecordRequestStarted, RecordBlockedAttempt,
              RecordPreDispatchDeferred, FailAttempt, transitionClaim
<1>9. ASSUME NEW now \in SampledNow, NEW i \in DOMAIN attempts, ClaimDelivery(i, now)
      PROVE  deliveryClaims' \subseteq DeliveryClaim
  <2>1. attempts[i] \in Attempt /\ now \in Nat
    BY SampledNat DEF TypeOK
  <2>2. attempts[i].generation \in Nat /\ attempts[i].deliveryGeneration + 1 \in Nat
    BY <2>1 DEF Attempt
  <2> QED BY <1>9, <2>1, <2>2 DEF ClaimDelivery, DeliveryClaim, TypeOK
<1>10. ASSUME NEW now \in SampledNow, DeliveryStep(now)
       PROVE  /\ UNCHANGED <<claims, clock>>
              /\ deliveryClaims' \subseteq DeliveryClaim
  BY <1>3, <1>9, <1>10 DEF DeliveryStep, ClaimDelivery, RecordGatusReadback, AcknowledgeDelivery
<1> QED BY <1>2, <1>3, <1>4, <1>5, <1>7, <1>8, <1>10 DEF Next, TypeOK

\* Replacing or appending an attempt keeps the ring a sequence of attempts.
LEMMA TypeStep == TypeOK /\ FileValid /\ [Next]_vars => TypeOK'
<1> SUFFICES ASSUME TypeOK, FileValid, [Next]_vars PROVE TypeOK'
  OBVIOUS
<1>1. attempts' \in Seq(Attempt)
  <2>1. CASE UNCHANGED attempts
    BY <2>1 DEF TypeOK
  <2>2. ASSUME NEW i \in DOMAIN attempts, NEW a \in Attempt, replaces(i, a)
        PROVE  attempts' \in Seq(Attempt)
    BY <2>2 DEF replaces, TypeOK
  <2>3. ASSUME NEW b \in Binding, NEW now \in Nat, appends(b, now)
        PROVE  attempts' \in Seq(Attempt)
    BY <2>3, Appended
  <2> QED BY <2>1, <2>2, <2>3, StepShape DEF shape
<1> QED BY <1>1, ScalarStep, ClaimsStep DEF TypeOK, scalarsTyped

\* What the three shapes give at an index of the new ring.
LEMMA ReplacedAt ==
  ASSUME TypeOK, NEW i \in DOMAIN attempts, NEW a \in Attempt, replaces(i, a)
  PROVE  /\ Len(attempts') = Len(attempts) /\ DOMAIN attempts' = DOMAIN attempts
         /\ attempts'[i] = a
         /\ \A j \in DOMAIN attempts : j # i => attempts'[j] = attempts[j]
BY DEF replaces, TypeOK

\* The validator orders neighbouring generations; the order of all of them is
\* kept step by step, because a new attempt takes a generation above the file's.
LEMMA GenerationsStep ==
  TypeOK /\ FileValid /\ GenerationsIncrease /\ [Next]_vars => GenerationsIncrease'
<1> SUFFICES ASSUME TypeOK, FileValid, GenerationsIncrease, [Next]_vars,
                    NEW i \in DOMAIN attempts', NEW j \in DOMAIN attempts', i < j
             PROVE  attempts'[i].generation < attempts'[j].generation
  BY DEF GenerationsIncrease
<1>0. attempts' \in Seq(Attempt) /\ Len(attempts) \in Nat /\ DOMAIN attempts = 1..Len(attempts)
  BY TypeStep DEF TypeOK
<1>1. CASE UNCHANGED attempts
  BY <1>1 DEF GenerationsIncrease
<1>2. ASSUME NEW m \in DOMAIN attempts, NEW a \in Attempt, replaces(m, a)
      PROVE  attempts'[i].generation < attempts'[j].generation
  <2>1. i \in DOMAIN attempts /\ j \in DOMAIN attempts
    BY <1>2, ReplacedAt
  <2>2. \A q \in DOMAIN attempts : attempts'[q].generation = attempts[q].generation
    BY <1>2, ReplacedAt DEF replaces, closes, delivers
  <2> QED BY <2>1, <2>2 DEF GenerationsIncrease
<1>3. ASSUME NEW b \in Binding, NEW now \in Nat, appends(b, now)
      PROVE  attempts'[i].generation < attempts'[j].generation
  <2> DEFINE n == NewAttempt(b, generation + 1, now)
  <2>1. PICK k \in {0, 1} : appended(k, n)
    BY <1>3, Appended
  <2>2. n.generation = generation + 1
    BY DEF NewAttempt
  <2> HIDE DEF n
  <2>3. i \in 1..(Len(attempts) - k) /\ i + k \in DOMAIN attempts /\ attempts'[i] = attempts[i + k]
    BY <1>0, <2>1 DEF appended
  <2>4. CASE j = Len(attempts')
    <3>0. attempts[i + k] \in Attempt /\ attempts # << >> /\ generation \in Nat
      BY <1>0, <2>3 DEF TypeOK
    <3>1. attempts[i + k].generation <= generation
      BY <2>3, <3>0 DEF FileValid, validOperationAttemptState
    <3>2. attempts[i + k].generation < generation + 1
      BY <3>0, <3>1 DEF Attempt
    <3> QED BY <2>1, <2>2, <2>3, <2>4, <3>2 DEF appended
  <2>5. CASE j # Len(attempts')
    <3>0. j \in 1..Len(attempts') /\ Len(attempts') = Len(attempts) + 1 - k /\ i \in Nat
      BY SMTT(30), <1>0, <2>1, <2>3 DEF appended
    <3>1. j \in 1..(Len(attempts) - k) /\ j + k \in DOMAIN attempts /\ i + k < j + k
      BY <1>0, <2>5, <3>0
    <3> QED BY <2>1, <2>3, <3>1 DEF appended, GenerationsIncrease
  <2> QED BY <2>4, <2>5
<1> QED BY <1>1, <1>2, <1>3, StepShape DEF shape

LEMMA ClaimedIsLastStep == TypeOK /\ FileValid /\ ClaimedIsLast /\ [Next]_vars => ClaimedIsLast'
<1> SUFFICES ASSUME TypeOK, FileValid, ClaimedIsLast, [Next]_vars,
                    NEW j \in DOMAIN attempts', attempts'[j].state = "claimed"
             PROVE  j = Len(attempts')
  BY DEF ClaimedIsLast
<1>1. CASE UNCHANGED attempts
  BY <1>1 DEF ClaimedIsLast
<1>2. ASSUME NEW i \in DOMAIN attempts, NEW a \in Attempt, replaces(i, a)
      PROVE  j = Len(attempts')
  <2>1. a.state # "claimed"
    BY <1>2 DEF replaces, closes, delivers, evidence
  <2> QED BY <1>2, <2>1, ReplacedAt DEF ClaimedIsLast
<1>3. ASSUME NEW b \in Binding, NEW now \in Nat, appends(b, now)
      PROVE  j = Len(attempts')
  <2>1. PICK k \in {0, 1} : appended(k, NewAttempt(b, generation + 1, now))
    BY <1>3, Appended
  <2>2. attempts' \in Seq(Attempt) /\ Len(attempts') = Len(attempts) + 1 - k
        /\ \A i \in 1..(Len(attempts) - k) : attempts'[i] = attempts[i + k]
    BY <1>3, <2>1, Appended DEF appended
  <2>3. attempts # << >> => attempts[Len(attempts)].state # "claimed"
    BY <1>3 DEF appends, mayBegin
  <2>4. SUFFICES ASSUME j # Len(attempts') PROVE FALSE
    OBVIOUS
  <2>5. j \in 1..(Len(attempts) - k) /\ j + k \in DOMAIN attempts
    BY <2>2, <2>4 DEF TypeOK
  <2>6. attempts[j + k].state = "claimed"
    BY <2>2, <2>5
  <2> QED BY <2>3, <2>5, <2>6 DEF ClaimedIsLast, TypeOK
<1> QED BY <1>1, <1>2, <1>3, StepShape DEF shape

LEMMA EvidenceWithinLeaseStep ==
  TypeOK /\ FileValid /\ EvidenceWithinLease /\ [Next]_vars => EvidenceWithinLease'
<1> SUFFICES ASSUME TypeOK, FileValid, EvidenceWithinLease, [Next]_vars,
                    NEW j \in DOMAIN attempts',
                    attempts'[j].state \notin {"claimed", "unknown"}
             PROVE  /\ attempts'[j].startedAt <= attempts'[j].finishedAt
                    /\ attempts'[j].finishedAt < attempts'[j].leaseExpiresAt
  BY DEF EvidenceWithinLease
<1>1. FileValid' /\ attempts' \in Seq(Attempt)
  BY FileValidStep, TypeStep DEF TypeOK
<1>2. attempts' # << >> /\ attempts'[j] \in Attempt
  BY <1>1
<1>3. attempts'[j].finishedAt >= attempts'[j].startedAt
  BY <1>1, <1>2 DEF FileValid, validOperationAttemptState
<1>4. attempts'[j].finishedAt < attempts'[j].leaseExpiresAt
  <2>1. CASE UNCHANGED attempts
    BY <2>1 DEF EvidenceWithinLease
  <2>2. ASSUME NEW i \in DOMAIN attempts, NEW a \in Attempt, replaces(i, a)
        PROVE  attempts'[j].finishedAt < attempts'[j].leaseExpiresAt
    <3>1. CASE j = i /\ closes(i, a)
      BY <2>2, <3>1, ReplacedAt DEF closes
    <3>2. CASE j = i /\ delivers(i, a)
      BY <2>2, <3>2, ReplacedAt DEF delivers, evidence, EvidenceWithinLease
    <3>3. CASE j # i
      BY <2>2, <3>3, ReplacedAt DEF EvidenceWithinLease
    <3> QED BY <2>2, <3>1, <3>2, <3>3 DEF replaces
  <2>3. ASSUME NEW b \in Binding, NEW now \in Nat, appends(b, now)
        PROVE  attempts'[j].finishedAt < attempts'[j].leaseExpiresAt
    <3> DEFINE n == NewAttempt(b, generation + 1, now)
    <3>1. PICK k \in {0, 1} : appended(k, n)
      BY <2>3, Appended
    <3>2. n.state = "claimed"
      BY DEF NewAttempt
    <3> HIDE DEF n
    <3>3. j # Len(attempts')
      BY <3>1, <3>2 DEF appended
    <3>4. j \in 1..(Len(attempts) - k) /\ j + k \in DOMAIN attempts
      BY <1>1, <3>1, <3>3 DEF appended, TypeOK
    <3> QED BY <3>1, <3>4 DEF appended, EvidenceWithinLease
  <2> QED BY <2>1, <2>2, <2>3, StepShape DEF shape
<1> QED BY <1>2, <1>3, <1>4 DEF Attempt

LEMMA InOrderDeliveryStep ==
  TypeOK /\ FileValid /\ ClaimedIsLast /\ InOrderDelivery /\ [Next]_vars => InOrderDelivery'
<1> SUFFICES ASSUME TypeOK, FileValid, ClaimedIsLast, InOrderDelivery, [Next]_vars,
                    NEW i \in DOMAIN attempts', NEW j \in DOMAIN attempts', i < j,
                    attempts'[j].deliveryGeneration > 0, attempts'[i].state = "observed"
             PROVE  Settled(attempts'[i])
  BY DEF InOrderDelivery, Settled
<1>0. attempts' \in Seq(Attempt) /\ Len(attempts) \in Nat /\ DOMAIN attempts = 1..Len(attempts)
  BY TypeStep DEF TypeOK
<1>1. CASE UNCHANGED attempts
  BY <1>1 DEF InOrderDelivery
<1>2. ASSUME NEW m \in DOMAIN attempts, NEW a \in Attempt, replaces(m, a)
      PROVE  Settled(attempts'[i])
  <2>1. i \in DOMAIN attempts /\ j \in DOMAIN attempts
    BY <1>2, ReplacedAt
  <2>2. CASE closes(m, a)
    <3>1. m = Len(attempts) /\ i # m
      BY <1>0, <2>1, <2>2 DEF closes, ClaimedIsLast
    <3>2. attempts'[i] = attempts[i]
          /\ attempts'[j].deliveryGeneration = attempts[j].deliveryGeneration
      BY <1>2, <2>1, <2>2, <3>1, ReplacedAt DEF closes
    <3> QED BY <2>1, <3>2 DEF InOrderDelivery
  <2>3. CASE delivers(m, a)
    <3>1. attempts[i].state = "observed"
      BY <1>2, <2>1, <2>3, ReplacedAt DEF delivers
    <3>2. CASE attempts'[j].deliveryGeneration # attempts[j].deliveryGeneration
      <4>1. j = m /\ i # m /\ ~earlierUndelivered(j)
        BY <1>0, <1>2, <2>1, <2>3, <3>2, ReplacedAt DEF delivers
      <4>2. Settled(attempts[i])
        BY <1>0, <2>1, <3>1, <4>1 DEF earlierUndelivered
      <4> QED BY <1>2, <2>1, <4>1, <4>2, ReplacedAt
    <3>3. CASE attempts'[j].deliveryGeneration = attempts[j].deliveryGeneration
      <4>1. Settled(attempts[i])
        BY <2>1, <3>1, <3>3 DEF InOrderDelivery
      <4>2. i # m
        BY <2>3, <4>1 DEF delivers
      <4> QED BY <1>2, <2>1, <4>1, <4>2, ReplacedAt
    <3> QED BY <3>2, <3>3
  <2> QED BY <1>2, <2>2, <2>3 DEF replaces
<1>3. ASSUME NEW b \in Binding, NEW now \in Nat, appends(b, now)
      PROVE  Settled(attempts'[i])
  <2> DEFINE n == NewAttempt(b, generation + 1, now)
  <2>1. PICK k \in {0, 1} : appended(k, n)
    BY <1>3, Appended
  <2>2. n.deliveryGeneration = 0
    BY DEF NewAttempt
  <2> HIDE DEF n
  <2>3. j # Len(attempts')
    BY <2>1, <2>2 DEF appended
  <2>4. /\ i \in 1..(Len(attempts) - k) /\ j \in 1..(Len(attempts) - k)
        /\ i + k \in DOMAIN attempts /\ j + k \in DOMAIN attempts /\ i + k < j + k
    BY <1>0, <2>1, <2>3 DEF appended
  <2> QED BY <2>1, <2>4 DEF appended, InOrderDelivery
<1> QED BY <1>1, <1>2, <1>3, StepShape DEF shape

\* The later of two attempts starts at least either period after the earlier.
spaced(x, y) ==
  /\ y.startedAt >= x.startedAt + PeriodOf[x.binding]
  /\ y.startedAt >= x.startedAt + PeriodOf[y.binding]

\* The arithmetic of the two ways in which an operation falls due.
LEMMA RetryArithmetic ==
  ASSUME NEW xs \in Nat, NEW ls \in Nat, NEW lf \in Nat, NEW d \in Nat, NEW p \in Nat,
         NEW now \in Nat, ls >= xs + p, lf >= ls, now >= lf + d
  PROVE  now >= xs + p
OBVIOUS

LEMMA PeriodArithmetic ==
  ASSUME NEW xs \in Nat, NEW ls \in Nat, NEW p \in Nat, NEW q \in Nat, NEW now \in Nat,
         ls >= xs + p, now >= ls + q
  PROVE  now >= xs + p /\ now >= xs + q
OBVIOUS

\* A new attempt is spaced from every retained one that is not a window drain:
\* a drain is retried early only under its own binding, and it was itself spaced
\* from everything before it.
LEMMA NewAttemptSpaced ==
  ASSUME TypeOK, FileValid, RequestSpacing, NEW b \in Binding, NEW now \in Nat, appends(b, now),
         NEW i \in DOMAIN attempts, attempts[i].reason # "quota_window_draining"
  PROVE  spaced(attempts[i], NewAttempt(b, generation + 1, now))
<1> DEFINE l == attempts[Len(attempts)]
           x == attempts[i]
           n == NewAttempt(b, generation + 1, now)
<1>1. /\ Len(attempts) \in DOMAIN attempts /\ i \in 1..Len(attempts)
      /\ attempts # << >> /\ l \in Attempt /\ x \in Attempt
  BY DEF TypeOK
<1>2. l.state # "claimed" /\ dueForBinding(l, b, now)
  BY <1>1 DEF appends, mayBegin
<1>3. l.finishedAt >= l.startedAt
  BY <1>1, <1>2 DEF FileValid, validOperationAttemptState
<1>4. n.startedAt = now /\ n.binding = b
  BY DEF NewAttempt
<1>5. i # Len(attempts) => spaced(x, l)
  BY <1>1 DEF RequestSpacing, spaced
<1>6. /\ PeriodOf[b] \in Nat /\ PeriodOf[x.binding] \in Nat /\ PeriodOf[l.binding] \in Nat
      /\ l.startedAt \in Nat /\ l.finishedAt \in Nat /\ x.startedAt \in Nat
      /\ DeferredRetryDelay \in Nat
  BY <1>1, BindingAssumption, BoundAssumption DEF Attempt
<1>7. i = Len(attempts) => ~hasRetryableQuotaWindowDrain(l, b, now)
  BY DEF hasRetryableQuotaWindowDrain
<1>8. CASE hasRetryableQuotaWindowDrain(l, b, now)
  <2>1. l.binding = b /\ now >= l.finishedAt + DeferredRetryDelay
    BY <1>2, <1>8 DEF dueForBinding, hasRetryableQuotaWindowDrain
  <2>2. spaced(x, l)
    BY <1>5, <1>7, <1>8
  <2>3. l.startedAt >= x.startedAt + PeriodOf[x.binding]
        /\ l.startedAt >= x.startedAt + PeriodOf[b]
    BY <2>1, <2>2 DEF spaced
  <2>4. now >= x.startedAt + PeriodOf[x.binding] /\ now >= x.startedAt + PeriodOf[b]
    <3> HIDE DEF l, x
    <3> QED BY <1>3, <1>6, <2>1, <2>3, RetryArithmetic
  <2> QED BY <1>4, <2>4 DEF spaced
<1>9. CASE ~hasRetryableQuotaWindowDrain(l, b, now)
  <2>1. now >= l.startedAt + maxPeriod(l.binding, b)
    BY <1>2, <1>9 DEF dueForBinding
  <2>2. now >= l.startedAt + PeriodOf[l.binding] /\ now >= l.startedAt + PeriodOf[b]
    <3> HIDE DEF l
    <3> QED BY <1>6, <2>1 DEF maxPeriod
  <2>3. CASE i = Len(attempts)
    BY <1>4, <2>2, <2>3 DEF spaced
  <2>4. CASE i # Len(attempts)
    <3>1. spaced(x, l)
      BY <1>5, <2>4
    <3>2. l.startedAt >= x.startedAt + PeriodOf[x.binding]
      BY <3>1 DEF spaced
    <3>3. now >= x.startedAt + PeriodOf[x.binding] /\ now >= x.startedAt + PeriodOf[b]
      <4> HIDE DEF l, x
      <4> QED BY <1>6, <2>2, <3>2, PeriodArithmetic
    <3> QED BY <1>4, <3>3 DEF spaced
  <2> QED BY <2>3, <2>4
<1> QED BY <1>8, <1>9

LEMMA RequestSpacingStep ==
  TypeOK /\ FileValid /\ ClaimedIsLast /\ RequestSpacing /\ [Next]_vars => RequestSpacing'
<1> SUFFICES ASSUME TypeOK, FileValid, ClaimedIsLast, RequestSpacing, [Next]_vars,
                    NEW i \in DOMAIN attempts', NEW j \in DOMAIN attempts', i < j,
                    attempts'[i].reason # "quota_window_draining"
             PROVE  spaced(attempts'[i], attempts'[j])
  BY DEF RequestSpacing, spaced
<1>0. attempts' \in Seq(Attempt) /\ Len(attempts) \in Nat /\ DOMAIN attempts = 1..Len(attempts)
  BY TypeStep DEF TypeOK
<1>1. CASE UNCHANGED attempts
  BY <1>1 DEF RequestSpacing, spaced
<1>2. ASSUME NEW m \in DOMAIN attempts, NEW a \in Attempt, replaces(m, a)
      PROVE  spaced(attempts'[i], attempts'[j])
  <2>1. i \in DOMAIN attempts /\ j \in DOMAIN attempts
    BY <1>2, ReplacedAt
  <2>2. \A q \in DOMAIN attempts : /\ attempts'[q].startedAt = attempts[q].startedAt
                                   /\ attempts'[q].binding = attempts[q].binding
    BY <1>2, ReplacedAt DEF replaces, closes, delivers, evidence
  <2>3. attempts'[i].reason = attempts[i].reason
    <3>1. CASE closes(m, a)
      <4>1. i # m
        BY <1>0, <2>1, <3>1 DEF closes, ClaimedIsLast
      <4> QED BY <1>2, <2>1, <4>1, ReplacedAt
    <3>2. CASE delivers(m, a)
      BY <1>2, <2>1, <3>2, ReplacedAt DEF delivers, evidence
    <3> QED BY <1>2, <3>1, <3>2 DEF replaces
  <2> QED BY <2>1, <2>2, <2>3 DEF RequestSpacing, spaced
<1>3. ASSUME NEW b \in Binding, NEW now \in Nat, appends(b, now)
      PROVE  spaced(attempts'[i], attempts'[j])
  <2> DEFINE n == NewAttempt(b, generation + 1, now)
  <2>1. PICK k \in {0, 1} : appended(k, n)
    BY <1>3, Appended
  <2>2. i \in 1..(Len(attempts) - k) /\ i + k \in DOMAIN attempts /\ attempts'[i] = attempts[i + k]
    BY SMTT(30), <1>0, <2>1 DEF appended
  <2>3. CASE j = Len(attempts')
    BY <1>3, <2>1, <2>2, <2>3, NewAttemptSpaced DEF appended
  <2>4. CASE j # Len(attempts')
    <3> HIDE DEF n
    <3>1. Len(attempts') \in Nat /\ j \in 1..Len(attempts') /\ i \in Nat /\ k \in Nat
      BY <1>0, <2>2
    <3>2. Len(attempts') = Len(attempts) + 1 - k
      BY <2>1 DEF appended
    <3>3. j \in 1..(Len(attempts) - k) /\ j + k \in DOMAIN attempts /\ i + k < j + k
      BY <1>0, <2>4, <3>1, <3>2
    <3> QED BY <2>1, <2>2, <3>3 DEF appended, RequestSpacing, spaced
  <2> QED BY <2>3, <2>4
<1> QED BY <1>1, <1>2, <1>3, StepShape DEF shape

-----------------------------------------------------------------------------
(***************************************************************************)
(* The theorems.                                                           *)
(***************************************************************************)
LEMMA Invariance == Spec => []Inv
<1>1. Inv /\ [Next]_vars => Inv'
  BY TypeStep, FileValidStep, GenerationsStep, ClaimedIsLastStep, EvidenceWithinLeaseStep, RequestSpacingStep,
     InOrderDeliveryStep DEF Inv
<1> QED BY <1>1, InitInv, PTL DEF Spec

\* Type correctness of the ledger; every claim a caller holds names a generation
\* that was persisted before the claim was returned.
THEOREM TypeCorrect == Spec => []TypeOK
<1>1. Inv => TypeOK
  BY DEF Inv
<1> QED BY <1>1, Invariance, PTL

\* Of all claims BeginAttempt ever returned, at most one can change the ledger,
\* for any number of callers, any lease and any staleness of their clocks.
THEOREM ClaimsAreExclusive == Spec => []ClaimExclusive
<1>1. Inv => ClaimExclusive
  <2> SUFFICES ASSUME Inv, NEW c \in claims, NEW d \in claims,
                      NEW i \in DOMAIN attempts, NEW j \in DOMAIN attempts, holds(c, i), holds(d, j)
               PROVE  c = d /\ i = Len(attempts)
    BY DEF ClaimExclusive
  <2>1. i = Len(attempts) /\ j = Len(attempts)
    BY DEF Inv, ClaimedIsLast, holds
  <2>2. c \in Claim /\ d \in Claim
    BY DEF Inv, TypeOK
  <2>3. /\ c.binding = d.binding /\ c.generation = d.generation
        /\ c.startedAt = d.startedAt /\ c.expiresAt = d.expiresAt
    BY <2>1 DEF holds
  <2> QED BY <2>1, <2>2, <2>3 DEF Claim
<1> QED BY <1>1, Invariance, PTL

\* No outcome but unknown is accepted once the lease of an attempt has run out.
THEOREM EvidenceIsWithinLease == Spec => []EvidenceWithinLease
<1>1. Inv => EvidenceWithinLease
  BY DEF Inv
<1> QED BY <1>1, Invariance, PTL

\* Attempts that may have reached the provider are a full period apart, across
\* every chain of early retries and plan changes.
THEOREM RequestsAreSpaced == Spec => []RequestSpacing
<1>1. Inv => RequestSpacing
  BY DEF Inv
<1> QED BY <1>1, Invariance, PTL

\* Gatus deliveries are claimed in the order of the observations.
THEOREM DeliveryIsInOrder == Spec => []InOrderDelivery
<1>1. Inv => InOrderDelivery
  BY DEF Inv
<1> QED BY <1>1, Invariance, PTL

\* An attempt is found again after a step either as it was or replaced.
LEMMA SameGeneration ==
  ASSUME Inv, [Next]_vars, NEW i \in DOMAIN attempts, NEW j \in DOMAIN attempts',
         attempts'[j].generation = attempts[i].generation
  PROVE  \/ attempts'[j] = attempts[i]
         \/ replaces(i, attempts'[j]) /\ attempts'[j] \in Attempt
<1>0. /\ attempts' \in Seq(Attempt) /\ attempts'[j] \in Attempt /\ TypeOK
      /\ DOMAIN attempts = 1..Len(attempts) /\ Len(attempts) \in Nat /\ attempts[i] \in Attempt
  BY TypeStep DEF Inv, TypeOK
<1>1. \A x \in DOMAIN attempts : attempts[x].generation = attempts[i].generation => x = i
  <2>1. \A x \in DOMAIN attempts : attempts[x].generation \in Nat
    <3>1. ASSUME NEW x \in DOMAIN attempts PROVE attempts[x] \in Attempt
      BY <1>0 DEF TypeOK
    <3> QED BY <3>1 DEF Attempt
  <2> QED BY <1>0, <2>1 DEF Inv, GenerationsIncrease
<1>2. CASE UNCHANGED attempts
  BY <1>1, <1>2
<1>3. ASSUME NEW m \in DOMAIN attempts, NEW a \in Attempt, replaces(m, a)
      PROVE  \/ attempts'[j] = attempts[i]
             \/ replaces(i, attempts'[j])
  <2>1. j \in DOMAIN attempts /\ attempts'[j].generation = attempts[j].generation
    BY <1>0, <1>3, ReplacedAt DEF replaces, closes, delivers
  <2>2. i = j
    BY <1>1, <2>1
  <2> QED BY <1>0, <1>3, <2>2, ReplacedAt
<1>4. ASSUME NEW b \in Binding, NEW now \in Nat, appends(b, now)
      PROVE  attempts'[j] = attempts[i]
  <2> DEFINE n == NewAttempt(b, generation + 1, now)
  <2>1. PICK k \in {0, 1} : appended(k, n)
    BY <1>0, <1>4, Appended DEF Inv
  <2>2. n.generation = generation + 1
    BY DEF NewAttempt
  <2> HIDE DEF n
  <2>3. attempts[i].generation # generation + 1
    <3>0. attempts # << >> /\ generation \in Nat /\ FileValid
      BY <1>0 DEF Inv, TypeOK
    <3>1. attempts[i].generation <= generation
      BY <3>0 DEF FileValid, validOperationAttemptState
    <3>2. attempts[i].generation \in Nat
      BY <1>0 DEF Attempt
    <3> QED BY <3>0, <3>1, <3>2
  <2>4. j # Len(attempts')
    BY <2>1, <2>2, <2>3 DEF appended
  <2>5. j \in 1..(Len(attempts) - k) /\ j + k \in DOMAIN attempts
    BY <1>0, <2>1, <2>4 DEF appended
  <2> QED BY <1>1, <2>1, <2>5 DEF appended
<1> QED BY <1>0, <1>2, <1>3, <1>4, StepShape DEF shape, Inv

\* No call ever rewrites the evidence of a closed attempt: this is what makes an
\* unknown outcome final and fences workers that outlived their lease.
THEOREM ClosedAttemptsAreFrozen == Spec => ClosedIsFrozen
<1>1. ASSUME Inv, [Next]_vars, NEW i \in DOMAIN attempts, NEW j \in DOMAIN attempts',
             attempts[i].state # "claimed",
             attempts'[j].generation = attempts[i].generation
      PROVE  evidence(attempts'[j]) = evidence(attempts[i])
  <2>1. CASE attempts'[j] = attempts[i]
    BY <2>1
  <2>2. CASE replaces(i, attempts'[j])
    BY <1>1, <2>2 DEF replaces, closes, delivers
  <2> QED BY <1>1, <2>1, <2>2, SameGeneration
<1>2. Inv /\ [Next]_vars =>
        [\A i \in DOMAIN attempts, j \in DOMAIN attempts' :
           /\ attempts[i].state # "claimed"
           /\ attempts'[j].generation = attempts[i].generation
           => evidence(attempts'[j]) = evidence(attempts[i])]_vars
  BY <1>1
<1> QED BY <1>2, Invariance, PTL DEF ClosedIsFrozen, Spec

\* The outbox of an attempt only moves forward, and its readback is final.
THEOREM OutboxMovesForward == Spec => OutboxForward
<1>1. ASSUME NEW a \in Attempt PROVE deliveryRank(a) \in 0..3
  BY DEF Attempt, DeliveryStates, deliveryRank
<1>2. ASSUME Inv, [Next]_vars, NEW i \in DOMAIN attempts, NEW j \in DOMAIN attempts',
             attempts'[j].generation = attempts[i].generation
      PROVE  /\ deliveryRank(attempts'[j]) >= deliveryRank(attempts[i])
             /\ Settled(attempts[i]) => attempts'[j] = attempts[i]
  <2>0. attempts[i] \in Attempt /\ attempts # << >>
    BY <1>2 DEF Inv, TypeOK
  <2>1. CASE attempts'[j] = attempts[i]
    <3>1. deliveryRank(attempts[i]) \in 0..3
      BY <1>1, <2>0
    <3> QED BY <2>1, <3>1
  <2>2. CASE closes(i, attempts'[j]) /\ attempts'[j] \in Attempt
    <3>1. attempts[i].deliveryState = "not_ready"
      BY <1>2, <2>0, <2>2 DEF closes, Inv, FileValid, validOperationAttemptState, validEvidence
    <3>2. deliveryRank(attempts[i]) = 0 /\ ~Settled(attempts[i])
      BY <3>1 DEF deliveryRank, Settled
    <3>3. deliveryRank(attempts'[j]) \in 0..3
      BY <1>1, <2>2
    <3> QED BY <3>2, <3>3
  <2>3. CASE delivers(i, attempts'[j])
    BY <2>3 DEF delivers
  <2> QED BY <1>2, <2>1, <2>2, <2>3, SameGeneration DEF replaces
<1>3. Inv /\ [Next]_vars =>
        [\A i \in DOMAIN attempts, j \in DOMAIN attempts' :
           /\ attempts'[j].generation = attempts[i].generation
           => /\ deliveryRank(attempts'[j]) >= deliveryRank(attempts[i])
              /\ Settled(attempts[i]) => attempts'[j] = attempts[i]]_vars
  BY <1>2
<1> QED BY <1>3, Invariance, PTL DEF OutboxForward, Spec

\* Rotation never drops a claimed or ambiguous attempt, nor an observation that
\* Gatus has not read back.
THEOREM RotationIsSafe == Spec => RotationKeepsEvidence
<1>1. ASSUME Inv, [Next]_vars, NEW i \in DOMAIN attempts,
             \A j \in DOMAIN attempts' : attempts'[j].generation # attempts[i].generation
      PROVE  /\ attempts[i].state \notin {"claimed", "unknown"}
             /\ attempts[i].state = "observed" => Settled(attempts[i])
  <2>0. /\ TypeOK /\ FileValid /\ attempts' \in Seq(Attempt)
        /\ DOMAIN attempts = 1..Len(attempts) /\ Len(attempts) \in Nat
    BY <1>1, TypeStep DEF Inv, TypeOK
  <2>1. ~UNCHANGED attempts
    BY <1>1
  <2>2. ASSUME NEW m \in DOMAIN attempts, NEW a \in Attempt, replaces(m, a)
        PROVE  FALSE
    BY <1>1, <2>0, <2>2, ReplacedAt DEF replaces, closes, delivers
  <2>3. PICK b \in Binding, now \in Nat : appends(b, now)
    BY <1>1, <2>0, <2>1, <2>2, StepShape DEF shape
  <2> DEFINE n == NewAttempt(b, generation + 1, now)
  <2>4. PICK k \in {0, 1} : appended(k, n)
    BY <2>0, <2>3, Appended
  <2> HIDE DEF n
  <2>5. k = 1 /\ i = 1
    <3>1. SUFFICES ASSUME i - k \in 1..(Len(attempts) - k) PROVE FALSE
      BY <2>0
    <3>2. i - k \in DOMAIN attempts' /\ attempts'[i - k] = attempts[i]
      BY <2>0, <2>4, <3>1 DEF appended
    <3> QED BY <1>1, <3>2
  <2>6. ~pinned(attempts[1])
    BY <2>4, <2>5 DEF appended
  <2>7. attempts[i].state # "claimed"
    BY <1>1, <2>0, <2>3 DEF Inv, ClaimedIsLast, appends, mayBegin
  <2> QED BY <2>5, <2>6, <2>7 DEF pinned
<1>2. Inv /\ [Next]_vars =>
        [\A i \in DOMAIN attempts :
           (\A j \in DOMAIN attempts' : attempts'[j].generation # attempts[i].generation)
           => /\ attempts[i].state \notin {"claimed", "unknown"}
              /\ attempts[i].state = "observed" => Settled(attempts[i])]_vars
  BY <1>1
<1> QED BY <1>2, Invariance, PTL DEF RotationKeepsEvidence, Spec

-----------------------------------------------------------------------------
(***************************************************************************)
(* What the validator accepts: the writes the handlers are entitled to.    *)
(***************************************************************************)

\* What the validator says about one attempt of the ring.
validAt(as, i, gen, ever) ==
  /\ as[i].generation > (IF i = 1 THEN 0 ELSE as[i - 1].generation)
  /\ as[i].generation <= gen
  /\ as[i].startedAt # 0 /\ as[i].leaseExpiresAt >= as[i].startedAt
  /\ as[i].state # "claimed" => as[i].finishedAt # 0 /\ as[i].finishedAt >= as[i].startedAt
  /\ validEvidence(as[i])
  /\ as[i].requestStarted = "yes" => ever
  /\ validDelivery(as[i])

\* The flags of the file: a plan that started a request is one that did.
FlagsOrdered == currentPlanStarted => everStarted /\ attempts # << >>

LEMMA FlagsOrderedStep == FileValid /\ FlagsOrdered /\ [Next]_vars => FlagsOrdered'
<1> SUFFICES ASSUME FileValid, FlagsOrdered, [Next]_vars PROVE FlagsOrdered'
  OBVIOUS
<1>1. ASSUME NEW as, NEW plan, NEW ever, NEW curEver, writeState(as, plan, ever, curEver)
      PROVE  FlagsOrdered'
  <2>1. CASE UNCHANGED fileVars
    BY <2>1 DEF FlagsOrdered, fileVars
  <2>2. CASE /\ attempts' = as /\ everStarted' = ever /\ currentPlanStarted' = curEver
             /\ validOperationAttemptState(as, generation + 1, plan, ever, curEver)
    <3>1. (curEver => ever) /\ Len(as) \in 1..MaxHistory
      BY <2>2 DEF validOperationAttemptState
    <3>2. ASSUME as = << >> PROVE FALSE
      <4>1. Len(as) = 0
        BY <3>2
      <4> QED BY <3>1, <4>1, BoundAssumption
    <3> QED BY <2>2, <3>1, <3>2 DEF FlagsOrdered
  <2> QED BY <1>1, <2>1, <2>2, WriteShape
<1>2. ASSUME UNCHANGED fileVars PROVE FlagsOrdered'
  BY <1>2 DEF FlagsOrdered, fileVars
<1>3. ASSUME NEW i, NEW a, writeAttempt(i, a) PROVE FlagsOrdered'
  BY <1>1, <1>3 DEF writeAttempt
<1>4. ASSUME NEW now \in SampledNow, NEW b \in Binding, BeginAttempt(b, now) PROVE FlagsOrdered'
  BY <1>1, <1>3, <1>4 DEF BeginAttempt, BeginFindsExpired, BeginGrantsClaim
<1>5. ASSUME NEW now \in SampledNow, DeliveryStep(now) PROVE FlagsOrdered'
  BY <1>3, <1>5 DEF DeliveryStep, ClaimDelivery, RecordGatusReadback, AcknowledgeDelivery
<1>6. ASSUME NEW c \in claims, NEW now \in SampledNow, ClaimStep(c, now) PROVE FlagsOrdered'
  <2>1. CASE FailAttempt(c, now)
    BY <1>3, <2>1 DEF FailAttempt
  <2>2. CASE RecordRequestStarted(c, now)
    BY <1>1, <1>3, <2>2 DEF RecordRequestStarted, transitionClaim
  <2>3. CASE RecordBlockedAttempt(c, now)
    BY <1>1, <1>3, <2>3 DEF RecordBlockedAttempt, transitionClaim
  <2>4. ASSUME NEW reason \in DeferredReasons, RecordPreDispatchDeferred(c, reason, now)
        PROVE  FlagsOrdered'
    BY <1>1, <1>3, <2>4 DEF RecordPreDispatchDeferred, transitionClaim
  <2>5. ASSUME NEW observedAt, NEW receivedAt, NEW r, CompleteAttempt(c, observedAt, receivedAt, r, now)
        PROVE  FlagsOrdered'
    BY <1>1, <1>3, <2>5 DEF CompleteAttempt, transitionClaim
  <2> QED BY <1>6, <2>1, <2>2, <2>3, <2>4, <2>5 DEF ClaimStep
<1> QED BY <1>2, <1>4, <1>5, <1>6 DEF Next, Tick, vars

\* The attempts of a valid file, and what bounds their generations.
LEMMA ValidFile ==
  ASSUME Inv, NEW i \in DOMAIN attempts
  PROVE  /\ validAt(attempts, i, generation, everStarted)
         /\ attempts[i] \in Attempt /\ generation \in Nat
         /\ DOMAIN attempts = 1..Len(attempts) /\ Len(attempts) \in 1..MaxHistory
         /\ currentPlan = PlanOf[attempts[Len(attempts)].binding]
         /\ attempts[Len(attempts)].requestStarted = "yes" => currentPlanStarted
         /\ currentPlanStarted => everStarted
<1>1. attempts \in Seq(Attempt) /\ attempts # << >> /\ generation \in Nat
  BY DEF Inv, TypeOK
<1>2. validOperationAttemptState(attempts, generation, currentPlan, everStarted, currentPlanStarted)
  BY <1>1 DEF Inv, FileValid
<1> QED BY <1>1, <1>2 DEF validOperationAttemptState, validAt

\* Replacing one attempt by a valid one of the same identity is accepted.
LEMMA ReplacementAccepted ==
  ASSUME Inv, NEW i \in DOMAIN attempts, NEW a \in Attempt,
         a.generation = attempts[i].generation, a.binding = attempts[i].binding,
         a.startedAt = attempts[i].startedAt, a.leaseExpiresAt = attempts[i].leaseExpiresAt,
         a.requestStarted = attempts[i].requestStarted,
         a.state # "claimed" => a.finishedAt # 0 /\ a.finishedAt >= a.startedAt,
         validEvidence(a), validDelivery(a)
  PROVE  validOperationAttemptState([attempts EXCEPT ![i] = a], generation + 1, currentPlan,
                                    everStarted, currentPlanStarted)
<1> DEFINE as == [attempts EXCEPT ![i] = a]
           n == Len(attempts)
<1>0. /\ generation \in Nat /\ DOMAIN attempts = 1..n /\ n \in 1..MaxHistory /\ n \in Nat
      /\ currentPlan = PlanOf[attempts[n].binding]
      /\ attempts[n].requestStarted = "yes" => currentPlanStarted
      /\ currentPlanStarted => everStarted
  BY ValidFile, BoundAssumption
<1>1. attempts \in Seq(Attempt)
  BY DEF Inv, TypeOK
<1>2. /\ as \in Seq(Attempt) /\ Len(as) = n /\ DOMAIN as = DOMAIN attempts /\ as[i] = a
      /\ \A j \in DOMAIN attempts : j # i => as[j] = attempts[j]
  BY <1>1
<1>3. \A j \in DOMAIN attempts : /\ as[j].generation = attempts[j].generation
                                 /\ as[j].binding = attempts[j].binding
                                 /\ as[j].requestStarted = attempts[j].requestStarted
  BY <1>2
<1> HIDE DEF as, n
<1>4. ASSUME NEW j \in DOMAIN attempts PROVE validAt(as, j, generation + 1, everStarted)
  <2>1. validAt(attempts, j, generation, everStarted) /\ attempts[j] \in Attempt
    BY ValidFile
  <2>2. attempts[j].generation \in Nat
    BY <2>1 DEF Attempt
  <2>3. attempts[j].generation <= generation
    BY <2>1 DEF validAt
  <2>4. as[j].generation <= generation + 1
    <3>1. as[j].generation = attempts[j].generation /\ generation \in Nat
      BY <1>0, <1>3
    <3> QED BY <2>2, <2>3, <3>1
  <2>5. as[j].generation > (IF j = 1 THEN 0 ELSE as[j - 1].generation)
    <3>1. CASE j = 1
      BY <1>3, <2>1, <3>1 DEF validAt
    <3>2. CASE j # 1
      <4>1. j - 1 \in DOMAIN attempts
        BY <1>0, <3>2
      <4> QED BY <1>3, <2>1, <3>2, <4>1 DEF validAt
    <3> QED BY <3>1, <3>2
  <2>6. CASE j = i
    BY <1>2, <1>3, <2>1, <2>4, <2>5, <2>6 DEF validAt
  <2>7. CASE j # i
    BY <1>2, <2>1, <2>4, <2>5, <2>7 DEF validAt
  <2> QED BY <2>6, <2>7
<1>5. /\ as[n].binding = attempts[n].binding /\ as[n].requestStarted = attempts[n].requestStarted
      /\ as[n].generation <= generation + 1 /\ generation + 1 # 0
  <2>1. n \in DOMAIN attempts
    BY <1>0
  <2>2. generation + 1 # 0
    <3>1. generation \in Nat
      BY <1>0
    <3> QED BY <3>1
  <2>3. as[n].generation <= generation + 1
    BY <1>4, <2>1 DEF validAt
  <2> QED BY <1>3, <2>1, <2>2, <2>3
<1>6. validOperationAttemptState(as, generation + 1, currentPlan, everStarted, currentPlanStarted)
  BY <1>0, <1>2, <1>4, <1>5 DEF validOperationAttemptState, validAt
<1> QED BY <1>6 DEF as

\* An open claim can be closed as unknown.
LEMMA UnknownAccepted ==
  ASSUME Inv, NEW i \in DOMAIN attempts, NEW now \in Nat, attempts[i].state = "claimed",
         now >= attempts[i].startedAt
  PROVE  validOperationAttemptState([attempts EXCEPT ![i] = markUnknown(attempts[i], now)],
           generation + 1, currentPlan, everStarted, currentPlanStarted)
<1> DEFINE a == markUnknown(attempts[i], now)
<1>1. attempts[i] \in Attempt /\ validAt(attempts, i, generation, everStarted)
  BY ValidFile
<1>2. /\ a \in Attempt /\ a.state = "unknown" /\ a.finishedAt = now
      /\ a = [attempts[i] EXCEPT !.state = "unknown", !.finishedAt = now]
  BY <1>1, MarkUnknown DEF markUnknown, closedForm, Attempt
<1>3. /\ a.generation = attempts[i].generation /\ a.binding = attempts[i].binding
      /\ a.startedAt = attempts[i].startedAt /\ a.leaseExpiresAt = attempts[i].leaseExpiresAt
      /\ a.requestStarted = attempts[i].requestStarted /\ a.result = attempts[i].result
      /\ a.receiptValidated = attempts[i].receiptValidated /\ a.reason = attempts[i].reason
      /\ a.deliveryState = attempts[i].deliveryState
      /\ a.deliveryGeneration = attempts[i].deliveryGeneration
  BY <1>1, <1>2 DEF Attempt
<1>4. /\ attempts[i].deliveryState = "not_ready" /\ ~attempts[i].receiptValidated
      /\ attempts[i].requestStarted = "nil" /\ attempts[i].result = "nil"
      /\ attempts[i].reason = "none" /\ validDelivery(attempts[i])
  BY <1>1 DEF validAt, validEvidence
<1> HIDE DEF a
<1>5. validEvidence(a) /\ validDelivery(a)
  BY <1>2, <1>3, <1>4 DEF validEvidence, validDelivery
<1>6. a.finishedAt # 0 /\ a.finishedAt >= a.startedAt
  <2>1. attempts[i].startedAt \in Nat /\ attempts[i].startedAt # 0
    BY <1>1 DEF validAt, Attempt
  <2> QED BY <1>2, <1>3, <2>1
<1> QED BY <1>2, <1>3, <1>5, <1>6, ReplacementAccepted DEF a

\* An owed delivery can be claimed, within its attempts.
LEMMA DeliveryAccepted ==
  ASSUME Inv, NEW i \in DOMAIN attempts, NEW now \in Nat \ {0}, mayClaimDelivery(i, now),
         attempts[i].deliveryGeneration < MaxDeliveryAttempts
  PROVE  validOperationAttemptState(
           [attempts EXCEPT ![i] = [attempts[i] EXCEPT !.deliveryState = "pending",
              !.deliveryStartedAt = now, !.deliveryGeneration = @ + 1]],
           generation + 1, currentPlan, everStarted, currentPlanStarted)
<1> DEFINE x == attempts[i]
           g == attempts[i].deliveryGeneration + 1
           a == [x EXCEPT !.deliveryState = "pending", !.deliveryStartedAt = now,
                          !.deliveryGeneration = g]
<1>1. x \in Attempt /\ validAt(attempts, i, generation, everStarted)
  BY ValidFile
<1>2. g \in Nat /\ g >= 1 /\ g <= MaxDeliveryAttempts
  <2>1. attempts[i].deliveryGeneration \in Nat
    BY <1>1 DEF Attempt
  <2> QED BY <2>1, BoundAssumption
<1>3. x.state = "observed" /\ now >= x.receivedAt
  BY DEF mayClaimDelivery
<1> HIDE DEF x, g
<1>4. a \in Attempt /\ a.deliveryState = "pending" /\ a.deliveryStartedAt = now
      /\ a.deliveryGeneration = g
  BY <1>1, <1>2 DEF Attempt, DeliveryStates
<1>5. /\ a.generation = x.generation /\ a.binding = x.binding
      /\ a.startedAt = x.startedAt /\ a.leaseExpiresAt = x.leaseExpiresAt
      /\ a.requestStarted = x.requestStarted /\ a.result = x.result
      /\ a.receiptValidated = x.receiptValidated /\ a.reason = x.reason
      /\ a.state = x.state /\ a.finishedAt = x.finishedAt /\ a.receivedAt = x.receivedAt
  BY <1>1 DEF Attempt
<1>6. validEvidence(x) /\ x.finishedAt # 0 /\ x.finishedAt >= x.startedAt
  BY <1>1, <1>3 DEF validAt, x
<1> HIDE DEF a
<1>7. validEvidence(a)
  BY <1>3, <1>5, <1>6 DEF validEvidence
<1>8. validDelivery(a)
  BY <1>2, <1>3, <1>4, <1>5 DEF validDelivery
<1>9. validOperationAttemptState([attempts EXCEPT ![i] = a], generation + 1, currentPlan,
        everStarted, currentPlanStarted)
  BY <1>4, <1>5, <1>6, <1>7, <1>8, ReplacementAccepted DEF x
<1>10. a = [attempts[i] EXCEPT !.deliveryState = "pending", !.deliveryStartedAt = now,
                               !.deliveryGeneration = @ + 1]
  BY <1>1 DEF a, x, g, Attempt
<1> QED BY <1>9, <1>10

\* A due operation can be begun.
LEMMA BeginAccepted ==
  ASSUME Inv, FlagsOrdered, NEW b \in Binding, NEW now \in Nat \ {0}, mayBegin(b, now)
  PROVE  validOperationAttemptState(Append(rotated, NewAttempt(b, generation + 1, now)),
           generation + 1, PlanOf[b], everStarted, carriedStarted(b))
<1> DEFINE n == NewAttempt(b, generation + 1, now)
           as == Append(rotated, n)
<1>1. TypeOK /\ FileValid /\ generation \in Nat /\ Len(attempts) \in Nat
      /\ MaxHistory \in Nat \ {0} /\ DOMAIN attempts = 1..Len(attempts)
  BY BoundAssumption DEF Inv, TypeOK
<1>2. PICK k \in {0, 1} : rotatedBy(k)
  BY <1>1, Rotated
<1>3. Len(attempts) <= MaxHistory
  BY <1>1 DEF FileValid, validOperationAttemptState, TypeOK
<1>4. n \in Attempt
  BY <1>1, NewAttemptTyped
<1>5. /\ n.generation = generation + 1 /\ n.binding = b /\ n.startedAt = now
      /\ n.leaseExpiresAt = now + AttemptLease
      /\ n.state = "claimed" /\ n.finishedAt = 0 /\ n.requestStarted = "nil"
      /\ n.receiptValidated = FALSE /\ n.reason = "none" /\ n.result = "nil"
      /\ n.deliveryState = "not_ready" /\ n.deliveryGeneration = 0
  BY DEF NewAttempt
<1> HIDE DEF n
<1>6. validEvidence(n) /\ validDelivery(n)
  BY <1>5, BoundAssumption DEF validEvidence, validDelivery
<1> DEFINE m == Len(rotated)
<1>7. /\ as \in Seq(Attempt) /\ Len(as) = m + 1 /\ as[m + 1] = n /\ m \in Nat
      /\ m = Len(attempts) - k /\ m + 1 <= MaxHistory /\ DOMAIN as = 1..(m + 1)
      /\ \A j \in 1..m : as[j] = attempts[j + k] /\ j + k \in DOMAIN attempts
  <2>1. rotated \in Seq(Attempt) /\ Len(rotated) = Len(attempts) - k
        /\ \A j \in 1..(Len(attempts) - k) : rotated[j] = attempts[j + k]
        /\ (k = 1 <=> Len(attempts) >= MaxHistory) /\ k <= Len(attempts)
    BY <1>2 DEF rotatedBy
  <2>2. m \in Nat /\ m + 1 <= MaxHistory
    BY <1>1, <1>3, <2>1
  <2>3. as \in Seq(Attempt) /\ Len(as) = m + 1 /\ as[m + 1] = n /\ DOMAIN as = 1..(m + 1)
        /\ \A j \in 1..m : as[j] = rotated[j]
    BY <1>4, <2>1
  <2>4. \A j \in 1..m : j + k \in DOMAIN attempts
    BY <1>1, <2>1
  <2> QED BY <2>1, <2>2, <2>3, <2>4
<1> HIDE DEF as, m
<1>8. ASSUME NEW j \in 1..m
      PROVE  /\ validAt(attempts, j + k, generation, everStarted) /\ attempts[j + k] \in Attempt
             /\ attempts[j + k].generation \in Nat /\ attempts[j + k].generation <= generation
             /\ as[j] = attempts[j + k]
  BY <1>7, ValidFile DEF validAt, Attempt
<1>9. ASSUME NEW j \in 1..(m + 1) PROVE validAt(as, j, generation + 1, everStarted)
  <2>1. CASE j = m + 1
    <3>1. as[j] = n
      BY <1>7, <2>1
    <3>2. generation + 1 > (IF j = 1 THEN 0 ELSE as[j - 1].generation)
      <4>1. CASE j = 1
        BY <1>1, <4>1
      <4>2. CASE j # 1
        <5>1. j - 1 \in 1..m
          BY <1>7, <2>1, <4>2
        <5>2. as[j - 1].generation \in Nat /\ as[j - 1].generation <= generation
          BY <1>8, <5>1
        <5>3. generation + 1 > as[j - 1].generation
          <6>1. ASSUME NEW x \in Nat, x <= generation PROVE generation + 1 > x
            BY <1>1, <6>1
          <6> QED BY <5>2, <6>1
        <5> QED BY <4>2, <5>3
      <4> QED BY <4>1, <4>2
    <3>3. now # 0 /\ now + AttemptLease >= now /\ generation + 1 <= generation + 1
      BY <1>1, BoundAssumption
    <3> QED BY <1>5, <1>6, <3>1, <3>2, <3>3 DEF validAt
  <2>2. CASE j # m + 1
    <3>1. j \in 1..m
      BY <1>7, <2>2
    <3>2. validAt(attempts, j + k, generation, everStarted) /\ as[j] = attempts[j + k]
          /\ attempts[j + k].generation \in Nat /\ attempts[j + k].generation <= generation
      BY <1>8, <3>1
    <3>3. as[j].generation <= generation + 1
      BY <1>1, <3>2
    <3>4. as[j].generation > (IF j = 1 THEN 0 ELSE as[j - 1].generation)
      <4>1. CASE j = 1
        <5>1. k = 1 => attempts[1] \in Attempt /\ attempts[1].generation \in Nat
          <6>1. k = 1 => 1 \in DOMAIN attempts
            BY <1>1, <1>2 DEF rotatedBy
          <6>2. k = 1 => attempts[1] \in Attempt
            BY <6>1, ValidFile
          <6> QED BY <6>2 DEF Attempt
        <5>2. attempts[j + k].generation > (IF j + k = 1 THEN 0 ELSE attempts[j + k - 1].generation)
          BY <3>2 DEF validAt
        <5>3. as[j].generation = attempts[j + k].generation /\ attempts[j + k].generation \in Nat
          BY <3>2
        <5>4. CASE k = 0
          <6>1. j + k = 1
            BY <4>1, <5>4
          <6> QED BY <4>1, <5>2, <5>3, <6>1
        <5>5. CASE k = 1
          <6>1. j + k = 2 /\ j + k - 1 = 1 /\ j + k # 1
            BY <4>1, <5>5
          <6>2. attempts[j + k].generation > attempts[1].generation
            BY <5>2, <6>1
          <6>3. attempts[1].generation \in Nat
            BY <5>1, <5>5
          <6>4. attempts[j + k].generation > 0
            BY <5>3, <6>2, <6>3
          <6> QED BY <4>1, <5>3, <6>4
        <5> QED BY <5>4, <5>5
      <4>2. CASE j # 1
        <5>1. j - 1 \in 1..m /\ (j - 1) + k = j + k - 1 /\ j + k # 1
          BY <1>7, <3>1, <4>2
        <5>2. as[j - 1] = attempts[j + k - 1]
          BY <1>8, <5>1
        <5> QED BY <3>2, <4>2, <5>1, <5>2 DEF validAt
      <4> QED BY <4>1, <4>2
    <3> QED BY <3>2, <3>3, <3>4 DEF validAt
  <2> QED BY <2>1, <2>2
<1>10. carriedStarted(b) => everStarted
  BY DEF carriedStarted, FlagsOrdered
<1>11. generation + 1 # 0 /\ generation + 1 <= generation + 1 /\ m + 1 \in 1..MaxHistory
  BY <1>1, <1>7
<1>12. validOperationAttemptState(as, generation + 1, PlanOf[b], everStarted, carriedStarted(b))
  BY <1>5, <1>7, <1>9, <1>10, <1>11 DEF validOperationAttemptState, validAt
<1> QED BY <1>12 DEF as, n

LEMMA FlagsInvariance == Spec => []FlagsOrdered
<1>1. Init => FlagsOrdered
  BY DEF Init, FlagsOrdered
<1>2. Inv /\ FlagsOrdered /\ [Next]_vars => FlagsOrdered'
  BY FlagsOrderedStep DEF Inv
<1> QED BY <1>1, <1>2, Invariance, PTL DEF Spec

\* The validator never wedges the ledger: an open claim can be closed, a due
\* operation begun and an owed delivery claimed, for every ring size, lease and
\* staleness of the callers' clocks (writeState, validOperationAttemptState).
THEOREM NoWriteIsRefused == Spec => []NoWriteRefused
<1>1. Inv /\ FlagsOrdered => NoWriteRefused
  <2> SUFFICES ASSUME Inv, FlagsOrdered PROVE NoWriteRefused
    OBVIOUS
  <2>1. \A now \in SampledNow : now \in Nat \ {0}
    BY DEF SampledNow, Inv, TypeOK
  <2> QED BY <2>1, BeginAccepted, UnknownAccepted, DeliveryAccepted DEF NoWriteRefused
<1> QED BY <1>1, Invariance, FlagsInvariance, PTL

-----------------------------------------------------------------------------
(***************************************************************************)
(* The delivery claims.                                                    *)
(***************************************************************************)

\* The attempt knows every delivery claim on it: none has a later generation or
\* time, and an attempt that was never claimed has none.
knowsClaims(a, ds) ==
  /\ a.deliveryState = "not_ready" => a.deliveryGeneration = 0
  /\ \A d \in ds : d.attemptGeneration = a.generation =>
       /\ d.deliveryGeneration <= a.deliveryGeneration
       /\ d.claimedAt <= a.deliveryStartedAt

DeliveryAccounted ==
  /\ \A i \in DOMAIN attempts : knowsClaims(attempts[i], deliveryClaims)
  /\ \A d \in deliveryClaims : d.deliveryGeneration > 0 /\ d.attemptGeneration <= generation

\* Every attempt of the next ring knows the claims made before the step.
LEMMA OldClaimsKnown ==
  ASSUME Inv, DeliveryAccounted, [Next]_vars, NEW j \in DOMAIN attempts'
  PROVE  knowsClaims(attempts'[j], deliveryClaims)
<1>0. /\ TypeOK /\ FileValid /\ attempts' \in Seq(Attempt) /\ attempts'[j] \in Attempt
      /\ DOMAIN attempts = 1..Len(attempts) /\ Len(attempts) \in Nat
      /\ deliveryClaims \subseteq DeliveryClaim /\ generation \in Nat
  BY TypeStep DEF Inv, TypeOK
<1>1. CASE UNCHANGED attempts
  BY <1>1 DEF DeliveryAccounted
<1>2. ASSUME NEW i \in DOMAIN attempts, NEW a \in Attempt, replaces(i, a)
      PROVE  knowsClaims(attempts'[j], deliveryClaims)
  <2>1. CASE j # i
    BY <1>0, <1>2, <2>1, ReplacedAt DEF DeliveryAccounted
  <2>2. CASE j = i
    <3> DEFINE x == attempts[i]
    <3>0. attempts'[j] = a /\ x \in Attempt /\ knowsClaims(x, deliveryClaims)
      BY <1>0, <1>2, <2>2, ReplacedAt, ValidFile DEF DeliveryAccounted
    <3>1. ASSUME x.deliveryGeneration = 0, NEW d \in deliveryClaims, d.attemptGeneration = x.generation
          PROVE  FALSE
      <4>1. d.deliveryGeneration \in Nat /\ d.deliveryGeneration > 0 /\ d.deliveryGeneration <= 0
        BY <1>0, <3>0, <3>1 DEF DeliveryAccounted, knowsClaims, DeliveryClaim
      <4> QED BY <4>1
    <3>2. CASE closes(i, a)
      <4>1. x.deliveryState = "not_ready"
        BY <3>2, ValidFile DEF closes, validAt, validEvidence
      <4>2. x.deliveryGeneration = 0 /\ a.deliveryGeneration = 0 /\ a.generation = x.generation
        BY <3>0, <3>2, <4>1 DEF knowsClaims, closes
      <4> QED BY <3>0, <3>1, <4>2 DEF knowsClaims
    <3>3. CASE /\ delivers(i, a) /\ a.deliveryGeneration = x.deliveryGeneration
               /\ a.deliveryStartedAt = x.deliveryStartedAt
      BY <3>0, <3>3 DEF delivers, knowsClaims
    <3>4. CASE /\ delivers(i, a) /\ a.deliveryGeneration = x.deliveryGeneration + 1
               /\ mayClaimDelivery(i, a.deliveryStartedAt)
      <4>1. a.generation = x.generation /\ a.deliveryState # "not_ready"
        BY <3>4 DEF delivers
      <4>2. ASSUME NEW d \in deliveryClaims, d.attemptGeneration = x.generation
            PROVE  /\ d.deliveryGeneration <= a.deliveryGeneration
                   /\ d.claimedAt <= a.deliveryStartedAt
        <5>1. x.deliveryState # "not_ready"
          BY <3>0, <3>1, <4>2 DEF knowsClaims
        <5>2. a.deliveryStartedAt >= x.deliveryStartedAt + DeliveryLease
          BY <3>4, <5>1 DEF mayClaimDelivery
        <5>3. d.deliveryGeneration <= x.deliveryGeneration /\ d.claimedAt <= x.deliveryStartedAt
          BY <3>0, <4>2 DEF knowsClaims
        <5>4. /\ d.deliveryGeneration \in Nat /\ d.claimedAt \in Nat
              /\ x.deliveryGeneration \in Nat /\ x.deliveryStartedAt \in Nat
              /\ a.deliveryStartedAt \in Nat /\ DeliveryLease \in Nat
          BY <1>0, <1>2, <3>0, BoundAssumption DEF DeliveryClaim, Attempt
        <5> HIDE DEF x
        <5>5. d.deliveryGeneration <= a.deliveryGeneration
          BY <3>4, <5>3, <5>4
        <5>6. d.claimedAt <= a.deliveryStartedAt
          BY <5>2, <5>3, <5>4
        <5> QED BY <5>5, <5>6
      <4> QED BY <3>0, <4>1, <4>2 DEF knowsClaims
    <3> QED BY <1>2, <3>2, <3>3, <3>4 DEF replaces, delivers
  <2> QED BY <2>1, <2>2
<1>3. ASSUME NEW b \in Binding, NEW now \in Nat, appends(b, now)
      PROVE  knowsClaims(attempts'[j], deliveryClaims)
  <2> DEFINE n == NewAttempt(b, generation + 1, now)
  <2>1. PICK k \in {0, 1} : appended(k, n)
    BY <1>0, <1>3, Appended
  <2>2. n.generation = generation + 1 /\ n.deliveryGeneration = 0
    BY DEF NewAttempt
  <2> HIDE DEF n
  <2>3. CASE j = Len(attempts')
    <3>1. attempts'[j] = n
      BY <2>1, <2>3 DEF appended
    <3>2. ASSUME NEW d \in deliveryClaims PROVE d.attemptGeneration # generation + 1
      <4>1. d.attemptGeneration \in Nat /\ d.attemptGeneration <= generation
        BY <1>0 DEF DeliveryAccounted, DeliveryClaim
      <4> QED BY <1>0, <4>1
    <3> QED BY <2>2, <3>1, <3>2 DEF knowsClaims
  <2>4. CASE j # Len(attempts')
    <3>1. j \in 1..(Len(attempts) - k) /\ j + k \in DOMAIN attempts
      BY <1>0, <2>1, <2>4 DEF appended
    <3> QED BY <2>1, <3>1 DEF appended, DeliveryAccounted
  <2> QED BY <2>3, <2>4
<1> QED BY <1>0, <1>1, <1>2, <1>3, StepShape DEF shape

\* A delivery claim is only handed out by ClaimDelivery.
LEMMA DeliveryClaimsGrow ==
  ASSUME [Next]_vars
  PROVE  \/ UNCHANGED deliveryClaims
         \/ \E now \in SampledNow, i \in DOMAIN attempts : ClaimDelivery(i, now)
<1>1. ASSUME NEW now \in SampledNow, NEW c \in claims, ClaimStep(c, now)
      PROVE  UNCHANGED deliveryClaims
  BY <1>1 DEF ClaimStep, CompleteAttempt, RecordRequestStarted, RecordBlockedAttempt,
              RecordPreDispatchDeferred, FailAttempt, transitionClaim
<1>2. ASSUME NEW now \in SampledNow, NEW b \in Binding, BeginAttempt(b, now)
      PROVE  UNCHANGED deliveryClaims
  BY <1>2 DEF BeginAttempt, BeginFindsExpired, BeginGrantsClaim
<1>3. ASSUME NEW now \in SampledNow, DeliveryStep(now)
      PROVE  UNCHANGED deliveryClaims \/ \E i \in DOMAIN attempts : ClaimDelivery(i, now)
  BY <1>3 DEF DeliveryStep, RecordGatusReadback, AcknowledgeDelivery
<1> QED BY <1>1, <1>2, <1>3 DEF Next, Tick, vars

\* What ClaimDelivery leaves behind: the write it made was accepted.
LEMMA ClaimDeliveryEffect ==
  ASSUME Inv, NEW now \in SampledNow, NEW i \in DOMAIN attempts, ClaimDelivery(i, now)
  PROVE  LET d == [attemptGeneration |-> attempts[i].generation,
                   deliveryGeneration |-> attempts[i].deliveryGeneration + 1, claimedAt |-> now] IN
           /\ deliveryClaims' = deliveryClaims \cup {d}
           /\ DOMAIN attempts' = DOMAIN attempts /\ generation' = generation + 1
           /\ attempts'[i].generation = attempts[i].generation
           /\ attempts'[i].deliveryState = "pending"
           /\ attempts'[i].deliveryGeneration = attempts[i].deliveryGeneration + 1
           /\ attempts'[i].deliveryStartedAt = now
           /\ \A j \in DOMAIN attempts : j # i => attempts'[j] = attempts[j]
<1> DEFINE a == [attempts[i] EXCEPT !.deliveryState = "pending", !.deliveryStartedAt = now,
                                    !.deliveryGeneration = @ + 1]
<1>1. now \in Nat \ {0}
  BY DEF SampledNow, Inv, TypeOK
<1>2. validOperationAttemptState([attempts EXCEPT ![i] = a], generation + 1, currentPlan,
                                 everStarted, currentPlanStarted)
  BY <1>1, DeliveryAccepted DEF ClaimDelivery
<1>3. attempts' = [attempts EXCEPT ![i] = a] /\ generation' = generation + 1
  BY <1>2 DEF ClaimDelivery, writeAttempt, writeState
<1>4. attempts[i] \in Attempt /\ attempts \in Seq(Attempt)
  BY ValidFile DEF Inv, TypeOK
<1>5. /\ a.generation = attempts[i].generation /\ a.deliveryState = "pending"
      /\ a.deliveryGeneration = attempts[i].deliveryGeneration + 1 /\ a.deliveryStartedAt = now
  BY <1>4 DEF Attempt
<1> HIDE DEF a
<1>6. /\ DOMAIN attempts' = DOMAIN attempts /\ attempts'[i] = a
      /\ \A j \in DOMAIN attempts : j # i => attempts'[j] = attempts[j]
  BY <1>3, <1>4
<1>7. deliveryClaims' = deliveryClaims \cup
        {[attemptGeneration |-> attempts[i].generation,
          deliveryGeneration |-> attempts[i].deliveryGeneration + 1, claimedAt |-> now]}
  BY DEF ClaimDelivery
<1> QED BY <1>3, <1>5, <1>6, <1>7

LEMMA DeliveryStepKeeps ==
  Inv /\ DeliveryAccounted /\ DeliveryExclusive /\ [Next]_vars
    => DeliveryAccounted' /\ DeliveryExclusive'
<1> SUFFICES ASSUME Inv, DeliveryAccounted, DeliveryExclusive, [Next]_vars
             PROVE  DeliveryAccounted' /\ DeliveryExclusive'
  OBVIOUS
<1>0. /\ deliveryClaims \subseteq DeliveryClaim /\ generation \in Nat /\ generation' \in Nat
      /\ generation <= generation'
  BY ScalarStep DEF Inv, TypeOK, scalarsTyped
<1>1. ASSUME NEW d \in deliveryClaims
      PROVE  d.deliveryGeneration > 0 /\ d.attemptGeneration <= generation'
  <2>1. d.attemptGeneration \in Nat /\ d.attemptGeneration <= generation /\ d.deliveryGeneration > 0
    BY <1>0 DEF DeliveryAccounted, DeliveryClaim
  <2> QED BY <1>0, <2>1
<1>2. CASE UNCHANGED deliveryClaims
  <2>1. \A j \in DOMAIN attempts' : knowsClaims(attempts'[j], deliveryClaims')
    BY <1>2, OldClaimsKnown
  <2> QED BY <1>1, <1>2, <2>1 DEF DeliveryAccounted, DeliveryExclusive, knowsClaims
<1>3. ASSUME NEW now \in SampledNow, NEW i \in DOMAIN attempts, ClaimDelivery(i, now)
      PROVE  DeliveryAccounted' /\ DeliveryExclusive'
  <2> DEFINE x == attempts[i]
             d == [attemptGeneration |-> x.generation,
                   deliveryGeneration |-> x.deliveryGeneration + 1, claimedAt |-> now]
  <2>1. /\ deliveryClaims' = deliveryClaims \cup {d} /\ DOMAIN attempts' = DOMAIN attempts
        /\ attempts'[i].generation = x.generation
        /\ attempts'[i].deliveryGeneration = x.deliveryGeneration + 1
        /\ attempts'[i].deliveryStartedAt = now
        /\ \A j \in DOMAIN attempts : j # i => attempts'[j] = attempts[j]
        /\ generation' = generation + 1
    BY <1>3, ClaimDeliveryEffect
  <2>2. /\ x \in Attempt /\ now \in Nat /\ x.generation \in Nat /\ x.deliveryGeneration \in Nat
        /\ x.deliveryStartedAt \in Nat /\ DeliveryLease \in Nat /\ x.generation <= generation
    <3>1. x \in Attempt /\ validAt(attempts, i, generation, everStarted) /\ DeliveryLease \in Nat
      BY ValidFile, BoundAssumption
    <3>2. now \in Nat
      BY DEF SampledNow, Inv, TypeOK
    <3>3. x.generation <= generation
      BY <3>1 DEF validAt
    <3>4. x.generation \in Nat /\ x.deliveryGeneration \in Nat /\ x.deliveryStartedAt \in Nat
      BY <3>1 DEF Attempt
    <3> QED BY <3>1, <3>2, <3>3, <3>4
  <2>3. /\ d.attemptGeneration = x.generation /\ d.claimedAt = now
        /\ d.deliveryGeneration = x.deliveryGeneration + 1
    OBVIOUS
  <2>4. ASSUME NEW j \in DOMAIN attempts, j # i PROVE attempts[j].generation # x.generation
    <3>1. attempts[j] \in Attempt /\ DOMAIN attempts = 1..Len(attempts)
      BY ValidFile
    <3>2. attempts[j].generation \in Nat
      BY <3>1 DEF Attempt
    <3>3. i < j \/ j < i
      BY <2>4, <3>1
    <3>4. attempts[j].generation < x.generation \/ x.generation < attempts[j].generation
      BY <3>3 DEF Inv, GenerationsIncrease
    <3> QED BY <2>2, <3>2, <3>4
  <2>5. mayClaimDelivery(i, now)
    BY <1>3 DEF ClaimDelivery
  <2> HIDE DEF d, x
  <2>6. ASSUME NEW j \in DOMAIN attempts'
        PROVE  knowsClaims(attempts'[j], deliveryClaims')
    <3>1. knowsClaims(attempts'[j], deliveryClaims)
      BY OldClaimsKnown
    <3>2. CASE j = i
      <4>1. d.deliveryGeneration <= attempts'[j].deliveryGeneration
            /\ d.claimedAt <= attempts'[j].deliveryStartedAt
        BY <2>1, <2>2, <2>3, <3>2
      <4> QED BY <2>1, <3>1, <4>1 DEF knowsClaims
    <3>3. CASE j # i
      <4>1. attempts'[j].generation # d.attemptGeneration
        BY <2>1, <2>3, <2>4, <3>3
      <4> QED BY <2>1, <3>1, <4>1 DEF knowsClaims
    <3> QED BY <3>2, <3>3
  <2>7. \A c \in deliveryClaims' : c.deliveryGeneration > 0 /\ c.attemptGeneration <= generation'
    <3>1. d.deliveryGeneration > 0 /\ d.attemptGeneration <= generation'
      BY <1>0, <2>1, <2>2, <2>3
    <3> QED BY <1>1, <2>1, <3>1
  <2>8. ASSUME NEW c \in deliveryClaims, c.attemptGeneration = d.attemptGeneration
        PROVE  now >= c.claimedAt + DeliveryLease /\ c.deliveryGeneration < d.deliveryGeneration
    <3>1. /\ c.deliveryGeneration <= x.deliveryGeneration /\ c.claimedAt <= x.deliveryStartedAt
          /\ x.deliveryState = "not_ready" => x.deliveryGeneration = 0
      BY <2>3, <2>8 DEF DeliveryAccounted, knowsClaims, x
    <3>2. c.deliveryGeneration \in Nat /\ c.claimedAt \in Nat /\ c.deliveryGeneration > 0
      BY <1>0 DEF DeliveryAccounted, DeliveryClaim
    <3>3. x.deliveryState # "not_ready"
      BY <2>2, <3>1, <3>2
    <3>4. now >= x.deliveryStartedAt + DeliveryLease
      BY <2>5, <3>3 DEF mayClaimDelivery, x
    <3> QED BY <2>2, <2>3, <3>1, <3>2, <3>4
  <2>9. DeliveryExclusive'
    <3> SUFFICES ASSUME NEW c \in deliveryClaims', NEW e \in deliveryClaims',
                        c.attemptGeneration = e.attemptGeneration,
                        c.deliveryGeneration < e.deliveryGeneration
                 PROVE  e.claimedAt >= c.claimedAt + DeliveryLease
      BY DEF DeliveryExclusive
    <3>1. CASE c \in deliveryClaims /\ e \in deliveryClaims
      BY <3>1 DEF DeliveryExclusive
    <3>2. CASE c \in deliveryClaims /\ e = d
      BY <2>3, <2>8, <3>2
    <3>3. CASE c = d /\ e \in deliveryClaims
      <4>1. e.deliveryGeneration < d.deliveryGeneration /\ d.deliveryGeneration < e.deliveryGeneration
        BY <2>8, <3>3
      <4>2. e.deliveryGeneration \in Nat /\ d.deliveryGeneration \in Nat
        BY <1>0, <2>2, <2>3, <3>3 DEF DeliveryClaim
      <4> QED BY <4>1, <4>2
    <3>4. CASE c = d /\ e = d
      BY <2>2, <2>3, <3>4
    <3> QED BY <2>1, <3>1, <3>2, <3>3, <3>4
  <2> QED BY <2>6, <2>7, <2>9 DEF DeliveryAccounted
<1> QED BY <1>2, <1>3, DeliveryClaimsGrow

\* Two deliveries of one observation are claimed at least a delivery lease apart,
\* for any number of deliverers and any staleness of their clocks (ClaimDelivery).
THEOREM DeliveriesAreExclusive == Spec => []DeliveryExclusive
<1>1. Init => DeliveryAccounted /\ DeliveryExclusive
  BY DEF Init, DeliveryAccounted, DeliveryExclusive
<1>2. Spec => [](DeliveryAccounted /\ DeliveryExclusive)
  BY <1>1, DeliveryStepKeeps, Invariance, PTL DEF Spec
<1> QED BY <1>2, PTL

-----------------------------------------------------------------------------
(***************************************************************************)
(* The evidence of the current plan.                                       *)
(***************************************************************************)

\* A retained attempt of the current plan reached the provider.
startedUnderPlan ==
  \E i \in DOMAIN attempts : attempts[i].requestStarted = "yes" /\ underCurrentPlan(i)

LEMMA PlanEvidenceParts ==
  PlanEvidenceExact <=>
    /\ startedUnderPlan => currentPlanStarted
    /\ Len(attempts) < MaxHistory /\ currentPlanStarted => startedUnderPlan
BY DEF PlanEvidenceExact, startedUnderPlan

\* Closing the claimed attempt records whether its request started.
LEMMA ClosingKeepsEvidence ==
  ASSUME Inv, PlanEvidenceExact, NEW i \in DOMAIN attempts, attempts[i].state = "claimed",
         NEW a, closedForm(attempts[i], a), attempts' = [attempts EXCEPT ![i] = a],
         currentPlan' = currentPlan,
         currentPlanStarted' <=> currentPlanStarted \/ a.requestStarted = "yes"
  PROVE  PlanEvidenceExact'
<1> DEFINE n == Len(attempts)
<1>0. /\ attempts \in Seq(Attempt) /\ i = n /\ n \in Nat /\ DOMAIN attempts = 1..n
      /\ currentPlan = PlanOf[attempts[n].binding] /\ attempts[n].requestStarted = "nil"
  <2>1. i = n
    BY DEF Inv, ClaimedIsLast
  <2>2. attempts[i].requestStarted = "nil"
    BY ValidFile DEF validAt, validEvidence
  <2> QED BY <2>1, <2>2, ValidFile DEF Inv, TypeOK
<1>1. /\ Len(attempts') = n /\ DOMAIN attempts' = DOMAIN attempts /\ attempts'[n] = a
      /\ \A j \in DOMAIN attempts : j # n => attempts'[j] = attempts[j]
  BY <1>0 DEF closedForm
<1>2. \A j \in DOMAIN attempts : attempts'[j].binding = attempts[j].binding
  BY <1>0, <1>1 DEF closedForm
<1> HIDE DEF n
<1>3. ASSUME NEW j \in DOMAIN attempts PROVE underCurrentPlan(j)' <=> underCurrentPlan(j)
  <2>1. \A k \in j..n : k \in DOMAIN attempts
    BY <1>0
  <2> QED BY <1>1, <1>2, <2>1 DEF underCurrentPlan, n
<1>4. underCurrentPlan(i)' /\ attempts'[i] = a
  <2>1. \A k \in i..Len(attempts') : k = i
    BY <1>0, <1>1
  <2> QED BY <1>0, <1>1, <1>2, <2>1 DEF underCurrentPlan
<1>5. startedUnderPlan' <=> startedUnderPlan \/ a.requestStarted = "yes"
  <2>1. a.requestStarted = "yes" => startedUnderPlan'
    BY <1>1, <1>4 DEF startedUnderPlan
  <2>2. startedUnderPlan => startedUnderPlan'
    BY <1>0, <1>1, <1>3 DEF startedUnderPlan
  <2>3. startedUnderPlan' => startedUnderPlan \/ a.requestStarted = "yes"
    BY <1>1, <1>3 DEF startedUnderPlan
  <2> QED BY <2>1, <2>2, <2>3
<1>6. /\ startedUnderPlan' => currentPlanStarted'
      /\ Len(attempts') < MaxHistory /\ currentPlanStarted' => startedUnderPlan'
  BY <1>1, <1>5, PlanEvidenceParts DEF n
<1> QED BY <1>6 DEF PlanEvidenceExact, startedUnderPlan

\* A delivery changes no evidence, bindings or flags.
LEMMA DeliveryKeepsEvidence ==
  ASSUME Inv, PlanEvidenceExact, NEW i \in DOMAIN attempts, NEW a,
         a.binding = attempts[i].binding, a.requestStarted = attempts[i].requestStarted,
         writeAttempt(i, a)
  PROVE  PlanEvidenceExact'
<1>1. CASE UNCHANGED fileVars
  BY <1>1 DEF fileVars, PlanEvidenceExact, underCurrentPlan
<1>2. CASE /\ attempts' = [attempts EXCEPT ![i] = a] /\ currentPlan' = currentPlan
           /\ currentPlanStarted' = currentPlanStarted
  <2>1. /\ Len(attempts') = Len(attempts) /\ DOMAIN attempts' = DOMAIN attempts
        /\ DOMAIN attempts = 1..Len(attempts) /\ Len(attempts) \in Nat
        /\ \A j \in DOMAIN attempts : /\ attempts'[j].binding = attempts[j].binding
                                      /\ attempts'[j].requestStarted = attempts[j].requestStarted
    BY <1>2 DEF Inv, TypeOK
  <2>2. ASSUME NEW j \in DOMAIN attempts PROVE underCurrentPlan(j)' <=> underCurrentPlan(j)
    <3>1. \A k \in j..Len(attempts) : k \in DOMAIN attempts
      BY <2>1
    <3> QED BY <1>2, <2>1, <3>1 DEF underCurrentPlan
  <2>3. startedUnderPlan' <=> startedUnderPlan
    BY <2>1, <2>2 DEF startedUnderPlan
  <2>4. /\ startedUnderPlan' => currentPlanStarted'
        /\ Len(attempts') < MaxHistory /\ currentPlanStarted' => startedUnderPlan'
    BY <1>2, <2>1, <2>3, PlanEvidenceParts
  <2> QED BY <2>4 DEF PlanEvidenceExact, startedUnderPlan
<1> QED BY <1>1, <1>2, WriteShape DEF writeAttempt

\* A new claim starts afresh unless it is made under the same plan.
LEMMA BeginKeepsEvidence ==
  ASSUME Inv, PlanEvidenceExact, NEW b \in Binding, NEW now \in Nat, mayBegin(b, now),
         attempts' = Append(rotated, NewAttempt(b, generation + 1, now)),
         currentPlan' = PlanOf[b], currentPlanStarted' = carriedStarted(b)
  PROVE  PlanEvidenceExact'
<1> DEFINE n == NewAttempt(b, generation + 1, now)
           m == Len(attempts')
<1>0. /\ TypeOK /\ FileValid /\ appends(b, now) /\ Len(attempts) \in Nat
      /\ DOMAIN attempts = 1..Len(attempts)
  BY DEF Inv, appends, TypeOK
<1>1. PICK k \in {0, 1} : appended(k, n)
  BY <1>0, Appended
<1>2. attempts' \in Seq(Attempt)
  BY <1>0, Appended
<1>3. n.requestStarted = "nil" /\ n.binding = b
  BY DEF NewAttempt
<1> HIDE DEF n
<1>4. /\ m = Len(attempts) + 1 - k /\ attempts'[m] = n /\ DOMAIN attempts' = 1..m /\ m \in Nat
      /\ \A j \in 1..(Len(attempts) - k) : attempts'[j] = attempts[j + k] /\ j + k \in DOMAIN attempts
      /\ k <= Len(attempts)
  BY <1>0, <1>1, <1>2 DEF appended
<1> HIDE DEF m
\* What is under the current plan afterwards was so before, if the plan stays.
<1>5. ASSUME NEW j \in DOMAIN attempts', attempts'[j].requestStarted = "yes", underCurrentPlan(j)'
      PROVE  currentPlan = PlanOf[b] /\ startedUnderPlan
  <2>1. j # m
    BY <1>3, <1>4, <1>5
  <2>2. j \in 1..(Len(attempts) - k) /\ j + k \in DOMAIN attempts
    BY <1>0, <1>4, <2>1
  <2>3. ASSUME NEW q \in (j + k)..Len(attempts)
        PROVE  PlanOf[attempts[q].binding] = PlanOf[b] /\ q \in DOMAIN attempts
    <3>1. q - k \in 1..(Len(attempts) - k) /\ q - k \in j..m /\ (q - k) + k = q
      BY <1>0, <1>4, <2>2
    <3>2. attempts'[q - k] = attempts[q] /\ q \in DOMAIN attempts
      BY <1>4, <3>1
    <3>3. PlanOf[attempts'[q - k].binding] = PlanOf[b]
      BY <1>5, <3>1 DEF underCurrentPlan, m
    <3> QED BY <3>2, <3>3
  <2>4. currentPlan = PlanOf[attempts[Len(attempts)].binding]
    BY <2>2, ValidFile
  <2>5. Len(attempts) \in (j + k)..Len(attempts)
    BY <1>0, <2>2
  <2>6. currentPlan = PlanOf[b]
    BY <2>3, <2>4, <2>5
  <2>7. underCurrentPlan(j + k) /\ attempts[j + k].requestStarted = "yes"
    BY <1>4, <1>5, <2>2, <2>3, <2>6 DEF underCurrentPlan
  <2> QED BY <2>2, <2>6, <2>7 DEF startedUnderPlan
<1>6. startedUnderPlan' => currentPlanStarted'
  <2> SUFFICES ASSUME startedUnderPlan' PROVE carriedStarted(b)
    OBVIOUS
  <2>1. currentPlan = PlanOf[b] /\ startedUnderPlan
    BY <1>5 DEF startedUnderPlan
  <2> QED BY <2>1, PlanEvidenceParts DEF carriedStarted
<1>7. ASSUME m < MaxHistory, currentPlanStarted'
      PROVE  startedUnderPlan'
  <2>1. currentPlanStarted /\ currentPlan = PlanOf[b]
    BY <1>7 DEF carriedStarted
  <2>2. k = 0 /\ Len(attempts) < MaxHistory
    <3>1. PICK q \in {0, 1} : rotatedBy(q)
      BY <1>0, Rotated
    <3>2. Len(attempts') = Len(attempts) - q + 1
      <4>1. attempts' = Append(rotated, n) /\ rotated \in Seq(Attempt)
        BY <3>1 DEF n, rotatedBy
      <4>2. Len(attempts') = Len(rotated) + 1
        BY <4>1
      <4> QED BY <3>1, <4>2 DEF rotatedBy
    <3>3. Len(attempts) >= MaxHistory <=> q = 1
      BY <3>1 DEF rotatedBy
    <3>4. Len(attempts) <= MaxHistory /\ MaxHistory \in Nat
      BY <1>0, BoundAssumption DEF FileValid, validOperationAttemptState, TypeOK
    <3> QED BY <1>0, <1>4, <1>7, <3>2, <3>3, <3>4 DEF m
  <2>3. PICK i \in DOMAIN attempts : attempts[i].requestStarted = "yes" /\ underCurrentPlan(i)
    BY <2>1, <2>2, PlanEvidenceParts DEF startedUnderPlan
  <2>4. i \in DOMAIN attempts' /\ attempts'[i] = attempts[i]
    BY <1>0, <1>4, <2>2
  <2>5. ASSUME NEW q \in i..m PROVE PlanOf[attempts'[q].binding] = PlanOf[b]
    <3>1. CASE q = m
      BY <1>3, <1>4, <3>1
    <3>2. CASE q # m
      <4>1. q \in 1..(Len(attempts) - k) /\ q \in i..Len(attempts) /\ q + k = q
        BY <1>0, <1>4, <2>2, <3>2
      <4> QED BY <1>4, <2>1, <2>3, <4>1 DEF underCurrentPlan
    <3> QED BY <3>1, <3>2
  <2>6. underCurrentPlan(i)'
    BY <2>5 DEF underCurrentPlan, m
  <2> QED BY <2>3, <2>4, <2>6 DEF startedUnderPlan
<1> QED BY <1>6, <1>7 DEF PlanEvidenceExact, startedUnderPlan, m

\* Whether the closed form of an attempt says that its request started.
LEMMA StartedForms ==
  ASSUME NEW x \in Attempt, x.requestStarted = "nil", NEW now, NEW r, NEW receivedAt, NEW reason
  PROVE  /\ markUnknown(x, now).requestStarted # "yes"
         /\ markBadTimes(x, now).requestStarted # "yes"
         /\ markRequestStarted(x, now).requestStarted = "yes"
         /\ markBlocked(x, now).requestStarted # "yes"
         /\ markDeferred(x, reason, now).requestStarted # "yes"
         /\ markObserved(x, receivedAt, r, now).requestStarted = "yes"
BY DEF Attempt, markUnknown, markBadTimes, markRequestStarted, markBlocked, markDeferred,
       markObserved

LEMMA ClaimStepKeepsEvidence ==
  ASSUME Inv, PlanEvidenceExact, NEW c \in claims, NEW now \in Nat, ClaimStep(c, now)
  PROVE  PlanEvidenceExact'
<1>0. UNCHANGED fileVars => PlanEvidenceExact'
  BY DEF fileVars, PlanEvidenceExact, underCurrentPlan
<1>1. ASSUME NEW i \in DOMAIN attempts, holds(c, i)
      PROVE  /\ attempts[i] \in Attempt /\ attempts[i].requestStarted = "nil"
             /\ attempts[i].state = "claimed" /\ currentPlan = PlanOf[attempts[i].binding]
  <2>1. attempts[i].state = "claimed" /\ i = Len(attempts)
    BY <1>1 DEF holds, Inv, ClaimedIsLast
  <2> QED BY <2>1, ValidFile DEF validAt, validEvidence
<1>2. ASSUME NEW i \in DOMAIN attempts, holds(c, i), NEW a, closedForm(attempts[i], a),
             NEW ever, NEW curEver, curEver <=> currentPlanStarted \/ a.requestStarted = "yes",
             writeState([attempts EXCEPT ![i] = a], currentPlan, ever, curEver)
      PROVE  PlanEvidenceExact'
  <2>1. \/ UNCHANGED fileVars
        \/ /\ attempts' = [attempts EXCEPT ![i] = a] /\ currentPlan' = currentPlan
           /\ currentPlanStarted' = curEver
    BY <1>2, WriteShape
  <2> QED BY <1>0, <1>1, <1>2, <2>1, ClosingKeepsEvidence
<1>3. ASSUME NEW i \in DOMAIN attempts, holds(c, i),
             writeAttempt(i, markUnknown(attempts[i], now))
      PROVE  PlanEvidenceExact'
  <2> DEFINE a == markUnknown(attempts[i], now)
  <2>1. closedForm(attempts[i], a) /\ a.requestStarted # "yes"
    BY <1>1, <1>3, MarkUnknown, StartedForms
  <2>2. writeState([attempts EXCEPT ![i] = a], currentPlan, everStarted, currentPlanStarted)
    BY <1>3 DEF writeAttempt
  <2> QED BY <1>2, <1>3, <2>1, <2>2
<1>4. ASSUME NEW i \in DOMAIN attempts, NEW new, NEW started,
             transitionClaim(c, i, now, new, started), closedForm(attempts[i], new),
             started <=> new.requestStarted = "yes"
      PROVE  PlanEvidenceExact'
  <2>1. holds(c, i)
    BY <1>4 DEF transitionClaim
  <2>2. CASE leaseExpired(attempts[i], now)
    BY <1>3, <1>4, <2>1, <2>2 DEF transitionClaim
  <2>3. CASE ~leaseExpired(attempts[i], now)
    <3> DEFINE curEver == \/ currentPlanStarted
                          \/ started /\ currentPlan = PlanOf[attempts[i].binding]
    <3>1. writeState([attempts EXCEPT ![i] = new], currentPlan, everStarted \/ started, curEver)
      BY <1>4, <2>3 DEF transitionClaim
    <3>2. curEver <=> currentPlanStarted \/ new.requestStarted = "yes"
      BY <1>1, <1>4, <2>1
    <3> HIDE DEF curEver
    <3> QED BY <1>2, <1>4, <2>1, <3>1, <3>2
  <2> QED BY <2>2, <2>3
<1>5. CASE FailAttempt(c, now)
  BY <1>3, <1>5 DEF FailAttempt
<1>6. CASE RecordRequestStarted(c, now)
  <2>1. PICK i \in DOMAIN attempts : transitionClaim(c, i, now, markRequestStarted(attempts[i], now), TRUE)
    BY <1>6 DEF RecordRequestStarted
  <2>2. holds(c, i)
    BY <2>1 DEF transitionClaim
  <2>3. /\ closedForm(attempts[i], markRequestStarted(attempts[i], now))
        /\ markRequestStarted(attempts[i], now).requestStarted = "yes"
    BY <1>1, <2>2, MarkRequestStarted, StartedForms
  <2> QED BY <1>4, <2>1, <2>3
<1>7. CASE RecordBlockedAttempt(c, now)
  <2>1. PICK i \in DOMAIN attempts : transitionClaim(c, i, now, markBlocked(attempts[i], now), FALSE)
    BY <1>7 DEF RecordBlockedAttempt
  <2>2. holds(c, i)
    BY <2>1 DEF transitionClaim
  <2>3. /\ closedForm(attempts[i], markBlocked(attempts[i], now))
        /\ markBlocked(attempts[i], now).requestStarted # "yes"
    BY <1>1, <2>2, MarkBlocked, StartedForms
  <2> QED BY <1>4, <2>1, <2>3
<1>8. ASSUME NEW reason \in DeferredReasons, RecordPreDispatchDeferred(c, reason, now)
      PROVE  PlanEvidenceExact'
  <2>1. PICK i \in DOMAIN attempts :
          transitionClaim(c, i, now, markDeferred(attempts[i], reason, now), FALSE)
    BY <1>8 DEF RecordPreDispatchDeferred
  <2>2. holds(c, i)
    BY <2>1 DEF transitionClaim
  <2>3. /\ closedForm(attempts[i], markDeferred(attempts[i], reason, now))
        /\ markDeferred(attempts[i], reason, now).requestStarted # "yes"
    <3>1. attempts[i] \in Attempt /\ attempts[i].requestStarted = "nil"
      BY <1>1, <2>2
    <3>2. closedForm(attempts[i], markDeferred(attempts[i], reason, now))
      BY <3>1, MarkDeferred
    <3>3. markDeferred(attempts[i], reason, now).requestStarted # "yes"
      BY <3>1, StartedForms
    <3> QED BY <3>2, <3>3
  <2> QED BY <1>4, <2>1, <2>3
<1>9. ASSUME NEW observedAt \in 1..(clock + 1), NEW receivedAt \in 0..(clock + 1),
             NEW r \in Results, CompleteAttempt(c, observedAt, receivedAt, r, now)
      PROVE  PlanEvidenceExact'
  <2>0. receivedAt \in Nat
    BY DEF Inv, TypeOK
  <2> DEFINE bad(x) == badResultTimes(x, observedAt, receivedAt, now)
             new(x) == IF bad(x) THEN markBadTimes(x, now) ELSE markObserved(x, receivedAt, r, now)
  <2>1. PICK i \in DOMAIN attempts :
          transitionClaim(c, i, now, new(attempts[i]), ~bad(attempts[i]))
    BY <1>9 DEF CompleteAttempt
  <2>2. holds(c, i)
    BY <2>1 DEF transitionClaim
  <2>3. attempts[i] \in Attempt /\ attempts[i].requestStarted = "nil"
    BY <1>1, <2>2
  <2>4. CASE bad(attempts[i])
    <3>1. new(attempts[i]) = markBadTimes(attempts[i], now)
      BY <2>4
    <3>2. closedForm(attempts[i], new(attempts[i])) /\ new(attempts[i]).requestStarted # "yes"
      BY <2>3, <3>1, MarkBadTimes, StartedForms
    <3> HIDE DEF new, bad
    <3> QED BY <1>4, <2>1, <2>4, <3>2
  <2>5. CASE ~bad(attempts[i])
    <3>1. new(attempts[i]) = markObserved(attempts[i], receivedAt, r, now)
      BY <2>5
    <3>2. closedForm(attempts[i], new(attempts[i])) /\ new(attempts[i]).requestStarted = "yes"
      <4>1. closedForm(attempts[i], markObserved(attempts[i], receivedAt, r, now))
        BY <2>0, <2>3, MarkObserved
      <4>2. markObserved(attempts[i], receivedAt, r, now).requestStarted = "yes"
        BY <2>3, StartedForms
      <4> QED BY <3>1, <4>1, <4>2
    <3> HIDE DEF new, bad
    <3> QED BY <1>4, <2>1, <2>5, <3>2
  <2> QED BY <2>4, <2>5
<1> QED BY <1>5, <1>6, <1>7, <1>8, <1>9 DEF ClaimStep

LEMMA PlanEvidenceStep == Inv /\ PlanEvidenceExact /\ [Next]_vars => PlanEvidenceExact'
<1> SUFFICES ASSUME Inv, PlanEvidenceExact, [Next]_vars PROVE PlanEvidenceExact'
  OBVIOUS
<1>0. TypeOK
  BY DEF Inv
<1>1. UNCHANGED fileVars => PlanEvidenceExact'
  BY DEF fileVars, PlanEvidenceExact, underCurrentPlan
<1>2. ASSUME NEW now \in SampledNow, NEW c \in claims, ClaimStep(c, now) PROVE PlanEvidenceExact'
  BY <1>0, <1>2, SampledNat, ClaimStepKeepsEvidence
<1>3. ASSUME NEW now \in SampledNow, DeliveryStep(now) PROVE PlanEvidenceExact'
  <2>1. ASSUME NEW i \in DOMAIN attempts, ClaimDelivery(i, now) PROVE PlanEvidenceExact'
    <3> DEFINE a == [attempts[i] EXCEPT !.deliveryState = "pending", !.deliveryStartedAt = now,
                                        !.deliveryGeneration = @ + 1]
    <3>1. a.binding = attempts[i].binding /\ a.requestStarted = attempts[i].requestStarted
      BY ValidFile DEF Attempt
    <3>2. writeAttempt(i, a)
      BY <2>1 DEF ClaimDelivery
    <3> QED BY <3>1, <3>2, DeliveryKeepsEvidence
  <2>2. ASSUME NEW i \in DOMAIN attempts, RecordGatusReadback(i, now) PROVE PlanEvidenceExact'
    <3> DEFINE a == [attempts[i] EXCEPT !.deliveryState = "readback_verified"]
    <3>1. a.binding = attempts[i].binding /\ a.requestStarted = attempts[i].requestStarted
      BY ValidFile DEF Attempt
    <3>2. writeAttempt(i, a)
      BY <2>2 DEF RecordGatusReadback
    <3> QED BY <3>1, <3>2, DeliveryKeepsEvidence
  <2>3. ASSUME NEW d \in deliveryClaims, AcknowledgeDelivery(d, now) PROVE PlanEvidenceExact'
    <3>0. PICK i \in DOMAIN attempts :
            writeAttempt(i, [attempts[i] EXCEPT !.deliveryState = "acknowledged",
                                                !.deliveryAckAt = now])
      BY <2>3 DEF AcknowledgeDelivery
    <3> DEFINE a == [attempts[i] EXCEPT !.deliveryState = "acknowledged", !.deliveryAckAt = now]
    <3>1. a.binding = attempts[i].binding /\ a.requestStarted = attempts[i].requestStarted
      BY ValidFile DEF Attempt
    <3> QED BY <3>0, <3>1, DeliveryKeepsEvidence
  <2> QED BY <1>3, <2>1, <2>2, <2>3 DEF DeliveryStep
<1>4. ASSUME NEW now \in SampledNow, NEW b \in Binding, BeginGrantsClaim(b, now)
      PROVE  PlanEvidenceExact'
  <2>1. /\ mayBegin(b, now) /\ attempts' = Append(rotated, NewAttempt(b, generation + 1, now))
        /\ currentPlan' = PlanOf[b] /\ currentPlanStarted' = carriedStarted(b)
    BY <1>4 DEF BeginGrantsClaim, writeState
  <2> QED BY <1>0, <2>1, SampledNat, BeginKeepsEvidence
<1>5. ASSUME NEW now \in SampledNow, BeginFindsExpired(now)
      PROVE  PlanEvidenceExact'
  <2> DEFINE n == Len(attempts)
             a == markUnknown(attempts[n], now)
  <2>1. n \in DOMAIN attempts /\ attempts[n].state = "claimed"
    BY <1>0, <1>5 DEF BeginFindsExpired, TypeOK
  <2>2. attempts[n] \in Attempt /\ attempts[n].requestStarted = "nil" /\ now \in Nat
    BY <1>0, <2>1, ValidFile, SampledNat DEF validAt, validEvidence
  <2>3. closedForm(attempts[n], a) /\ a.requestStarted # "yes"
    BY <2>2, MarkUnknown, StartedForms
  <2>4. writeState([attempts EXCEPT ![n] = a], currentPlan, everStarted, currentPlanStarted)
    BY <1>5 DEF BeginFindsExpired, writeAttempt
  <2>5. \/ UNCHANGED fileVars
        \/ /\ attempts' = [attempts EXCEPT ![n] = a] /\ currentPlan' = currentPlan
           /\ currentPlanStarted' = currentPlanStarted
    BY <2>4, WriteShape
  <2> HIDE DEF n, a
  <2> QED BY <1>1, <2>1, <2>3, <2>5, ClosingKeepsEvidence
<1> QED BY <1>1, <1>2, <1>3, <1>4, <1>5 DEF Next, Tick, vars, BeginAttempt

\* CurrentPlanEverRequestStarted is exact for every ring size and any chain of
\* plan changes (BeginAttemptContext, transitionClaimContext).
THEOREM PlanEvidenceIsExact == Spec => []PlanEvidenceExact
<1>1. Init => PlanEvidenceExact
  BY DEF Init, PlanEvidenceExact
<1> QED BY <1>1, PlanEvidenceStep, Invariance, PTL DEF Spec
=============================================================================
