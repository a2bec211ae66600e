-------------------------- MODULE OperationReadModel --------------------------
(***************************************************************************)
(* The public projection of an operation's ledger file (the pure part of    *)
(* operation_read_model.go).                                                *)
(*                                                                          *)
(* A ledger file is abstracted to what the projection selects from it: the  *)
(* newest attempt, the newest attempt with a result, and the sticky bit     *)
(* that a request was started under the current plan.  Instants are natural *)
(* numbers, 0 for an absent one.  The reader is pinned to the plan Plan.    *)
(***************************************************************************)
EXTENDS Integers, FiniteSets

CONSTANTS
  Plan,      \* the Registry plan the reader is pinned to, a number
  Period     \* the observation period of that plan

ASSUME PeriodPositive == Period \in Nat \ {0}

\* The categories that the projection tells apart.
Categories == {"healthy", "response_http_failure", "indeterminate",
               "response_semantics_unestablished"}

ResultState(category) ==
  CASE category = "healthy" -> "healthy"
    [] category = "response_http_failure" -> "unhealthy"
    [] OTHER -> "indeterminate"

NoObservation == [plan |-> 0, category |-> "none", observed |-> 0, received |-> 0,
                  delivery |-> "not_ready", ack |-> 0, readback |-> 0]

hasObservation(a) == a.obs # NoObservation

-----------------------------------------------------------------------------
(* The projection of a file.                                                *)

\* operationReadModelAttemptFromState: the newest attempt and the newest
\* observation, each with the plan it was made under.  A delivery that has not
\* been claimed yet is pending.
operationReadModelAttemptFromState(f) ==
  [plan |-> f.plan, state |-> f.state, started |-> f.started, ever |-> f.ever,
   obs |-> IF hasObservation(f) /\ f.obs.delivery = "not_ready"
           THEN [f.obs EXCEPT !.delivery = "pending"] ELSE f.obs]

\* validGatusReadback.
validGatusReadback(obs) ==
  CASE obs.delivery \in {"not_ready", "pending"} -> obs.ack = 0 /\ obs.readback = 0
    [] obs.delivery = "not_applicable" ->
         obs.category = "response_semantics_unestablished" /\ obs.ack = 0 /\ obs.readback = 0
    [] obs.delivery = "acknowledged" -> obs.ack # 0 /\ obs.readback = 0
    [] obs.delivery = "readback_verified" -> obs.ack # 0 /\ obs.readback >= obs.ack

\* What the state of the newest attempt says about its request.
validRequestEvidence(a) ==
  CASE a.state \in {"claimed", "unknown"} -> a.started = "nil"
    [] a.state \in {"request_started", "observed"} -> a.started = "true"
    [] a.state = "failed" -> a.started # "nil"
    [] a.state = "deferred" -> a.started = "false"

\* validOperationReadModelAttempt.
validOperationReadModelAttempt(a) ==
  /\ validRequestEvidence(a)
  /\ a.state = "observed" => hasObservation(a)
  /\ hasObservation(a) =>
       /\ a.obs.category \in Categories
       /\ 0 < a.obs.observed /\ a.obs.observed <= a.obs.received
       /\ a.obs.ack # 0 => a.obs.ack >= a.obs.received
       /\ a.obs.readback # 0 => a.obs.readback >= a.obs.received
       /\ validGatusReadback(a.obs)

\* operationReadModelLatestBindingMatches and its observation counterpart.
bindingMatches(plan) == plan = Plan

\* withoutOperationReadModelObservation.
withoutOperationReadModelObservation(a) == [a EXCEPT !.obs = NoObservation]

\* An observation made under another plan is not shown as this plan's.
selectedAttempt(a) ==
  IF hasObservation(a) /\ ~bindingMatches(a.obs.plan)
  THEN withoutOperationReadModelObservation(a)
  ELSE a

-----------------------------------------------------------------------------
(* Rows.                                                                    *)

\* operationReadModelRow: what the plan alone says of an admitted operation.
staticRow ==
  [state |-> "none", started |-> "nil", attempted |-> FALSE, category |-> "none",
   observed |-> 0, received |-> 0, delivery |-> "not_ready", ack |-> 0, readback |-> 0,
   missing |-> "no_validated_observation", observation |-> "unobserved"]

\* Mutant of applyOperationReadModelAttempt: only the newest attempt counts as
\* request evidence, not the sticky bit.
applyNewestAttemptOnly(row, a) ==
  [state |-> a.state, started |-> a.started,
   attempted |-> row.attempted \/ a.started = "true",
   category |-> a.obs.category,
   observed |-> a.obs.observed, received |-> a.obs.received,
   delivery |-> a.obs.delivery, ack |-> a.obs.ack, readback |-> a.obs.readback,
   missing |-> IF hasObservation(a) THEN "none" ELSE staticRow.missing,
   observation |-> "unobserved"]

\* applyOperationReadModelAttempt, with the missing reason that applyAttempts
\* restores when there is no observation.
applyOperationReadModelAttempt(row, a) ==
  [state |-> a.state, started |-> a.started,
   attempted |-> row.attempted \/ a.ever \/ a.started = "true",
   category |-> a.obs.category,
   observed |-> a.obs.observed, received |-> a.obs.received,
   delivery |-> a.obs.delivery, ack |-> a.obs.ack, readback |-> a.obs.readback,
   missing |-> IF hasObservation(a) THEN "none" ELSE staticRow.missing,
   observation |-> "unobserved"]

\* The last stage of the delivery that is complete at the evaluation time.
deliveryAt(row, at) ==
  CASE row.ack > at -> [row EXCEPT !.delivery = "pending", !.ack = 0, !.readback = 0]
    [] row.ack <= at /\ row.readback > at ->
         [row EXCEPT !.delivery = "acknowledged", !.readback = 0]
    [] OTHER -> row

\* Mutant of isCurrent: still current at the instant it is due again.
isCurrentWhenDue(row, at) == at <= row.observed + Period

isCurrent(row, at) == at < row.observed + Period

\* refreshOperationReadModelFreshness: what a row says at an instant.
refreshOperationReadModelFreshness(row, at) ==
  LET r == deliveryAt(row, at) IN
  IF r.observed > at \/ r.received > at
  THEN [r EXCEPT !.observation = "unobserved", !.missing = "future_observation"]
  ELSE [r EXCEPT !.observation =
         IF r.observed = 0 THEN "unobserved"
         ELSE IF ~isCurrent(r, at) THEN "stale"
         ELSE CASE ResultState(r.category) = "healthy" -> "current_pass"
                [] ResultState(r.category) = "unhealthy" -> "current_fail"
                [] OTHER -> "current_indeterminate"]

\* ValidatePublicProjection.
ValidatePublicProjection(row, at) ==
  /\ row.state = "deferred" => row.started = "false"
  /\ (row.category = "none") = (row.observed = 0)
  /\ (row.category = "none") = (row.received = 0)
  /\ row.observed <= row.received
  /\ row.category = "response_semantics_unestablished" => row.attempted
  /\ row.delivery = "not_applicable" => row.category = "response_semantics_unestablished"
  /\ row.received > at \/ row.observed > at =>
       row.observation = "unobserved" /\ row.missing = "future_observation"
  /\ row.ack # 0 => row.received # 0 /\ row.received <= row.ack /\ row.ack <= at
  /\ row.readback # 0 => row.ack # 0 /\ row.ack <= row.readback /\ row.readback <= at
  /\ LET again == refreshOperationReadModelFreshness(row, at)
     IN  /\ again.observation = row.observation /\ again.delivery = row.delivery
         /\ again.ack = row.ack /\ again.readback = row.readback

\* The row that applyAttempts stores for a projection at the batch's time.
appliedRow(row, a, at) ==
  refreshOperationReadModelFreshness(
    applyOperationReadModelAttempt(row, selectedAttempt(a)), at)

\* applyAttempts accepts the projection, or refuses the whole batch.
acceptsAttempt(row, a, at) ==
  /\ validOperationReadModelAttempt(a)
  /\ bindingMatches(a.plan) => ValidatePublicProjection(appliedRow(row, a, at), at)

\* applyAttempts on one row: state of another plan leaves the row as it is.
applyAttempt(row, a, at) == IF bindingMatches(a.plan) THEN appliedRow(row, a, at) ELSE row

-----------------------------------------------------------------------------
(* Rollups over admitted, inventoried operations.                           *)

count(rows, P(_)) == Cardinality({o \in DOMAIN rows : P(rows[o])})

\* identityCounts and operationReadModelResultCounts at an instant.
identityCounts(rows, at) ==
  LET now == [o \in DOMAIN rows |-> refreshOperationReadModelFreshness(rows[o], at)]
      of(state) == count(now, LAMBDA r : r.observation = state)
  IN  [known        |-> Cardinality(DOMAIN rows),
       claimed      |-> count(now, LAMBDA r : r.state = "claimed"),
       deferred     |-> count(now, LAMBDA r : r.state = "deferred"),
       attempted    |-> count(now, LAMBDA r : r.attempted),
       persisted    |-> count(now, LAMBDA r : r.received # 0),
       acknowledged |-> count(now, LAMBDA r : r.delivery \in {"acknowledged", "readback_verified"}),
       verified     |-> count(now, LAMBDA r : r.delivery = "readback_verified"),
       pending      |-> count(now, LAMBDA r : r.delivery = "pending"),
       missing      |-> of("stale") + of("unobserved"),
       stale        |-> of("stale"),
       pass         |-> of("current_pass"),
       fail         |-> of("current_fail"),
       indeterminate |-> of("current_indeterminate")]

\* operationReadModelCoverageStateWithResults.
coverageState(c) ==
  IF c.known = 0 THEN "no_registered_operations"
  ELSE IF c.pass + c.fail + c.indeterminate < c.known THEN "observations_incomplete"
  ELSE IF c.indeterminate > 0 THEN "observations_indeterminate"
  ELSE IF c.fail > 0 THEN "provider_failures_present"
  ELSE "observed"

\* The coverage of one API (LookupAPIProgress).
apiCoverageState(c) ==
  LET fresh == c.pass + c.fail + c.indeterminate IN
  IF c.known = 0 THEN "no_registered_operations"
  ELSE IF fresh = c.known /\ c.indeterminate > 0 THEN "current_indeterminate"
  ELSE IF fresh = c.known THEN "current"
  ELSE IF fresh > 0 THEN "partial"
  ELSE IF c.stale > 0 THEN "stale"
  ELSE "unobserved"
=============================================================================
