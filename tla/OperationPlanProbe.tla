-------------------------- MODULE OperationPlanProbe --------------------------
(***************************************************************************)
(* The receipt of a probe child and the decisions taken from it: the       *)
(* runner's validation (internal/health/operation_plan_probe.go), the      *)
(* history validator's second validation (operation_plan_probe_history.go) *)
(* and the ledger's classification (operation_attempt_store.go:479-580).   *)
(*                                                                         *)
(* A receipt keeps the fields that decide its meaning.  Its schema, its    *)
(* canonical bytes, the attempt, release, shard and operation identities   *)
(* and the redaction flags must all agree with the expectation: Receipt    *)
(* holds the receipts for which they do, and any other output of the child *)
(* is the runner's error.  The time of the response is kept as its place   *)
(* relative to the attempt: the three validations draw their lines at      *)
(* different places.                                                       *)
(***************************************************************************)
EXTENDS Integers

\* One reason stands for the five that only a block has.
BlockedReasons == {"credential_binding_unavailable", "request_limit_exceeded"}
AmbiguousReasons == {"request_limit_exceeded", "request_transport_failed"}
Reasons == BlockedReasons \cup AmbiguousReasons \cup
           {"response_assertion_passed", "response_assertion_failed",
            "response_http_failure", "response_semantics_unestablished"}

\* observed_at: none, or its place relative to the attempt's StartedAt and the
\* runner's receivedAt.  `early' and `late' lie outside of that interval by one
\* second at most.
ObservedAt == {"none", "too_early", "early", "within", "late", "too_late"}

\* assertionKind is the plan record's ResponseAssertionKind, which a receipt
\* must repeat.
Receipt ==
  [assertionKind : {"json_contract", "observation_only"},
   outcome : {"healthy", "unhealthy", "blocked", "indeterminate"}, reason : Reasons,
   requestStarted : BOOLEAN, responseObserved : BOOLEAN, httpStatus : {0, 200, 500},
   observedAt : ObservedAt, assertionStatus : {"passed", "failed", "not_run"}]

ExitCodes == {0, 3, 4}

-----------------------------------------------------------------------------
(***************************************************************************)
(* validOperationProbeReceiptSemantics, after its identity and redaction   *)
(* comparisons.  A receipt of a request that did not start observed no     *)
(* response; an HTTP status and a time come with an observed response and  *)
(* only with one, and the time may miss the attempt by a second.           *)
(***************************************************************************)
observationCoherent(r) ==
  /\ ~r.requestStarted => ~r.responseObserved
  /\ r.responseObserved <=> r.httpStatus # 0
  /\ IF r.responseObserved THEN r.observedAt \in {"early", "within", "late"} ELSE r.observedAt = "none"

healthyReceipt(r, exitCode) ==
  /\ r.assertionKind # "observation_only" /\ exitCode = 0
  /\ r.requestStarted /\ r.responseObserved
  /\ r.assertionStatus = "passed" /\ r.reason = "response_assertion_passed"

unhealthyReceipt(r, exitCode) ==
  /\ exitCode = 4 /\ r.requestStarted /\ r.responseObserved /\ r.assertionStatus = "failed"
  /\ IF r.assertionKind = "observation_only"
       THEN r.reason = "response_http_failure" /\ r.httpStatus # 200
       ELSE r.reason = "response_assertion_failed"

blockedReceipt(r, exitCode) ==
  /\ exitCode = 3 /\ ~r.requestStarted /\ ~r.responseObserved
  /\ r.assertionStatus = "not_run" /\ r.reason \in BlockedReasons

indeterminateReceipt(r, exitCode) ==
  /\ exitCode = 4 /\ r.requestStarted /\ r.assertionStatus = "not_run"
  /\ \/ r.reason \in AmbiguousReasons
     \/ /\ r.reason = "response_semantics_unestablished"
        /\ r.assertionKind = "observation_only" /\ r.responseObserved /\ r.httpStatus = 200

validReceiptSemantics(r, exitCode) ==
  /\ observationCoherent(r)
  /\ CASE r.outcome = "healthy" -> healthyReceipt(r, exitCode)
       [] r.outcome = "unhealthy" -> unhealthyReceipt(r, exitCode)
       [] r.outcome = "blocked" -> blockedReceipt(r, exitCode)
       [] r.outcome = "indeterminate" -> indeterminateReceipt(r, exitCode)

\* OperationPlanProbeRunner.Run returns a result only for these receipts.
RunnerReceipts ==
  {r \in Receipt : \E exitCode \in ExitCodes : validReceiptSemantics(r, exitCode)}

-----------------------------------------------------------------------------
(***************************************************************************)
(* The history validator never sees the child's exit code: it derives one  *)
(* from the recorded outcome and validates the stored bytes again, at      *)
(* append time and whenever the archive is reopened.                       *)
(***************************************************************************)
\* Mutant of operationPlanProbeExitCode: only `unhealthy' exits with 4.
operationPlanProbeExitCodeZero(outcome) ==
  CASE outcome \in {"healthy", "indeterminate"} -> 0
    [] outcome = "blocked" -> 3
    [] outcome = "unhealthy" -> 4

operationPlanProbeExitCode(outcome) ==
  CASE outcome = "healthy" -> 0
    [] outcome = "blocked" -> 3
    [] outcome \in {"unhealthy", "indeterminate"} -> 4

ValidateStoredRecord(r) == validReceiptSemantics(r, operationPlanProbeExitCode(r.outcome))

\* operationObservationClassification: the ledger's state and category.
operationObservationClassification(r) ==
  CASE r.outcome = "healthy" -> <<"healthy", "healthy">>
    [] r.outcome = "unhealthy" /\ r.reason = "response_http_failure" -> <<"unhealthy", "response_http_failure">>
    [] r.outcome = "unhealthy" /\ r.reason # "response_http_failure" -> <<"unhealthy", "provider_failure">>
    [] r.outcome = "indeterminate" /\ r.reason = "response_semantics_unestablished" ->
         <<"indeterminate", "response_semantics_unestablished">>
    [] r.outcome = "indeterminate" /\ r.reason # "response_semantics_unestablished" ->
         <<"indeterminate", "indeterminate">>
    [] r.outcome = "blocked" -> <<"", "">>

\* The block reasons operationPlanProbeBlockedReason translates.
translatedBlockReason(r) ==
  r.reason \in {"credential_binding_unavailable", "request_limit_exceeded"}

(***************************************************************************)
(* The three *FromValidatedHistory entry points of the ledger, each with   *)
(* its own idea of the receipts it accepts.                                *)
(***************************************************************************)
acceptsObserved(r) ==
  r.requestStarted /\ r.observedAt # "none" /\ operationObservationClassification(r) # <<"", "">>

acceptsRequestStarted(r) ==
  r.requestStarted /\ r.observedAt = "none" /\ r.outcome = "indeterminate"

acceptsBlocked(r) ==
  ~r.requestStarted /\ r.observedAt = "none" /\ r.outcome = "blocked" /\ translatedBlockReason(r)

\* The branch ExecuteOne takes on a result, and the state that branch records.
committedState(r) ==
  CASE ~r.requestStarted -> "failed"
    [] r.requestStarted /\ r.observedAt = "none" -> "request_started"
    [] r.requestStarted /\ r.observedAt # "none" -> "observed"

ledgerAccepts(r) ==
  CASE ~r.requestStarted -> acceptsBlocked(r)
    [] r.requestStarted /\ r.observedAt = "none" -> acceptsRequestStarted(r)
    [] r.requestStarted /\ r.observedAt # "none" -> acceptsObserved(r)

\* completeAttemptContext takes no response dated before the attempt began or
\* after its receipt was received, unlike the two validations before it.
badResultTimes(r) == r.observedAt \in {"early", "late"}
=============================================================================
