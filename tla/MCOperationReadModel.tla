------------------------- MODULE MCOperationReadModel -------------------------
(***************************************************************************)
(* Two operations in two batches; the reader is pinned to the second plan.  *)
(***************************************************************************)
EXTENDS OperationReadModelRuntime, TLC

MCPlans == {1, 2}

MCResults == {"healthy", "response_semantics_unestablished"}

MCEndings == {[state |-> "deferred", started |-> "false"],
              [state |-> "request_started", started |-> "true"]}

observed(version, plan, obs) ==
  [version |-> version, plan |-> plan, state |-> "observed", started |-> "true", ever |-> TRUE,
   begun |-> 1, obs |-> obs]

healthy(plan) ==
  [plan |-> plan, category |-> "healthy", observed |-> 1, received |-> 1,
   delivery |-> "pending", ack |-> 0, readback |-> 0]

unestablished(plan) ==
  [healthy(plan) EXCEPT !.category = "response_semantics_unestablished",
                        !.delivery = "not_applicable"]

\* The first operation has no file yet and can be claimed and end; Gatus has
\* acknowledged a result of the second one under the reader's plan, which can be
\* read back or followed by a claim.
MCFirstRelease ==
  2 :> observed(2, 2, [healthy(2) EXCEPT !.delivery = "acknowledged", !.ack = 1])

\* A claim can follow a result of the first operation that only observed; a result
\* of the second one under the earlier plan can be delivered and read back, or a
\* claim follow it and end.
MCLaterRelease == 1 :> observed(1, 2, unestablished(2)) @@ 2 :> observed(1, 1, healthy(1))

MCInitialLedgers == {MCFirstRelease, MCLaterRelease}

MCWrites == <<2, 3>>

\* One operation on an empty ledger: observed, claimed under another plan, and
\* claimed again under the first.
MCEmptyLedger == {<<>>}

MCRollbackWrites == <<5>>
=============================================================================
