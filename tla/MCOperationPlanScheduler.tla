----------------------- MODULE MCOperationPlanScheduler -----------------------
(***************************************************************************)
(* Two operations; only the first one's results can be observation-only.    *)
(***************************************************************************)
EXTENDS OperationPlanScheduler

MCObservationOnly == {0}
=============================================================================
