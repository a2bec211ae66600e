------------------------ MODULE MCOperationPlanWorker ------------------------
(* Two workers of one operation, for TLC. *)
EXTENDS OperationPlanWorker, TLC

CONSTANTS w1, w2

MCWorker == {w1, w2}
=============================================================================
