----------------------- MODULE MCOperationAttemptStore -----------------------
(***************************************************************************)
(* Model values of OperationAttemptStore: three bindings, two of one plan  *)
(* (they differ only in their Gatus key) and one of another plan with a    *)
(* longer period.                                                          *)
(***************************************************************************)
EXTENDS OperationAttemptStore, TLC

CONSTANTS b1, b1k, b2, p1, p2

MCBinding == {b1, b1k, b2}
MCPlanOf == [b \in MCBinding |-> IF b = b2 THEN p2 ELSE p1]
MCPeriodOf == [b \in MCBinding |-> IF b = b2 THEN 2 ELSE 1]

MCOneBinding == {b1}
MCOnePlanOf == [b \in MCOneBinding |-> p1]
MCOnePeriodOf == [b \in MCOneBinding |-> 1]
=============================================================================
