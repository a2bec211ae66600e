----------------------- MODULE MCOperationHistoryStore -----------------------
(***************************************************************************)
(* Two operations and two releases; the other constants of the history store  *)
(* are in the .cfg files.                                                     *)
(***************************************************************************)
EXTENDS OperationHistoryStore

attempt(o, g, p) == [operation |-> o, generation |-> g, release |-> p]

MCOperation == {"weather", "air"}
\* Two attempts of one operation, one of another; then one of the next release.
MCIdentity ==
  {attempt("weather", 1, "old"), attempt("weather", 2, "old"), attempt("air", 1, "old"),
   attempt("air", 2, "new")}
=============================================================================
