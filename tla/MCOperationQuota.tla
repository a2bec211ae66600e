--------------------------- MODULE MCOperationQuota ---------------------------
(***************************************************************************)
(* A shared credential budget and an API budget below it.                   *)
(***************************************************************************)
EXTENDS OperationQuota

policy(s, c, r, w, m) ==
  [scope |-> s, maxConcurrent |-> c, requestsPerWindow |-> r, window |-> w, minimumInterval |-> m]

MCScope == {"credential", "api"}
\* Every call spends from both scopes.
MCBothScopes == {{policy("credential", 2, 2, 1, 0), policy("api", 1, 2, 1, 0)}}
=============================================================================
