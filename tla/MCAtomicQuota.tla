---------------------------- MODULE MCAtomicQuota ----------------------------
(***************************************************************************)
(* A shared credential budget and an API budget below it, whose policy the   *)
(* Registry changes.                                                         *)
(***************************************************************************)
EXTENDS AtomicQuota

policy(s, c, r, w, m) ==
  [scope |-> s, maxConcurrent |-> c, requestsPerWindow |-> r, window |-> w, minimumInterval |-> m]

MCScope == {"credential", "api"}
MCPolicySets ==
  {{policy("credential", 2, 2, 2, 0), policy("api", 1, 2, 2, 1)},
   {policy("credential", 2, 2, 2, 0)},
   {policy("credential", 2, 2, 2, 0), policy("api", 2, 1, 2, 2)}}
=============================================================================
