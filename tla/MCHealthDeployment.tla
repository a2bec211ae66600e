-------------------------- MODULE MCHealthDeployment --------------------------
(***************************************************************************)
(* Two canaries and four operations, one of another source and one that the  *)
(* plan does not admit.                                                      *)
(***************************************************************************)
EXTENDS HealthDeployment

canary(o, k) == [operation |-> o, key |-> k, interval |-> 5, heartbeat |-> 10]
record(admitted, kind) == [admitted |-> admitted, kind |-> kind, period |-> 1]

MCOperations == {"o1", "o2", "o3", "o4"}
Both == [c1 |-> canary("o1", <<"canary", "o1">>), c2 |-> canary("o2", <<"canary", "o2">>)]
One == [c1 |-> canary("o1", <<"canary", "o1">>)]
\* A canary whose key is the one an operation of the plan has.
Colliding == [c1 |-> canary("o1", stableKey("o3")), c2 |-> canary("o2", <<"canary", "o2">>)]

PlanA == [o1 |-> record(TRUE, "healthy"), o2 |-> record(TRUE, "healthy"),
          o3 |-> record(TRUE, "observation_only"), o4 |-> record(FALSE, "healthy")]
PlanB == [PlanA EXCEPT !["o3"] = record(TRUE, "healthy")]

release(canaries, plan, path, sha, operations, pinned) ==
  [canaries |-> canaries, metadata |-> {"o1", "o2", "o4"}, plan |-> plan, path |-> path,
   sha |-> sha, activation |-> [plan |-> plan, operations |-> operations, pinned |-> pinned]]

active(plan, operations) == release(Both, plan, TRUE, TRUE, operations, TRUE)

MCInputs ==
  [canaries   |-> release(Both, NoPlan, FALSE, FALSE, {}, TRUE),
   fewer      |-> release(One, NoPlan, FALSE, FALSE, {}, TRUE),
   undigested |-> release(Both, PlanA, TRUE, FALSE, {"o1"}, TRUE),
   unpinned   |-> release(Both, PlanA, TRUE, TRUE, {"o1"}, FALSE),
   empty      |-> active(PlanA, {}),
   one        |-> active(PlanA, {"o1"}),
   two        |-> active(PlanA, {"o2"}),
   all        |-> active(PlanA, {"o1", "o2"}),
   other      |-> active(PlanB, {"o1", "o3"}),
   unadmitted |-> active(PlanA, {"o4"}),
   colliding  |-> release(Colliding, PlanA, TRUE, TRUE, {"o1", "o3"}, TRUE)]

MCReleases == DOMAIN MCInputs

\* Each release is installed next to one that runs.
MCRollouts ==
  {{"canaries", "fewer"}, {"canaries", "one"}, {"one", "all"}, {"one", "two"}, {"one", "other"}, {"empty", "all"},
   {"undigested", "one"}, {"unpinned", "all"}, {"unadmitted", "fewer"}, {"colliding", "one"}}
=============================================================================
