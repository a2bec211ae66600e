--------------------------- MODULE MCCanaryScheduler ---------------------------
(***************************************************************************)
(* Two canaries of different periods share one permit in the scheduler.     *)
(* The coverage file is shared by two processes that split it into          *)
(* different numbers of shards and a worker, or by one process and two      *)
(* workers.  The three deployments start in the same run.                   *)
(***************************************************************************)
EXTENDS CanaryScheduler

CONSTANTS w1, w2

MCDeployments == {{"scheduler"}, {"tool", "old", w1}, {"tool", w1, w2}}

MCProcesses == {"scheduler", "tool", "old"}

MCShardCount == [p \in MCProcesses |-> IF p = "tool" THEN 2 ELSE 1]

MCShard(subject, count) == subject % count

MCSlotLength == <<2, 1>>

MCJitter(canary, slot) == IF canary = 1 /\ slot = 0 THEN 1 ELSE 0
=============================================================================
