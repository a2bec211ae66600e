--------------------------- MODULE ScheduleCoverage ---------------------------
(***************************************************************************)
(* The schedule coverage authority and its lifecycle (schedule_coverage.go, *)
(* schedule_authority.go, schedule_lifecycle.go).                           *)
(*                                                                          *)
(* One state file holds the plan of an interval, a ledger entry for every   *)
(* status subject and the last coverage receipts.  Several processes share  *)
(* it: each call holds an exclusive file lock while it reads the file,      *)
(* refuses a handle that was made for another plan, and replaces the file,  *)
(* so its effect on the file is one step; the answer may still be lost, as  *)
(* the directory sync after the rename can fail and a caller can die.  The  *)
(* generation of the file, which only a writer outside the lock could find  *)
(* changed, is left out.  Once per interval the                             *)
(* lifecycle of a process moves the file to its own plan and records the    *)
(* coverage, in up to three such calls.  Workers hold claims in between.    *)
(***************************************************************************)
EXTENDS Integers, FiniteSets, FiniteSetsExt, Functions

CONSTANTS
  Subjects,        \* status subjects, numbers in the order of their names
  Processes,       \* processes with a coverage lifecycle
  ShardCount,      \* the shard count each process is configured with
  Shard(_, _),     \* scheduleShard: the shard of a subject for a shard count
  Workers,         \* holders of claims
  Deployments,     \* the sets of processes and workers that may run together
  Interval,        \* scheduleInterval
  Lease,           \* how long a worker claims a subject for
  MaxGeneration,   \* bound on the claims of one subject in one plan
  MaxFaults,       \* bound on failing calls
  MaxTime          \* bound on the clock

ASSUME CoverageConfiguration ==
  /\ Subjects \subseteq Nat /\ Subjects # {} /\ IsFiniteSet(Subjects)
  /\ ShardCount \in [Processes -> Nat \ {0}]
  /\ \A s \in Subjects, p \in Processes : Shard(s, ShardCount[p]) \in 0 .. ShardCount[p] - 1
  /\ Deployments \subseteq SUBSET (Processes \cup Workers)
  /\ Interval \in Nat \ {0} /\ Lease \in Nat \ {0}
  /\ MaxGeneration \in Nat /\ MaxFaults \in Nat /\ MaxTime \in Nat

VARIABLES
  deployed,      \* the processes and workers that run, fixed
  now,           \* the clock
  file,          \* the state file
  handle,        \* the plan the authority value of each caller was made for
  call,          \* how far the lifecycle call of each process is
  lastInterval,  \* the interval each process has recorded
  claim,         \* the claim each worker holds
  done,          \* history: completions that were reported as accepted
  unsure,        \* history: completions that reached the file unreported
  faults         \* calls that failed so far

coverageVars == <<deployed, now, file, handle, call, lastInterval, claim, done, unsure, faults>>

NoPlan == [start |-> -1, shards |-> 0]

NoFile == [plan |-> NoPlan]

NoClaim == [subject |-> -1]

NoReceipt == [plan |-> NoPlan]

NotRecorded == -1

Idle == [step |-> "idle", at |-> 0]

CoverageInit ==
  /\ deployed \in Deployments
  /\ now = 0
  /\ file = NoFile
  /\ handle = [x \in Processes \cup Workers |-> NoPlan]
  /\ call = [p \in Processes |-> Idle]
  /\ lastInterval = [p \in Processes |-> -1]
  /\ claim = [w \in Workers |-> NoClaim]
  /\ done = {}
  /\ unsure = {}
  /\ faults = 0

-----------------------------------------------------------------------------
(* Plans and the ledger of one plan *)

intervalOf(at) == at - (at % Interval)

BuildScheduleCoveragePlan(at, shards) == [start |-> intervalOf(at), shards |-> shards]

scheduleShard(subject, plan) == Shard(subject, plan.shards)

NewScheduleCoverageLedger ==
  [s \in Subjects |-> [state |-> "queued", attempted |-> FALSE, generation |-> 0,
                       lease |-> 0, completedAt |-> 0]]

\* Mutant of shardCounts: a completion at the instant of the receipt is not
\* counted.
shardCountsExclusive(plan, entries, shard, observedAt) ==
  LET queue == {s \in Subjects : scheduleShard(s, plan) = shard}
      completed == {s \in queue : /\ entries[s].state = "completed"
                                  /\ entries[s].completedAt < observedAt}
  IN  [expected  |-> Cardinality(queue),
       attempted |-> Cardinality({s \in queue : entries[s].attempted}),
       completed |-> Cardinality(completed),
       late      |-> 0,
       missing   |-> Cardinality(queue) - Cardinality(completed)]

shardCounts(plan, entries, shard, observedAt) ==
  LET queue == {s \in Subjects : scheduleShard(s, plan) = shard}
      completed == {s \in queue : /\ entries[s].state = "completed"
                                  /\ entries[s].completedAt <= observedAt}
  IN  [expected  |-> Cardinality(queue),
       attempted |-> Cardinality({s \in queue : entries[s].attempted}),
       completed |-> Cardinality(completed),
       late      |-> Cardinality({s \in completed :
                                    entries[s].completedAt > plan.start + Interval}),
       missing   |-> Cardinality(queue) - Cardinality(completed)]

CoverageReceipt(plan, entries, observedAt) ==
  [plan |-> plan, observedAt |-> observedAt,
   shards |-> [i \in 0 .. plan.shards - 1 |-> shardCounts(plan, entries, i, observedAt)]]

claimable(entry, at) ==
  /\ entry.state # "completed"
  /\ ~(entry.state = "claimed" /\ at < entry.lease)

claimed(entry, at) ==
  [entry EXCEPT !.state = "claimed", !.attempted = TRUE,
                !.generation = @ + 1, !.lease = at + Lease]

ScheduleClaim(plan, subject, entry) ==
  [subject |-> subject, start |-> plan.start, shard |-> scheduleShard(subject, plan),
   generation |-> entry.generation, lease |-> entry.lease]

currentClaim(k) ==
  LET entry == file.entries[k.subject]
  IN  /\ entry.state = "claimed"
      /\ ScheduleClaim(file.plan, k.subject, entry) = k

-----------------------------------------------------------------------------
(* Calls on the authority, each under the lock *)

fresh(x) == file # NoFile /\ handle[x] = file.plan

replaceEntry(subject, entry) == file' = [file EXCEPT !.entries[subject] = entry]

LoadAuthority(w) ==
  /\ file # NoFile
  /\ handle[w] # file.plan
  /\ handle' = [handle EXCEPT ![w] = file.plan]
  /\ UNCHANGED <<deployed, now, file, call, lastInterval, claim, done, unsure, faults>>

mayClaim(w, subject) ==
  /\ claim[w] = NoClaim
  /\ fresh(w)
  /\ now >= file.plan.start
  /\ claimable(file.entries[subject], now)
  /\ file.entries[subject].generation < MaxGeneration

Claim(w, subject) ==
  /\ mayClaim(w, subject)
  /\ LET entry == claimed(file.entries[subject], now)
     IN  /\ replaceEntry(subject, entry)
         /\ claim' = [claim EXCEPT ![w] = ScheduleClaim(file.plan, subject, entry)]
  /\ UNCHANGED <<deployed, now, handle, call, lastInterval, done, unsure, faults>>

ClaimNext(w, shard) ==
  /\ fresh(w)
  /\ LET open == {s \in Subjects : /\ scheduleShard(s, file.plan) = shard
                                   /\ claimable(file.entries[s], now)}
     IN  open # {} /\ Claim(w, Min(open))

holdsClaim(w) == claim[w] # NoClaim /\ fresh(w) /\ currentClaim(claim[w])

dropClaim(w) == claim' = [claim EXCEPT ![w] = NoClaim]

requeued(entry) == [entry EXCEPT !.state = "queued", !.lease = 0]

Retry(w) ==
  /\ holdsClaim(w)
  /\ replaceEntry(claim[w].subject, requeued(file.entries[claim[w].subject]))
  /\ dropClaim(w)
  /\ UNCHANGED <<deployed, now, handle, call, lastInterval, done, unsure, faults>>

mayComplete(w) == holdsClaim(w) /\ now <= file.entries[claim[w].subject].lease

asCompleted(entry) == [entry EXCEPT !.state = "completed", !.completedAt = now, !.lease = 0]

completion(w) == [plan |-> file.plan, subject |-> claim[w].subject, at |-> now]

Complete(w) ==
  /\ mayComplete(w)
  /\ replaceEntry(claim[w].subject, asCompleted(file.entries[claim[w].subject]))
  /\ dropClaim(w)
  /\ done' = done \cup {completion(w)}
  /\ UNCHANGED <<deployed, now, handle, call, lastInterval, unsure, faults>>

(***************************************************************************)
(* The call of a worker replaces the file and then fails in the directory  *)
(* sync, or the worker dies before it has the answer.  A claim that comes  *)
(* back with an error is not used, and one that was used would be refused  *)
(* if the call were repeated: the entry is no longer claimed under it.     *)
(***************************************************************************)
AnswerLost(w) ==
  /\ faults < MaxFaults
  /\ \/ /\ \E s \in Subjects :
             mayClaim(w, s) /\ replaceEntry(s, claimed(file.entries[s], now))
        /\ UNCHANGED unsure
     \/ /\ holdsClaim(w)
        /\ replaceEntry(claim[w].subject, requeued(file.entries[claim[w].subject]))
        /\ UNCHANGED unsure
     \/ /\ mayComplete(w)
        /\ replaceEntry(claim[w].subject, asCompleted(file.entries[claim[w].subject]))
        /\ unsure' = unsure \cup {completion(w)}
  /\ dropClaim(w)
  /\ faults' = faults + 1
  /\ UNCHANGED <<deployed, now, handle, call, lastInterval, done>>

\* The worker dies, or gives up after a refused Retry or Complete.
AbandonClaim(w) ==
  /\ claim[w] # NoClaim
  /\ claim' = [claim EXCEPT ![w] = NoClaim]
  /\ UNCHANGED <<deployed, now, file, handle, call, lastInterval, done, unsure, faults>>

-----------------------------------------------------------------------------
(* ProcessDue of the lifecycle of one process *)

ownPlan(p) == BuildScheduleCoveragePlan(call[p].at, ShardCount[p])

step(p, next) == call' = [call EXCEPT ![p].step = next]

\* The authority value is local to the call.
return(p, result) == step(p, result) /\ handle' = [handle EXCEPT ![p] = NoPlan]

resting(p) == call[p].step \in {"idle", "done", "failed"}

\* An interval that is recorded is not recorded again.
ProcessDue(p) ==
  /\ p \in deployed
  /\ resting(p)
  /\ intervalOf(now) # lastInterval[p]
  /\ call' = [call EXCEPT ![p] = [step |-> "open", at |-> intervalOf(now)]]
  /\ UNCHANGED <<deployed, now, file, handle, lastInterval, claim, done, unsure, faults>>

OpenAuthority(p) ==
  /\ call[p].step = "open"
  /\ \/ /\ file = NoFile
        /\ file' = [plan |-> ownPlan(p), entries |-> NewScheduleCoverageLedger,
                    latest |-> NotRecorded, previous |-> NoReceipt]
        /\ handle' = [handle EXCEPT ![p] = ownPlan(p)]
        /\ step(p, "record")
     \/ /\ file # NoFile
        /\ file.plan = ownPlan(p)
        /\ handle' = [handle EXCEPT ![p] = file.plan]
        /\ step(p, "record")
        /\ UNCHANGED file
     \/ /\ file # NoFile
        /\ file.plan # ownPlan(p)
        /\ step(p, "load")
        /\ UNCHANGED <<file, handle>>
  /\ UNCHANGED <<deployed, now, lastInterval, claim, done, unsure, faults>>

LoadForTransition(p) ==
  /\ call[p].step = "load"
  /\ handle' = [handle EXCEPT ![p] = file.plan]
  /\ step(p, "rebalance")
  /\ UNCHANGED <<deployed, now, file, lastInterval, claim, done, unsure, faults>>

\* Mutant of mayRebalance: live leases do not hold the old plan.
mayRebalanceAnyLease(plan) == plan.start > file.plan.start

mayRebalance(plan) ==
  /\ plan.start > file.plan.start
  /\ \A s \in Subjects :
       ~(file.entries[s].state = "claimed" /\ file.entries[s].lease > plan.start)

rebalanced(plan) ==
  [plan |-> plan, entries |-> NewScheduleCoverageLedger, latest |-> NotRecorded,
   previous |-> CoverageReceipt(file.plan, file.entries, plan.start)]

Rebalance(p) ==
  /\ call[p].step = "rebalance"
  /\ IF fresh(p) /\ mayRebalance(ownPlan(p))
     THEN /\ file' = rebalanced(ownPlan(p))
          /\ handle' = [handle EXCEPT ![p] = ownPlan(p)]
          /\ step(p, "record")
     ELSE return(p, "failed") /\ UNCHANGED file
  /\ UNCHANGED <<deployed, now, lastInterval, claim, done, unsure, faults>>

\* The latest receipt is only ever read back by the doctor report: the file
\* keeps its observation time and leaves out its counts.
recorded(p) == [file EXCEPT !.latest = call[p].at]

RecordCoverage(p) ==
  /\ call[p].step = "record"
  /\ IF fresh(p)
     THEN /\ file' = recorded(p)
          /\ lastInterval' = [lastInterval EXCEPT ![p] = call[p].at]
          /\ return(p, "done")
     ELSE return(p, "failed") /\ UNCHANGED <<file, lastInterval>>
  /\ UNCHANGED <<deployed, now, claim, done, unsure, faults>>

\* A call fails: before the rename of the new file, or in the directory sync
\* after it.
CallFails(p) ==
  /\ faults < MaxFaults
  /\ \/ call[p].step \in {"open", "load", "rebalance", "record"} /\ UNCHANGED file
     \/ call[p].step = "open" /\ file = NoFile
        /\ file' = [plan |-> ownPlan(p), entries |-> NewScheduleCoverageLedger,
                    latest |-> NotRecorded, previous |-> NoReceipt]
     \/ call[p].step = "rebalance" /\ fresh(p) /\ mayRebalance(ownPlan(p))
        /\ file' = rebalanced(ownPlan(p))
     \/ call[p].step = "record" /\ fresh(p)
        /\ file' = recorded(p)
  /\ return(p, "failed")
  /\ faults' = faults + 1
  /\ UNCHANGED <<deployed, now, lastInterval, claim, done, unsure>>

LifecycleStep(p) ==
  OpenAuthority(p) \/ LoadForTransition(p) \/ Rebalance(p) \/ RecordCoverage(p) \/ CallFails(p)

WorkerStep(w) ==
  /\ w \in deployed
  /\ \/ LoadAuthority(w) \/ Retry(w) \/ Complete(w) \/ AbandonClaim(w) \/ AnswerLost(w)
     \/ \E s \in Subjects : Claim(w, s)
     \/ \E i \in 0 .. file.plan.shards - 1 : ClaimNext(w, i)

-----------------------------------------------------------------------------
(* Properties *)

\* While its lease runs, a claim that a worker holds is the one the state file
\* holds: no other claim of the subject is granted and no process moves the
\* file to another plan (claimLocked, Rebalance, withFreshStateLocked).
LeaseHonoured ==
  \A w \in Workers :
    claim[w] # NoClaim /\ now < claim[w].lease => file # NoFile /\ currentClaim(claim[w])

completedIn(receipt) ==
  MapThenSumSet(LAMBDA i : receipt.shards[i].completed, DOMAIN receipt.shards)

\* The receipt that is kept of the last plan counts every completion that a
\* worker was told was accepted under it by its end, and beyond these only the
\* completions whose answer was lost, each once: none is lost to a process that
\* held an older state, none is counted twice after a lease was granted again or
\* a call was repeated (withFreshStateLocked, Rebalance, Complete,
\* writeScheduleCoverageAuthorityState).
CompletionsCounted ==
  file # NoFile /\ file.previous # NoReceipt =>
    LET receipt == file.previous
        in(history) == {d \in history : d.plan = receipt.plan /\ d.at <= receipt.observedAt}
    IN  completedIn(receipt) = Cardinality(in(done)) + Cardinality(in(unsure))
=============================================================================
