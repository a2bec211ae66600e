# A verification project for datapan-health

This directory holds TLA+ models of the parts of datapan-health that keep durable
state, the TLC runs that check them on small instances, and TLAPS proofs of their
main properties for every value of the constants. `PROJECT.json` lists the
components, runs, mutants, theorems and hazards, and maps every definition to the
lines it models.

## 1. The system

datapan-health observes public data operations on a schedule, keeps evidence about
every attempt, and publishes summaries to Gatus and to a public read model. Its
core is the *operation plan runtime*: for each operation of a pinned Registry plan
a worker claims an attempt, reserves history space and quota, runs a bounded child
process, stores the validated receipt, records the outcome, and later delivers a
summary to Gatus and reads it back. All coordination is through files under flock
on one file system; any number of processes may run and die.

| Component | State it keeps | Operations | What makes it correct |
|---|---|---|---|
| attempt ledger and outbox (`operation_attempt_store.go`) | per operation: a ring of attempts, generation, plan digest, evidence flags | begin, complete, request started, blocked, deferred, fail, claim/acknowledge delivery, readback | one acting claim; evidence in time and immutable; requests spaced; in-order, forward-only delivery; nothing owed is dropped; no wedge |
| quota authority (`operation_quota.go`) | per scope: window, usage, leases; one pending transaction | acquire many, release many, recover | all scopes or none under crashes; budget, concurrency and spacing limits; no refund; stale releases fenced |
| history store and publication (`operation_history_store.go`, `operation_history_publication.go`) | records, per-operation indices, usage, reservations, pending batch descriptor, checkpoint, publication transaction | reserve, append, cancel, rebuild usage, publish, acknowledge | contiguous sequences, no record lost or published twice, usage equal to what is stored, replay idempotent |
| worker (`operation_plan_worker.go`) | none of its own: composes the three stores, a child process and Gatus | ExecuteOne, DeliverOne | no request without a claim, a reservation and quota; ambiguity recorded when a request may have started; an acknowledged summary not pushed again |
| plan scheduler and runtime (`operation_plan_scheduler.go`, `operation_plan_runtime.go`) | active slots, delivery reservation, evidence sweep, latched errors | ProcessDue, launch, finish, sweep, status | slots bounded, deliveries not starved, readiness only from a complete sweep |
| read model (`operation_read_model*.go`) | in-memory projection, file stamps | refresh, page, lookup | no delta lost, a failed batch is read again |
| canary scheduler (`scheduler.go`) | slots file, active set, semaphore | ProcessDue, run | a slot is never run twice, concurrency bounded |
| coverage authority (`schedule_authority.go`, `schedule_coverage.go`) | leased ledger with generation, receipts | claim, retry, complete, record, rebalance | stale instances fail closed, no lost claim |
| Gatus receiver bundle and the processes (`operation_gatus_config.go`, `operation_plan_runtime.go`, `cmd/health-gatus-config`, `cmd/health-scheduler`) | three generated artifacts in a shared directory; what each process read at its start | generate, write, load and verify, start, stop | no operation in both lanes, no two operations under one Gatus key, also from a half-replaced bundle |
| self-readiness (`self_readiness_source.go`, `cmd/health-public`) | a binding read at the start | snapshot | a report is taken as ready only when it covers the reader's own canaries |
| bounded observation runs, archive, correlation, public pages, compatibility and metadata tools | little or none | | see `components` in `PROJECT.json` |

How they interact: the scheduler calls the worker in bounded slots; the worker
calls ledger, history and quota under three separate locks, one at a time, so
every pair of calls can interleave with another worker's; the read model and the
scheduler's sweep read ledger snapshots without a lock; Gatus and the child
process answer late, twice or never.

What is hard here: a worker that outlives its lease; a crash between a durable
step and the next; the caller's clock being older than the state it meets; a
transaction over many files replayed by somebody else; window boundaries, policy
changes and clock steps in the quota; starvation and stale sweeps in the scheduler.

## 2. Modules

| Module | Models | 
|---|---|
| `OperationAttemptStore` | the ledger and outbox of one operation |
| `MCOperationAttemptStore` | its instances: three bindings of two plans, or one binding |
| `OperationAttemptStoreProofs` | its inductive invariant and theorems |
| `OperationQuotaScope` | the decisions on one scope, as operators |
| `AtomicQuota` | what the quota authority promises (abstract specification) |
| `OperationQuota` | the files, the lock, the write-ahead transaction and crashes |
| `MCAtomicQuota`, `MCOperationQuota` | their instances |
| `AtomicQuotaProofs` | the spacing, budget and concurrency limits of `AtomicQuota` |
| `OperationQuotaProofs` | `OperationQuota` implements `AtomicQuota` and charges before it returns |
| `OperationHistoryFiles` | the directory of the receipt history, as operators on its files |
| `OperationHistoryStore` | the lock, the calls, and a crash between any two writes |
| `MCOperationHistoryStore` | its instance: two operations, four attempts of two releases |
| `OperationHistoryStoreProofs` | its inductive invariant and theorems |
| `OperationPlanProbe` | the receipt of a probe child and what is decided from it, as operators |
| `OperationPlanWorker`, `MCOperationPlanWorker` | `ExecuteOne` over ledger, history, quota and child; two workers |
| `OperationPlanWorkerProofs` | its inductive invariant and theorems |
| `OperationPlanScheduler`, `MCOperationPlanScheduler` | passes, slots, reservation, deliveries, evidence sweep, status |
| `OperationReadModel` | the public row of an operation, as operators |
| `OperationReadModelRuntime`, `MCOperationReadModel` | the sweeps that read the ledgers, snapshots and pages |
| `OperationReadModelProofs` | its inductive invariant and theorems |
| `ScheduleCoverage` | the coverage state file shared by processes and workers |
| `CanaryScheduler`, `MCCanaryScheduler` | the canary scheduler, composed with `ScheduleCoverage` |
| `CanarySchedulerProofs` | the inductive invariants and theorems of both |
| `OperationGatusConfig` | what is generated from a release's inputs, as operators |
| `HealthDeployment`, `MCHealthDeployment` | the processes of an installation during a rollout |
| `ReadinessProofs` | what a report of readiness is worth: the scheduler's own (`OperationPlanScheduler`) and the one a rollout shows (`HealthDeployment`) |

### OperationAttemptStore

Each operation has its own file and the lock is held for a whole call, so one
action is one call, and one file is modelled. `attempts`, `generation`,
`currentPlan`, `everStarted`, `currentPlanStarted` are the fields of
`operationAttemptState`. `claims` and `deliveryClaims` remember every claim ever
handed out: any of them may be presented again at any time, by a process that is
late, repeats itself, or is not the one that got it. A crash is a claim that is
never presented. The time a call passes was read before it waited for the lock and
may lag the clock by `MaxStale`.

A write passes `validOperationAttemptState`, and a state it refuses is not
written; the model keeps the validator, so the one handler branch that builds a
state the validator refuses shows up as a call without effect (a result whose
times do not fit is stored as `failed` without a receipt,
`operation_attempt_store.go:444-448`, which lines 1368-1371 refuse: the attempt
stays claimed until its lease ends and becomes unknown).

Abstracted: digests and identifiers are model values; the block reasons and
deferral categories are reduced to the three kinds the code tells apart; the
result to whether Gatus gets it; the 32 KiB bound of a state file is left out.

### OperationQuotaScope, AtomicQuota, OperationQuota

`OperationQuotaScope` translates `nextOperationQuotaClaim` and the checks of
`ReleaseMany` into operators over one scope's state. `AtomicQuota` applies them to
all scopes of a call in one step and records every claim charged and released:
this is the promise of the doc comments ("reserve or release every applicable
scope as one unit"). `OperationQuota` has the files, the pending transaction, the
lock holder's phase and a crash action that is possible at every phase; a failed
write is the same action, since the call then returns with the transaction left
behind. The refinement mapping reads a scope from the pending transaction if it is
in it, and from its file otherwise. The clock may be set to any instant at any
time: the code relies on the stored `UpdatedAt` and not on the clock.

Not modelled: the loss of a completed rename or unlink in a power failure (the
code syncs the directory after each), and the construction of policies from
evidence, which keeps no state.

### OperationHistoryFiles, OperationHistoryStore

`disk` is the directory: for each kind of file (`records`, `pending-sequence`,
`reservations`, `operation-index`, checkpoint, frozen batch descriptor,
publication transaction, mutation marker, usage) a partial function from file name
to content. A call runs under `store.lock` and is several steps: `TakeLock` (with
the rebuild that `ensureUsageLocked` may start), the call itself, which decides
and queues its writes in the order of the code, one `Write` for each atomic rename
or removal, and `Return`. `Fail` ends the call between any two writes: a crash, a
cancelled context or an I/O error. `Open` is a process start, of any release, which
always rebuilds. `writes` holds the writes that are left, in *stages*: those of one stage in
any order, the stages in turn, an empty stage being done. Index files are written in
Go's map order, so those writes form one stage. `live`, `refs`, `handed` and `confirmed` are what
callers hold: reservations, references to durable receipts, batches, and batches
whose upload was verified. `holder = "refused"` is a rebuild or acknowledgement that
returned `ErrOperationHistoryCorrupt` or `ErrOperationHistoryCapacity`.

A receipt that is read back is validated, by the rebuild (`operation_history_store.go:788`),
by the replay of a publication and by the selection of a batch; and the resolver of
the scheduler knows the receipts of its own release only
(`operation_plan_probe_history.go:157-161`, `217`). An attempt therefore carries the
release that made it, and `readable`, `replayable` and `loadable` ask for the
running one. Reservations are not validated in this way and outlive a rollout. After a
rollout with receipts that wait, the new release cannot open the store, its plan lane
stays off (`cmd/health-scheduler/operation_plan.go:148`), and the store opens again once
the old release is back. A batch whose receipts are removed already is replayed by any
release. The directory is taken to be open in one scheduler process at a time, as
`compose.yaml` has it: two processes of different releases on one directory could mix
their receipts, and neither could open it afterwards.

Abstracted: digests are what they are taken of, and the set digest in the
checkpoint is the set of index entries; sizes are small units and a receipt has
one size; timestamps and file permissions are left out; NextSequence and
VerifiedPublicationCount are derived, since `readUsage` rejects a file in which they do
not follow from the other counters. The refusal of an append whose receipt outgrows
its reservation, and a byte limit that changes between starts, are left out.

### OperationPlanProbe, OperationPlanWorker

A worker is a program counter and its locals; one step is one store call, since
each call is one locked section. The stores are reduced to what `ExecuteOne` can
see of them: attempts with a state and a lease, reservations and records by
attempt, quota leases. Each call may fail before or after its effect is durable
(`faults`), and a worker may die between any two. The child is separate: it sends
its request at some time before its deadline, outlives a dead worker, and returns
any receipt, a wrong exit code, or nothing. The receipts that `operation_plan_probe.go`
accepts are validated a second time by the history validator, from the stored
receipt and an exit code derived from it, and a third time by the ledger;
`ReceiptCommits` is about these three agreeing. They do not agree on one thing: the
first two accept a response dated up to one second before the attempt or after its
receipt (`operation_plan_probe.go:517`), and the ledger does not
(`operation_attempt_store.go:444`). `ObservedAt` tells these dates apart. Such an
attempt has its receipt in the archive, stays claimed until its lease ends, and
becomes unknown; `ReceiptCommits` says exactly that.

### OperationPlanScheduler

A pass scans for deliveries, then for due executions, then reads a slice of the
evidence; tasks end between any two steps of a pass. Instants are replaced by the
facts the code derives from them (due, proven, newer than the failure), which steps
of the environment change. `readSince` and `owed` are history variables of
`ReadyIsEarned`. A push or readback fails as often as Gatus likes; only the other
failures (unreadable ledgers, failing executions, aborted passes) are counted by
`MaxFaults`.

Worth knowing: a lasting outage of Gatus stops executions. A full outbox stops those
of its operation. And with one slot, the default, two operations with a delivery
suffice to stop all: whichever is scanned while the other's push runs reserves the
next slot (`launch`, lines 655-666), the reserved delivery starts, fails, and so on in turn, and
an execution never finds the slot free. A reserved operation whose ledger stays
unreadable keeps its reservation as well (332-339, where `clearDeliveryReservation` is
not reached). `Readback` compares the latest row of Gatus only. `assessCapacity` (lines
1009-1055) is not modelled.

### OperationReadModel, OperationReadModelRuntime

A ledger file is what the projection selects from it, with a version that stands
for the file stamp. The scheduler's process replaces files at any time, also between
the reader's stat and its read. A sweep works on a private copy and commits stamps
and rows together. A client walks the pages of the published snapshot while it is
replaced.

The writer's actions are the operations of `OperationAttemptStore` as the projection
sees them. A result is stored with its delivery `not_ready`; the projection shows it
as `pending` before it is claimed too
(`operationReadModelAttemptFromState`). `ClaimDelivery` therefore replaces the file,
and its stamp, without changing the row. The instants of a result, an acknowledgement and a
readback were taken before the store's lock was, so each is any instant between the
event before it and now. `End` has the endings of an attempt without a result;
`failed` is a block before dispatch, in which no request was started. The reader may
start on a ledger with a past, one of `InitialLedgers` at `StartTime`, which
`LedgerAssumption` limits to what the store's validator and operations leave.

The row is refreshed at the batch's time before it is stored
(`operation_read_model.go:560-564`), so an acknowledgement later than that time is
not shown until the file changes again (see the findings);
`StampHidesNothing` speaks of the attempt and its result, whose instants are not
removed in this way.

### ScheduleCoverage, CanaryScheduler

A call on the coverage file is one step, since it holds the file lock throughout;
the lifecycle of a process is up to three calls, with other processes in between. A
call may also replace the file and then fail in the directory sync
(`schedule_authority.go:336`), or its caller may die before it has the answer:
`CallFails` for the lifecycle, `AnswerLost` for the workers. `done` are the completions
that workers were told of, `unsure` those that reached the file without an answer.
The canary scheduler's pass runs the lifecycle and then looks at the canaries one
by one; a run has a step for each of staging, child, admission, delivery and the
return of its permit. A crash loses what is in memory and keeps the two files. A child
that dies or times out gets a receipt in its place, which replaces the older status in
Gatus; a receipt of another canary is refused and leaves it (`scheduler.go:257-261`).
Observed on the way, and not claimed as properties: `LastClaimedSlot` is stored but
never compared, so an interval or a jitter that changes between starts may run a slot
twice; a lease that spans an interval boundary keeps the coverage, and with it every
canary, from running until it ends. Left out: children that outlive a crash, the
file's generation (only a writer outside the lock could change it), the ages in
`Readiness`, which only take readiness away.

### OperationGatusConfig, HealthDeployment

The inputs of a process are those of its image and do not change; digests are the
values they are taken of. A file holds the release whose artifact it is. The
generator replaces the three artifacts in Go's map order and may die in between;
health-scheduler and health-public read them one after the other at their start, and
serve what they made of them until they stop. The plan lane comes from the identity map
that was read (`mapping`), which `verifyOperationGatusRuntimeArtifacts` compares with the
generated one and then decodes; without the comparison `LanesSound` fails. Gatus reads its configuration when it
starts. A lane is the set of what it runs; the lanes themselves are the subject of
the two scheduler modules. `canonicalSchedulerReadiness` looks at the two lanes one
after the other, which is one look here. The reasons of the preflight other than the
plan's only stop the canary lane. Left out: the YAML rendering, the seal and copies
of the loaded runtime, the one-second cache in front of the readiness reader. A
reason that `validSchedulerReadinessReason` does not know (`cli_unavailable` is one)
makes the reader report *unavailable*: it fails closed. The check that every legacy
link is in the plan (`operation_gatus_config.go:302-307`) looks into a map that already
holds the legacy entries and cannot fail; what it is for is ensured by
`bindsSourceInventory`.

## 3. Runs

All runs of the attempt store say `CHECK_DEADLOCK FALSE`: its clock is bounded by
`MaxTime`, and at the last instant nothing need be possible.

| Run | Question | Bounds |
|---|---|---|
| `attempt_claims` | claims, leases, spacing, plan flags, validator | 3 bindings of 2 plans (one differs only in its Gatus key), ring of 3, time to 5, lag 1, no deliveries |
| `attempt_outbox` | delivery and rotation | 1 binding, ring of 2, 2 delivery attempts |
| `quota_budgets` | limits under clock steps, stale releases, policy change | 2 scopes, 2 attempt identities, 3 policy sets, 2 windows |
| `quota_transactions` | refinement, charge before return, a left-behind transaction is replayed | 2 scopes, 2 identities, 2 crashes anywhere |
| `history_store` | receipts, batches, usage and recovery under crashes and rollouts | 2 operations, 4 attempts of 2 releases, 2 receipt contents, 3 reservations ever made, batches of at most 2, crashes and starts unlimited |
| `history_full` | expected violation, below | |
| `plan_worker` | requests, evidence and resources of `ExecuteOne` | 2 workers, 2 attempts, 2 faults or crashes, leases of 3 and 2 for a probe of 1 |
| `plan_scheduler` | readiness and starvation | 2 operations, 1 slot, an outbox of 1, 1 fault beside those of Gatus, which are unbounded |
| `read_model` | stamps, pages, sweeps, and that no snapshot takes a result back | 2 operations in 2 batches, 2 ledgers at the start, 2 plans, 1 fault |
| `read_model_rollback` | expected violation, below | 1 operation, a plan that comes back |
| `canary` | coverage file, slots, progress | 3 deployments, 2 canaries of different periods with 1 permit, 2 intervals, 1 crash, 1 failed call or lost answer |
| `deployment` | rollouts | 10 pairs of 11 releases, 2 canaries, 4 operations; starts, stops and deaths unlimited |

A ring of 3 holds an attempt being rotated out, a settled one and a live one, and
with three bindings every pattern of plan change between them; leases, periods and
the retry delay are 1 or 2 so that each boundary (one before, at, one after) is an
instant of the model. Two scopes are enough for a partial commit, one crash for
each point of it, and a second crash for a crash during recovery.
In `history_store` three attempts give a full batch with a receipt left over, an
index entry that is created and one that is replaced, and a second publication on
top of a checkpoint. The limit of reservations is reached by two abandoned ones,
the byte limit by two receipts and a reservation, so refusals are counted too; the
limits of pending records and of operation keys are not reached at this size. A fourth
attempt is of another release, so that receipts of either wait at a rollout, and
those of one are published before that of the other comes.

In `read_model` the reader finds one of two ledgers: one operation without a file next to
a result of the reader's plan that Gatus has acknowledged, or an observation-only result
of that plan, which a claim can follow, next to a result of the earlier plan. Between them the writes that remain, at most two of an operation,
reach every stage of an attempt and of a delivery, and a coverage in which
every operation is current.

In `plan_worker` one fault leaves something behind and the second hits the
clean-up or the next attempt; a lease longer than the probe gives children that
start too late. In `plan_scheduler` one slot for two operations is the tightest
competition, and the second operation is the one that may starve. In `canary` the
deployments are started side by side: the scheduler alone, two processes with
different shard counts and a worker, one process and two workers. In `deployment`
the releases differ in the canaries, the plan, the activation, and in one fault
each: a digest that is missing or not the file's, an operation that is not
admitted, a key that collides. Two of them activate different single operations, so that the
identity map of one would pass for the other's but for the comparison.

`attempt_outbox`, `attempt_claims`, `plan_worker` and `canary` stop at the last
instant or attempt of the model and say `CHECK_DEADLOCK FALSE`; all other runs check
for deadlock.

Fairness: the scheduler polls every due operation as long as the process lives
(`operation_plan_scheduler.go`, ProcessDue), and a flock is released by the kernel
when its holder dies, so polling and lock-holder steps are weakly fair; crashes,
outcomes, releases and deliveries are never assumed to happen. In `plan_scheduler`
the steps of a pass are weakly fair, since a ticker drives them and a pass does not
block, and so is the end of each task, which a context deadline ends in any case.
Whether a delivery ends well is not assumed by `DeliveryNotStarved`: the task is
started, however many pushes Gatus refuses. `ExecutionNotStarved` has the premise
`GatusRecovers`, that from some time on no delivery fails; without it the property is
false of the code, as section 2 says.

Sizes, in distinct states: `history_store` 4.7 million, `canary` 2.3 million,
`deployment` 1.1 million, `plan_worker` 0.9 million, `plan_scheduler` 0.5 million; the
others are smaller.

### Findings

`history_full`: freezing a batch may use a part of the publication headroom
(`operation_history_publication.go:230` keeps only the tailroom free), but a rebuild
demands the whole headroom besides what is used, the descriptor included
(`operation_history_store.go:767`). A nearly full store with a frozen batch
therefore cannot be opened again, and cannot be emptied by publishing either.
`operation_history_store_test.go:622-625` expects a store with a frozen batch to
reopen. `history_store` has room to spare for this check, and there every crash is
recovered from, except by a release whose receipts are not the ones that wait.

`read_model_rollback`: `docs/operation-read-model-v2.md:15` calls the `attempted` bit
sticky within a plan binding. `BeginAttempt` keeps it for one plan only and clears
it on every change (`operation_attempt_store.go:404-408`). When plan P observed a
result of the observation-only kind, and a claim under Q and another under P follow,
the ledger still selects P's observation while it says that P started no request.
A reader pinned to P refuses that row (`operation_read_model.go:1185-1187`) and, as
one refused row aborts the batch, publishes nothing for any operation until an
attempt under P starts a request. Without a rollback (`read_model`) no file does this,
and section 4 proves it.

Three more facts met while modelling, on instances that no run keeps. A quota policy
whose window has another *length* is adopted in the middle of the stored policy's
window as soon as no lease is live, with an unused budget, because
`nextOperationQuotaClaim` compares the stored window start with the one computed from
the new length (`operation_quota.go:397`). And with `OverlappingAttempts = TRUE` two
workers can append generations 2 and 1 of one operation in this order; the
publication transaction of both is written before it is found inapplicable
(`operation_history_publication.go:462`) and every later start refuses it. One
scheduler process runs one attempt of an operation at a time, which is what
`history_store` assumes. Last, `docs/operation-read-model-v2.md:13` says that all event
times are evaluated against the caller's current time; `applyAttempts` evaluates them
against the instant at which the batch began, and stores the outcome. An
acknowledgement or readback that was written after that instant and before the file
was read is removed from the row (`operation_read_model.go:1030-1039`), while the stamp
of the file is committed with it; pages show the earlier stage until the file is next
replaced, which after a readback may be the operation's next attempt.

## 4. Proofs

`OperationAttemptStoreProofs` proves, for every set of bindings, ring size, lease,
delay and lag: `TypeOK`, `ClaimExclusive`, `EvidenceWithinLease`,
`RequestSpacing`, `InOrderDelivery`, `DeliveryExclusive`, `PlanEvidenceExact`,
`NoWriteRefused`, and the action properties `ClosedIsFrozen`, `OutboxForward`,
`RotationKeepsEvidence`. The inductive invariant `Inv` adds that
the file passes its own validator, that generations increase along the ring, and
that only the last attempt can be claimed: without the last two a claim could name
two attempts, and without the first nothing bounds the times that spacing compares.
Every step is first classified (`StepShape`): it leaves the ring alone, replaces
one attempt by a closed or delivered version of it, or appends one, possibly
dropping the oldest. Each invariant is then proved per shape rather than per
action. `DeliveryExclusive` needs that an attempt in the ring knows every delivery
claim made for it (`DeliveryAccounted`); `NoWriteRefused` goes through the
validator's conditions one by one, for the three writes it names, from the validity
of the file that is on disk and the order of its two sticky bits (`FlagsOrdered`).

`OperationQuotaProofs` proves `Spec => AtomicQuota!Spec` under the mapping above.
Its invariant says that a call decides only when no transaction is pending, and
that what the holder has still to write is in the transaction, the rest in the
files. `ChargedBeforeReturned` adds that a returned claim is counted by the files it
names and by whatever a pending transaction will put in their place, and that the
claim in hand is counted by the transaction (`ChargeInv`).

`AtomicQuotaProofs` proves `ClaimSpacing` and `ConcurrencyBound` for every set of
scopes and policies and every movement of the clock. The invariant adds that a
scope's state accounts for its claims: a generation names one claim, none is later
than the last one stored, and a claim that is neither released nor expired has its
lease in `active`, where an attempt has one lease. Without the last part a release,
which deletes by attempt, could drop the lease of another claim. With the refinement
above the limits hold of the files under crashes too. `BudgetPerWindow` and
`PolicyFixedWithinWindow` are proved under the hypothesis `OneWindowLength`, that the
policies of a scope have one window length: without it both are false of the code
(see the findings above). `WindowInv` says of the current window that the stored
count is at least the number of claims charged in it, all under the stored policy, and of
every window that its claims are within the budget of their one policy.

`OperationPlanWorkerProofs` proves `RequestCovered`, `EvidenceTruthful`,
`NothingLeaks` and the action property `ReceiptCommits` for any number of workers,
attempts, faults and deaths. The invariant ties three owners together: at most one
attempt is claimed and a claim has at most one worker; a running child belongs to a
claimed attempt, and its deadline lies before the ends of that attempt's lease and
of its quota lease; and for each program point of a worker, what it holds
(`WorkerHolds`) and what its receipt proves (`WorkerOK`). `ReceiptCommits` rests on
the agreement of the three validators: what the runner accepts, the archive accepts,
and the entry point that the worker picks accepts (`ReceiptAccepted`, `AllUsable`), the
dates of the response excepted.

`ReadinessProofs` proves `ReadyIsEarned` of the plan scheduler for any number of operations
and slots. Readiness looks only at flags; the invariant relates them to what was
read. `DemandsLatched`: an operation that still owes a proof is latched as an error,
and neither the ledger nor what the sweep has staged shows a proof newer than the
failure. `SweepsCurrent`: a clean sweep has read its operations since the last
error, and no sweep is complete and unlatched that has not.

`CanarySchedulerProofs` proves `LeaseHonoured`, `CompletionsCounted`, `SlotRunOnce`
and `ProgressTruthful`, for any number of canaries, subjects, processes with any
shard counts, and workers. `LeaseInv`: a claim in a worker's hands was granted by
the file under its plan or an earlier one, at a generation the entry still has or has
passed, and no generation was granted twice; so only the holder of the current claim
can give it back, and a plan that may replace the file's finds no live lease.
`CompletionInv` rests on it: under the file's plan the completed entries and the
completions, those that workers were told of and those whose answer was lost, correspond
one to one, no completion is both, and each shard of the kept receipt counts those of
its shard; the sum over the shards is unfolded to the community
module's fold and compared with the size of the disjoint union (`SumOfCounts`).
`SlotInv`: a record, in memory or on disk, is the due time of a slot after every slot
that ran; the arithmetic of slots and jitter is `DueInSlot` and `NextDueSlot`.
`ReportInv`: a report is true of Gatus except between the delivery of a missing
receipt's summary and the report of it.

`ReadinessProofs` also proves `LanesSound` and `ReadyIsCovered` of a deployment, for every set of
releases and every rollout between them. Neither is inductive: a bundle on disk may
be a mixture of two releases at any time. The invariant therefore says nothing of
the directory, and only that what a process has accepted is a function of its own
image's inputs (`SchedulerOK`, `PublicOK`), the identity map it decoded included, because
every artifact it reads is compared with what those inputs generate. Soundness of the lanes then follows from
the generated bundle alone (`OneLaneEach`, `KeyDeclared`). For the reader, equal
runtime pins imply equal canaries, plan and suppressions (`SamePin`), and an unbound
reader is covered by counting.

`OperationReadModelProofs` proves `StampHidesNothing` and `PublicPages` for every number
of operations, batch size, page size, age limit and period, every initial ledger that
`LedgerAssumption` allows, and any order of writes, sweeps, failures and restarts, plans that
come back included. `IInv` follows a file through the places where the reader remembers it.
`LedgerOK`: each file is one that the store's operations leave, and its result is in
the history. `BatchOK`: a version in the batch that is still the file's own comes with that
file's projection. `SweepOK`: such a version in the sweep comes with a row that shows
the file, and an operation without a staged version still has the row of the snapshot.
`StampHidesNothing` is the same of the snapshot. It is not inductive without the
other two, because a publication commits stamps that were read many steps, and many
writes, before. `SnapshotOK` keeps that every row is valid at *every* instant
(`Timeless`, `RefreshValid`), as pages are validated at the client's time; `WalkOK`
is about the cursor. That the coverage of the whole and the progress of the API agree is
counting (`identityCounts`).

Where no plan comes back (`~Rollback`, and only there: see `read_model_rollback`) it proves
`NoFilePoisonsSweep`, `BatchAccepted` (no batch a sweep has read is refused for its
contents) and the action property `NothingTakenBack`. The last rests on `Newer`:
along file, batch, sweep and snapshot, each place holds a result at least as new as
the next one, or the file has gone on to a later plan, in which case no later batch
touches the row. `IInv` and `Newer` were checked with TLC before they were proved.

`OperationHistoryStoreProofs` proves `UsageExact`, `EvidenceKept`, `StableBatches` and
`OneReceiptPerAttempt` for every set of operations and attempts, every limit, charge
and batch size, and a crash or failed write after any write of any call, the replay
and the rebuild included. Looking at the directory as it is would not be inductive: in
the middle of a publication a receipt is in neither place, and what makes that right
is what is written next or what the next caller replays. The invariant `Inv` therefore
looks ahead. `after(d, Q)` is the directory d with the writes Q done, `Closed` says
that Q is a prefix of the queue in the order of its stages, and `Safe` that every such
prefix leads to a directory that is `Good`: *recoverable* (the checkpoint, records,
sequence files and index fit together, or a transaction is left whose batch is where
it can still be applied), *exact* if its usage would be trusted, and without loss of
what callers *know* (their references, their batches, the confirmed ones). A write
takes one element from the queue, so fewer prefixes are left (`WriteKeeps`); a crash
is the empty prefix (`Quiet`). For each call it then remains to show that the writes
it begins are safe from a good directory: `Mutation` once for all calls between marker
and usage (`ReserveSafe`, `UnreserveSafe`, `AppendSafe`, `FreezeSafe`, `BlockSafe`),
`PublicationSafe` for the transaction, `ReplaySafe` and `RebuildSafe` for recovery.
`settled`, the checkpoint after a transaction that is left, does not change while the
transaction is applied (`AdvancingParts`), which is why no caller can tell how far it
got.

`StoreReopens` and `RecoveryIsComplete` say when a store can be opened again. A start,
a call or an acknowledgement gives up *only* when every receipt that waits is of another
release than the running program's (`Foreign`), or when a batch is frozen and the files,
its descriptor counted, come within the publication headroom of the limit, by at most
the descriptor (`FrozenWithin`). The latter is the finding of `history_full`. Nothing else
stops recovery: whatever a crash leaves can be replayed, passes the scan of a rebuild,
and fits every limit that `Reserve` checked. Hence `Reopens` wherever `FrozenFits` holds in
every state, which TLC confirms for the instance of `history_store`. `PInv` is the part
about releases: an open store has receipts of the running release only, in its files and
in the writes that are left, and a closed one has receipts of one release. It is inductive
because a program appends nothing before its own rebuild has validated what is
there, and because a refusal leaves no record to write. A rebuild that demanded the headroom
without the descriptor would never refuse. The proof adds `RInv` to the invariant: every
closed prefix of the queue leaves `Room`, the limits on records, reservations, keys and
bytes, taken of what is left once a pending transaction has been applied (`kept`,
`settled`). Taken of the files as they are it is not inductive: in the middle of a
publication both a record and its index entry are there. An append moves a
reservation to the record, which is not larger (`RoomAppend`); keys are counted with
the operations of pending receipts, so an index entry that a publication adds was
counted when the receipt was reserved; a publication frees a record for each entry it adds,
and the first of them pays for the checkpoint (`RoomPublish`, `ReserveAssumption`).

All six have the hypothesis `~OverlappingAttempts`, which both runs make too: without it
recovery can get stuck (see the findings above). `Inv` and `RInv` were checked with TLC
on an instance of `history_store` with one receipt content before they were proved.

Assumptions: those named in the modules (positive periods and leases, one period
for each plan, valid policies, a clock past the zero time, rollouts made of known
releases with finitely many canaries, a first ledger that the store's validators accept,
a history limit that admits one reservation, and a record charge that covers an index
entry and a checkpoint, as the metadata reserve of the code is meant to).

Only model-checked: all liveness properties, which are out of the prover's reach, and
the refutations of `history_full` and `read_model_rollback`.

## 5. Plan

1. Done: the three stores, the worker, both schedulers, the read model, the coverage
   authority, and the processes of a deployment.
2. Done: proofs of every safety property that the passing runs check; `Reopens` where a
   frozen batch leaves the headroom free.
3. The interleaving of the scheduler's lock-free evidence check with a publication,
   which `OperationPlanScheduler` has only as a read that may fail.

## 6. Not modelled

Parsing, schemas and rendering keep no state beyond one call and are left to their
unit tests: the observation plan and the Registry metadata (of which only what the
deployment compares is kept), the compatibility and assertion checks, correlation
and diagnosis, the public pages, the runtime bundle, the Parquet archive.

The bounded observation runs are used by no program under `cmd/`. Two things in them
deserve a look before they are: a slot is returned in a deferred function after the
result was sent, so the next shard may find none; and the cleanup of stale runs goes
by modification time and can meet a run in progress.

The journal of Gatus deliveries is append-only and never read by the scheduler. The
claims of the coverage authority are used by no program yet; the workers of
`ScheduleCoverage` stand for its API. A power failure that loses a completed rename is
left out everywhere; the canary scheduler's state file is renamed without a sync of
its directory. Liveness of the read model is not checked: a sweep that always
finishes in time is an assumption about the disk. The per-file reasons are in
`PROJECT.json`.
