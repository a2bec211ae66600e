----------------------- MODULE OperationReadModelRuntime -----------------------
(***************************************************************************)
(* The public process's view of the attempt ledger                          *)
(* (operation_read_model_runtime.go and the read-only half of               *)
(* operation_attempt_store.go).                                             *)
(*                                                                          *)
(* The scheduler's process replaces ledger files at any time.  The reader    *)
(* takes no lock: it sweeps the operations in batches, skips the files whose *)
(* stamp it has committed before, applies what it read to a private copy of  *)
(* the last snapshot, and when every batch has been accepted commits the     *)
(* stamps and publishes the copy.  A failed or overlong sweep is dropped.    *)
(* Clients page through the published snapshot.                             *)
(***************************************************************************)
EXTENDS OperationReadModel, Sequences

CONSTANTS
  N,                \* operations of the plan, in sorted order 1 .. N
  BatchSize,        \* identities per batch
  PageLimit,        \* rows per page of a client
  MaxAge,           \* how long a snapshot is served
  MaxPassDuration,  \* how long a sweep may take
  Plans,            \* plans the scheduler runs, numbered in order of release
  Rollback,         \* whether the scheduler may go back to an earlier plan
  Results,          \* the categories of the results that occur
  Endings,          \* how attempts without a result end
  InitialLedgers,   \* the ledgers the reader may find, with the files that exist
  StartTime,        \* the instant at which the reader starts
  MaxWrites,        \* bound on the version of each operation's file
  MaxTime, MaxFaults   \* bounds

ASSUME Configuration ==
  /\ N \in Nat \ {0} /\ BatchSize \in Nat \ {0} /\ PageLimit \in Nat \ {0}
  /\ MaxAge \in Nat /\ MaxPassDuration \in Nat
  /\ Plans \subseteq Nat \ {0} /\ Plan \in Plans
  /\ Rollback \in BOOLEAN
  /\ Results \subseteq Categories
  /\ Endings \subseteq [state : {"request_started", "failed", "unknown", "deferred"},
                         started : {"nil", "false", "true"}]
  /\ \A e \in Endings : validRequestEvidence(e) /\ (e.state = "failed" => e.started = "false")
  /\ MaxWrites \in [1 .. N -> Nat]
  /\ StartTime \in Nat \ {0} /\ MaxTime \in Nat /\ MaxFaults \in Nat

States == {"claimed", "request_started", "observed", "failed", "unknown", "deferred"}
Started == {"nil", "false", "true"}
Deliveries == {"not_ready", "pending", "not_applicable", "acknowledged", "readback_verified"}

Observation ==
  [plan : Plans, category : Categories, observed : Nat, received : Nat,
   delivery : Deliveries, ack : Nat, readback : Nat]

LedgerFile ==
  [version : Nat \ {0}, plan : Plans, state : States, started : Started, ever : BOOLEAN,
   begun : Nat, obs : Observation \cup {NoObservation}]

\* What the store leaves in a file, as far as the projection sees it.
\* validOperationAttemptState: the evidence of the attempt and of the result fits
\* their states.  The operations of the store: no instant lies ahead, an attempt
\* begins after the results before it, and unless a plan came back the result is
\* of no later plan and the sticky bit knows its request.
validLedgerFile(f, at) ==
  /\ f \in LedgerFile
  /\ validOperationReadModelAttempt(operationReadModelAttemptFromState(f))
  /\ 0 < f.begun /\ f.begun <= at
  /\ f.obs.received <= at /\ f.obs.ack <= at /\ f.obs.readback <= at
  /\ f.state = "claimed" => f.obs.observed <= f.begun
  /\ ~Rollback => /\ f.obs.plan <= f.plan
                  /\ f.obs.plan = f.plan => f.ever

ASSUME LedgerAssumption ==
  \A ledger \in InitialLedgers : \A o \in DOMAIN ledger : validLedgerFile(ledger[o], StartTime)

VARIABLES
  files,         \* the ledger file of each operation
  observations,  \* history: every observation the ledger ever held
  stamps,        \* readStamps: the version of each file committed last
  current,       \* the published snapshot
  staging,       \* the sweep under way
  batch,         \* the batch under way
  walk,          \* the pages a client has collected
  clock, faults

vars == <<files, observations, stamps, current, staging, batch, walk, clock, faults>>

Operations == 1 .. N

\* Version 0: the file does not exist.
NoFile == [version |-> 0, plan |-> 0, state |-> "none", started |-> "nil", ever |-> FALSE,
           begun |-> 0, obs |-> NoObservation]

\* The entries of f, and those of g where f has none.
over(f, g) == [x \in DOMAIN f \cup DOMAIN g |-> IF x \in DOMAIN f THEN f[x] ELSE g[x]]

with(f, x, v) == [y \in DOMAIN f \cup {x} |-> IF y = x THEN v ELSE f[y]]

observation(o, obs) ==
  [op |-> o, plan |-> obs.plan, category |-> obs.category, observed |-> obs.observed]

Unknown == -1

NoSnapshot == [rows |-> <<>>, at |-> -1]

NoSweep == [rows |-> <<>>, offset |-> 0, at |-> -1, updates |-> <<>>]

NoBatch == [at |-> -1, next |-> 0, stat |-> Unknown, attempts |-> <<>>, updates |-> <<>>]

NoWalk == [seen |-> <<>>, more |-> TRUE]

Init ==
  /\ \E ledger \in InitialLedgers :
       files = [o \in Operations |-> IF o \in DOMAIN ledger THEN ledger[o] ELSE NoFile]
  /\ observations = {observation(o, files[o].obs) : o \in {p \in Operations : hasObservation(files[p])}}
  /\ stamps = [o \in Operations |-> Unknown]
  /\ current = NoSnapshot
  /\ staging = NoSweep
  /\ batch = NoBatch
  /\ walk = NoWalk
  /\ clock = StartTime /\ faults = 0

-----------------------------------------------------------------------------
(* The scheduler's process: one step per replacement of a file.             *)

readerVars == <<stamps, current, staging, batch, walk>>

replace(o, f) ==
  /\ files[o].version < MaxWrites[o]
  /\ files' = [files EXCEPT ![o] = [f EXCEPT !.version = @ + 1]]
  /\ UNCHANGED <<readerVars, clock, faults>>

\* BeginAttempt: a plan other than the current one resets the sticky bit.
Begin(o, plan) ==
  /\ files[o].state # "claimed"
  /\ Rollback \/ plan >= files[o].plan
  /\ replace(o, [files[o] EXCEPT !.plan = plan, !.state = "claimed", !.started = "nil",
                                 !.begun = clock,
                                 !.ever = @ /\ plan = files[o].plan])
  /\ UNCHANGED observations

\* The attempt ends without a result: RecordRequestStartedWithoutObservation,
\* RecordBlockedAttempt, RecordPreDispatchDeferred, or its lease lapsed.
End(o, e) ==
  /\ files[o].state = "claimed"
  /\ replace(o, [files[o] EXCEPT !.state = e.state, !.started = e.started,
                                 !.ever = @ \/ e.started = "true"])
  /\ UNCHANGED observations

\* CompleteAttempt: the result, observed since the attempt began, replaces the
\* one selected so far.
Complete(o, category, observed, received) ==
  /\ files[o].state = "claimed"
  /\ LET obs == [plan |-> files[o].plan, category |-> category, observed |-> observed,
                 received |-> received, ack |-> 0, readback |-> 0,
                 delivery |-> IF category = "response_semantics_unestablished"
                              THEN "not_applicable" ELSE "not_ready"]
     IN  /\ replace(o, [files[o] EXCEPT !.state = "observed", !.started = "true",
                                        !.ever = TRUE, !.obs = obs])
         /\ observations' = observations \cup {observation(o, obs)}

\* ClaimDelivery on the selected result; a lapsed claim is taken over.
ClaimDelivery(o) ==
  /\ hasObservation(files[o]) /\ files[o].obs.delivery \in {"not_ready", "pending"}
  /\ replace(o, [files[o] EXCEPT !.obs.delivery = "pending"])
  /\ UNCHANGED observations

\* AcknowledgeDelivery and RecordGatusReadback: the instants were taken before
\* the store was locked.
Acknowledge(o, responseAt) ==
  /\ files[o].obs.delivery = "pending"
  /\ replace(o, [files[o] EXCEPT !.obs.delivery = "acknowledged", !.obs.ack = responseAt])
  /\ UNCHANGED observations

Readback(o, receivedAt) ==
  /\ files[o].obs.delivery = "acknowledged"
  /\ replace(o, [files[o] EXCEPT !.obs.delivery = "readback_verified",
                                 !.obs.readback = receivedAt])
  /\ UNCHANGED observations

Write ==
  \E o \in Operations :
    \/ \E plan \in Plans : Begin(o, plan)
    \/ \E e \in Endings : End(o, e)
    \/ \E category \in Results, observed \in files[o].begun .. clock :
         \E received \in observed .. clock : Complete(o, category, observed, received)
    \/ ClaimDelivery(o)
    \/ \E responseAt \in files[o].obs.received .. clock : Acknowledge(o, responseAt)
    \/ \E receivedAt \in files[o].obs.ack .. clock : Readback(o, receivedAt)

-----------------------------------------------------------------------------
(* The sweep (refreshNextBatch).                                            *)

writerVars == <<files, observations>>

sweeping == staging # NoSweep

\* refreshExpiredLocked at an instant.
expired(at) == at - staging.at > MaxPassDuration

\* abortRefreshLocked: nothing of the sweep remains.
abortRefresh ==
  /\ staging' = NoSweep
  /\ batch' = NoBatch
  /\ UNCHANGED <<writerVars, stamps, current, walk, clock>>

\* Mutant of newSweep: every sweep starts from the rows of the plan.
newSweepFromPlan ==
  [rows |-> [o \in Operations |-> staticRow], offset |-> 0, at |-> clock, updates |-> <<>>]

\* cloneOperationReadModelForRefresh of the snapshot, or of the plan's rows.
newSweep ==
  [rows |-> IF current = NoSnapshot THEN [o \in Operations |-> staticRow] ELSE current.rows,
   offset |-> 0, at |-> clock, updates |-> <<>>]

\* Run samples the clock; the batch is evaluated at that instant.
BeginBatch ==
  /\ batch = NoBatch
  /\ ~sweeping \/ ~expired(clock)
  /\ staging' = IF sweeping THEN staging ELSE newSweep
  /\ batch' = [NoBatch EXCEPT !.at = clock, !.next = staging'.offset + 1]
  /\ UNCHANGED <<writerVars, stamps, current, walk, clock, faults>>

\* The sweep is too old when the next batch begins.
ExpireBatch ==
  /\ batch = NoBatch /\ sweeping /\ expired(clock)
  /\ abortRefresh
  /\ UNCHANGED faults

batchEnd == IF staging.offset + BatchSize > N THEN N ELSE staging.offset + BatchSize

reading == batch # NoBatch /\ batch.next <= batchEnd

\* The file has the stamp committed last.
unchanged(o) == stamps[o] = files[o].version

\* The first look at the stamp of the next file.
StatFile ==
  /\ reading /\ batch.stat = Unknown
  /\ LET o == batch.next
         v == files[o].version
     IN  batch' = IF unchanged(o) THEN [batch EXCEPT !.next = @ + 1]
                  ELSE IF v = 0 THEN [batch EXCEPT !.next = @ + 1,
                                                   !.updates = with(@, o, 0)]
                  ELSE [batch EXCEPT !.stat = v]
  /\ UNCHANGED <<writerVars, stamps, current, staging, walk, clock, faults>>

\* The file is read and looked at again.  One that a writer replaced in
\* between is left for the next sweep.
ReadFile ==
  /\ reading /\ batch.stat # Unknown
  /\ LET o == batch.next
         f == files[o]
         past == [batch EXCEPT !.next = @ + 1, !.stat = Unknown]
     IN  batch' = IF f.version # batch.stat THEN past
                  ELSE [past EXCEPT !.updates = with(@, o, f.version),
                                    !.attempts = with(@, o, operationReadModelAttemptFromState(f))]
  /\ UNCHANGED <<writerVars, stamps, current, staging, walk, clock, faults>>

\* A file that cannot be read discards the sweep.
ReadFails ==
  /\ reading
  /\ faults < MaxFaults /\ faults' = faults + 1
  /\ abortRefresh

batchRead == batch # NoBatch /\ batch.next > batchEnd

accepted ==
  \A o \in DOMAIN batch.attempts : acceptsAttempt(staging.rows[o], batch.attempts[o], batch.at)

\* applyAttempts on the private copy.
appliedRows ==
  over([o \in DOMAIN batch.attempts |-> applyAttempt(staging.rows[o], batch.attempts[o], batch.at)],
       staging.rows)

stagedUpdates == over(staging.updates, batch.updates)

\* commitReadModelAttemptBatches.
committed(updates) == over(updates, stamps)

\* The batch is refused, or the sweep has become too old while it was read.
RejectBatch ==
  /\ batchRead
  /\ ~accepted \/ expired(clock)
  /\ abortRefresh
  /\ UNCHANGED faults

\* Mutant of StageBatch: the stamps of the batch are committed at once.
StageBatchCommits ==
  /\ batchRead /\ accepted /\ ~expired(clock)
  /\ batchEnd < N
  /\ stamps' = committed(batch.updates)
  /\ staging' = [staging EXCEPT !.rows = appliedRows, !.offset = batchEnd]
  /\ batch' = NoBatch
  /\ UNCHANGED <<writerVars, current, walk, clock, faults>>

\* A batch before the last: its rows and stamps wait.
StageBatch ==
  /\ batchRead /\ accepted /\ ~expired(clock)
  /\ batchEnd < N
  /\ staging' = [staging EXCEPT !.rows = appliedRows, !.offset = batchEnd,
                                !.updates = stagedUpdates]
  /\ batch' = NoBatch
  /\ UNCHANGED <<writerVars, stamps, current, walk, clock, faults>>

\* The last batch: the sweep is published.
PublishSweep ==
  /\ batchRead /\ accepted /\ ~expired(clock)
  /\ batchEnd = N
  /\ stamps' = committed(stagedUpdates)
  /\ current' = [rows |-> appliedRows, at |-> batch.at]
  /\ staging' = NoSweep
  /\ batch' = NoBatch
  /\ UNCHANGED <<writerVars, walk, clock, faults>>

\* The process restarts; everything it knows is in memory.
Restart ==
  /\ faults < MaxFaults /\ faults' = faults + 1
  /\ stamps' = [o \in Operations |-> Unknown]
  /\ current' = NoSnapshot
  /\ staging' = NoSweep
  /\ batch' = NoBatch
  /\ UNCHANGED <<writerVars, walk, clock>>

-----------------------------------------------------------------------------
(* Clients.                                                                 *)

\* currentSnapshot.
served == current # NoSnapshot /\ clock - current.at <= MaxAge

pageRow(o) == refreshOperationReadModelFreshness(current.rows[o], clock)

\* Status: the state of the cache and the coverage it shows now.
Status ==
  LET state == IF current = NoSnapshot THEN "starting"
               ELSE IF ~served THEN "stale"
               ELSE IF sweeping THEN "refreshing"
               ELSE "ready"
      counts == identityCounts(current.rows, clock)
  IN  [state |-> state,
       coverage |-> IF current = NoSnapshot THEN "unknown" ELSE coverageState(counts),
       ready |-> state = "ready" /\ counts.known > 0]

\* LookupAPIProgress; the operations are those of one API.
LookupAPIProgress == apiCoverageState(identityCounts(current.rows, clock))

\* The operations that a page of the client's cursor holds.
afterCursor == IF walk.seen = <<>> THEN 1 ELSE walk.seen[Len(walk.seen)] + 1

pageEnd == IF afterCursor + PageLimit - 1 > N THEN N ELSE afterCursor + PageLimit - 1

\* PageOperations: the client asks for the page after its cursor.
NextPage ==
  /\ walk.more /\ served
  /\ \A o \in afterCursor .. pageEnd : ValidatePublicProjection(pageRow(o), clock)
  /\ walk' = [seen |-> walk.seen \o [i \in 1 .. pageEnd - afterCursor + 1 |-> afterCursor + i - 1],
              more |-> pageEnd < N]
  /\ UNCHANGED <<writerVars, stamps, current, staging, batch, clock, faults>>

Tick ==
  /\ clock < MaxTime
  /\ clock' = clock + 1
  /\ UNCHANGED <<writerVars, readerVars, faults>>

ReaderStep == BeginBatch \/ ExpireBatch \/ StatFile \/ ReadFile \/ RejectBatch \/ StageBatch
              \/ PublishSweep

Next == ReaderStep \/ ReadFails \/ Restart \/ NextPage \/ Write \/ Tick

Spec == Init /\ [][Next]_vars

-----------------------------------------------------------------------------
(* Properties.                                                              *)

\* A file that has not changed since its stamp was committed is never read
\* again, so whatever it says of this plan must already be published
\* (commitReadModelAttemptBatches): an aborted sweep hides no result.
StampHidesNothing ==
  \A o \in Operations :
    stamps[o] > 0 /\ unchanged(o) /\ files[o].plan = Plan =>
      /\ current # NoSnapshot
      /\ LET a == selectedAttempt(operationReadModelAttemptFromState(files[o]))
             row == current.rows[o]
         IN  /\ row.state = a.state /\ row.started = a.started
             /\ a.ever => row.attempted
             /\ row.category = a.obs.category
             /\ row.observed = a.obs.observed /\ row.received = a.obs.received

\* A current result shown to the public is a result that the ledger really
\* received for that operation under the reader's own plan.
EvidenceReal ==
  \A o \in Operations :
    pageRow(o).observation \in {"current_pass", "current_fail", "current_indeterminate"} =>
      \E e \in observations :
        /\ e.op = o /\ e.plan = Plan
        /\ e.category = pageRow(o).category
        /\ clock < e.observed + Period

\* Whatever sweeps replace the snapshot between two pages, a served snapshot
\* answers every page, the pages a client collects are each operation once and
\* in order, what they and the coverage report as current is real, and the
\* progress of the API and the coverage of the whole agree.
PublicPages ==
  /\ walk.seen = [i \in 1 .. Len(walk.seen) |-> i]
  /\ ~walk.more => Len(walk.seen) = N
  /\ served =>
       /\ \A o \in Operations : ValidatePublicProjection(pageRow(o), clock)
       /\ EvidenceReal
       /\ Status.coverage = "observed" =>
            \A o \in Operations : \E e \in observations :
              e.op = o /\ e.plan = Plan /\ e.category = "healthy"
       /\ LookupAPIProgress = "current" <=>
            Status.coverage \in {"observed", "provider_failures_present"}
       /\ LookupAPIProgress \in {"partial", "stale", "unobserved"} <=>
            Status.coverage = "observations_incomplete"

\* No file that the ledger can hold makes a sweep fail: one that did would
\* take the whole public read model down, for every operation.
NoFilePoisonsSweep ==
  \A o \in Operations :
    files[o].version > 0 =>
      acceptsAttempt(IF sweeping THEN staging.rows[o] ELSE staticRow,
                     operationReadModelAttemptFromState(files[o]), clock)

\* A published result is never taken back: from one snapshot to the next, of
\* one process and under plans that do not come back, the result shown for an
\* operation only becomes newer, whatever aborted sweeps, files replaced while
\* they are read and attempts without a result lie in between
\* (cloneOperationReadModelForRefresh, applyAttempts).
NothingTakenBack ==
  [][current # NoSnapshot /\ current' # NoSnapshot =>
       \A o \in Operations : current'.rows[o].observed >= current.rows[o].observed]_vars
=============================================================================
