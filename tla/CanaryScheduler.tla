---------------------------- MODULE CanaryScheduler ----------------------------
(***************************************************************************)
(* The scheduler of the public canaries (scheduler.go), composed with the   *)
(* coverage lifecycle of the same process (ScheduleCoverage), and the       *)
(* health-runner process that archives a receipt, pushes its summary to     *)
(* Gatus and journals the acceptance (sink.go, gatus.go,                    *)
(* delivery_journal.go).                                                    *)
(*                                                                          *)
(* A pass first runs the coverage lifecycle and stops when that fails; then *)
(* it looks at the canaries in order.  A due slot is claimed by saving the  *)
(* next due time of the canary before its run starts.  Runs proceed         *)
(* concurrently with later passes.  The process may crash at every step and *)
(* comes back with what is on disk; other processes share only the          *)
(* coverage file.                                                           *)
(***************************************************************************)
EXTENDS ScheduleCoverage

CONSTANTS
  Scheduler,          \* the process that runs the canaries
  N,                  \* canaries 1 .. N, in the order of the configuration
  SlotLength,         \* IntervalMinutes of each canary
  Jitter(_, _),       \* deterministicJitter of a canary and a slot
  GlobalConcurrency,  \* probes at a time
  MaxCrashes          \* bound on crashes

Canaries == 1 .. N

ASSUME CanaryConfiguration ==
  /\ Scheduler \in Processes
  /\ N \in Nat \ {0} /\ GlobalConcurrency \in Nat \ {0}
  /\ SlotLength \in [Canaries -> Nat \ {0}]
  /\ \A c \in Canaries : \A k \in 0 .. (MaxTime \div SlotLength[c]) + 1 :
       Jitter(c, k) \in 0 .. SlotLength[c] - 1
  /\ MaxCrashes \in Nat

VARIABLES
  nextDue,   \* the slot records in memory
  saved,     \* the slot records in the state file
  pass,      \* the pass under way: its time and the canary it is at
  run,       \* the run under way for each canary
  permits,   \* canaries whose run holds a permit of the semaphore
  progress,  \* what Readiness reports of each canary
  loop,      \* how the last pass ended
  launches,  \* history: the last slot of each canary that was run, and how often
  gatus,     \* what Gatus last accepted for each canary
  crashes    \* crashes so far

canaryVars == <<nextDue, saved, pass, run, permits, progress, loop, launches, gatus, crashes>>

vars == <<deployed, now, file, handle, call, lastInterval, claim, done, unsure, faults,
          nextDue, saved, pass, run, permits, progress, loop, launches, gatus, crashes>>

NoRecord == -1

NoPass == [at |-> -1, cursor |-> 0]

NoRun == [phase |-> "none"]

Init ==
  /\ CoverageInit
  /\ nextDue = [c \in Canaries |-> NoRecord]
  /\ saved = [c \in Canaries |-> NoRecord]
  /\ pass = NoPass
  /\ run = [c \in Canaries |-> NoRun]
  /\ permits = {}
  /\ progress = [c \in Canaries |-> "startup"]
  /\ loop = "none"
  /\ launches = [c \in Canaries |-> [slot |-> -1, times |-> 0]]
  /\ gatus = [c \in Canaries |-> "none"]
  /\ crashes = 0

-----------------------------------------------------------------------------
(* Slots *)

slotAt(c, at) == at \div SlotLength[c]

dueForSlot(c, slot) == slot * SlotLength[c] + Jitter(c, slot)

nextDueAfter(c, at) ==
  IF dueForSlot(c, slotAt(c, at)) > at
  THEN dueForSlot(c, slotAt(c, at))
  ELSE dueForSlot(c, slotAt(c, at) + 1)

-----------------------------------------------------------------------------
(* ProcessDue *)

\* The coverage lifecycle comes first, once per interval.
BeginPass ==
  /\ Scheduler \in deployed
  /\ pass = NoPass
  /\ pass' = [at |-> now, cursor |-> 1]
  /\ IF intervalOf(now) = lastInterval[Scheduler]
     THEN UNCHANGED <<deployed, now, file, handle, call, lastInterval, claim, done, unsure, faults>>
     ELSE ProcessDue(Scheduler)
  /\ UNCHANGED <<nextDue, saved, run, permits, progress, loop, launches, gatus, crashes>>

atCanary(c) == call[Scheduler].step = "done" /\ pass.cursor = c

endPass(result) == pass' = NoPass /\ loop' = result

\* On to the next canary, or to the end of the pass.
advance(c) ==
  IF c = N
  THEN endPass("complete")
  ELSE pass' = [pass EXCEPT !.cursor = c + 1] /\ UNCHANGED loop

CoverageFailed ==
  /\ pass # NoPass
  /\ call[Scheduler].step = "failed"
  /\ endPass("failed")
  /\ UNCHANGED <<deployed, now, file, handle, call, lastInterval, claim, done, unsure, faults,
                 nextDue, saved, run, permits, progress, launches, gatus, crashes>>

reschedule(c) == nextDue' = [nextDue EXCEPT ![c] = nextDueAfter(c, pass.at)]

\* saveLocked writes the records of all canaries; a failure ends the pass with
\* the new record in memory only.
saveLocked(ok) ==
  IF ok
  THEN saved' = nextDue' /\ UNCHANGED faults
  ELSE faults < MaxFaults /\ faults' = faults + 1 /\ UNCHANGED saved

due(c) == nextDue[c] # NoRecord /\ nextDue[c] <= pass.at /\ run[c] = NoRun

missed(c) == slotAt(c, nextDue[c]) # slotAt(c, pass.at)

launch(c) ==
  LET slot == slotAt(c, nextDue[c])
  IN  launches' = [launches EXCEPT ![c] =
        [slot |-> slot, times |-> IF @.slot = slot THEN @.times + 1 ELSE 1]]

NotDue(c) ==
  /\ atCanary(c)
  /\ nextDue[c] # NoRecord
  /\ ~due(c)
  /\ advance(c)
  /\ UNCHANGED <<deployed, now, file, handle, call, lastInterval, claim, done, unsure, faults,
                 nextDue, saved, run, permits, progress, launches, gatus, crashes>>

\* The first sight of a canary, and a slot that was missed: skip, never catch up.
Reschedule(c) ==
  /\ atCanary(c)
  /\ nextDue[c] = NoRecord \/ (due(c) /\ missed(c))
  /\ reschedule(c)
  /\ \E ok \in BOOLEAN :
       saveLocked(ok) /\ IF ok THEN advance(c) ELSE endPass("failed")
  /\ UNCHANGED <<deployed, now, file, handle, call, lastInterval, claim, done, unsure,
                 run, permits, progress, launches, gatus, crashes>>

NoCapacity(c) ==
  /\ atCanary(c)
  /\ due(c) /\ ~missed(c)
  /\ Cardinality(permits) >= GlobalConcurrency
  /\ advance(c)
  /\ UNCHANGED <<deployed, now, file, handle, call, lastInterval, claim, done, unsure, faults,
                 nextDue, saved, run, permits, progress, launches, gatus, crashes>>

\* Mutant of ClaimSlot: the run starts before its claim is saved.
ClaimSlotUnsaved(c) ==
  /\ atCanary(c)
  /\ due(c) /\ ~missed(c)
  /\ Cardinality(permits) < GlobalConcurrency
  /\ reschedule(c)
  /\ run' = [run EXCEPT ![c] = [phase |-> "staging"]]
  /\ permits' = permits \cup {c}
  /\ launch(c)
  /\ advance(c)
  /\ UNCHANGED <<deployed, now, file, handle, call, lastInterval, claim, done, unsure, faults,
                 saved, progress, gatus, crashes>>

ClaimSlot(c) ==
  /\ atCanary(c)
  /\ due(c) /\ ~missed(c)
  /\ Cardinality(permits) < GlobalConcurrency
  /\ reschedule(c)
  /\ \/ /\ saveLocked(TRUE)
        /\ run' = [run EXCEPT ![c] = [phase |-> "staging"]]
        /\ permits' = permits \cup {c}
        /\ launch(c)
        /\ advance(c)
     \/ /\ saveLocked(FALSE)
        /\ endPass("failed")
        /\ UNCHANGED <<run, permits, launches>>
  /\ UNCHANGED <<deployed, now, file, handle, call, lastInterval, claim, done, unsure, progress, gatus, crashes>>

-----------------------------------------------------------------------------
(* One run of a canary *)

phase(c, next) == run' = [run EXCEPT ![c].phase = next]

\* recordProgress; "accepted" leaves the reported state alone.  Of the reasons
\* of a degraded canary only the missing receipt is told apart.
recordProgress(c, state) == progress' = [progress EXCEPT ![c] = state]

UnchangedInRun == UNCHANGED <<deployed, now, file, handle, call, lastInterval, claim, done, unsure,
                              nextDue, saved, pass, loop, launches, crashes>>

Stage(c) ==
  /\ run[c].phase = "staging"
  /\ run' = [run EXCEPT ![c] = [phase |-> "probing"]]
  /\ UnchangedInRun
  /\ UNCHANGED <<faults, permits, progress, gatus>>

StagingFails(c) ==
  /\ run[c].phase = "staging"
  /\ faults < MaxFaults /\ faults' = faults + 1
  /\ recordProgress(c, "failed")
  /\ phase(c, "ending")
  /\ UnchangedInRun
  /\ UNCHANGED <<permits, gatus>>

\* A receipt of the child: which canary its operation key is of, whether it
\* carries the pinned catalog, Registry and policy identities, and whether it
\* was observed during this run.
Receipts == [canary : Canaries, pinned : BOOLEAN, fresh : BOOLEAN]

\* Mutant of AdmitScheduledReceipt: a receipt of any configured canary will do.
AdmitScheduledReceiptOfAnyCanary(c, receipt) == receipt.pinned /\ receipt.fresh

AdmitScheduledReceipt(c, receipt) ==
  /\ receipt.canary = c
  /\ receipt.pinned
  /\ receipt.fresh

admitted(c, canary, outcome) ==
  /\ run' = [run EXCEPT ![c] = [phase |-> "delivering", canary |-> canary, outcome |-> outcome]]
  /\ UNCHANGED progress

ProbeReports(c, receipt) ==
  /\ run[c].phase = "probing"
  /\ IF AdmitScheduledReceipt(c, receipt)
     THEN admitted(c, receipt.canary, "observed")
     ELSE recordProgress(c, "failed") /\ phase(c, "ending")
  /\ UnchangedInRun
  /\ UNCHANGED <<faults, permits, gatus>>

receiptlessOutcome == "indeterminate"

ProbeLeavesNoReceipt(c) ==
  /\ run[c].phase = "probing"
  /\ \/ admitted(c, c, receiptlessOutcome) /\ UNCHANGED faults
     \/ /\ faults < MaxFaults /\ faults' = faults + 1
        /\ recordProgress(c, "failed")
        /\ phase(c, "ending")
  /\ UnchangedInRun
  /\ UNCHANGED <<permits, gatus>>

\* Gatus accepts the summary of the receipt under the canary it names.
push(c) == gatus' = [gatus EXCEPT ![run[c].canary] = run[c].outcome]

\* health-runner admits the receipt again, archives it, pushes its summary and
\* journals the acceptance.  It succeeds only at the end of all of that; when
\* it fails, or is killed at its deadline, Gatus may have the summary.
Deliver(c) ==
  /\ run[c].phase = "delivering"
  /\ \/ /\ push(c)
        /\ recordProgress(c, "ready")
        /\ phase(c, IF run[c].outcome = receiptlessOutcome THEN "receiptless" ELSE "ending")
     \/ /\ push(c) \/ UNCHANGED gatus
        /\ recordProgress(c, "failed")
        /\ phase(c, "ending")
  /\ UnchangedInRun
  /\ UNCHANGED <<faults, permits>>

ReportMissingReceipt(c) ==
  /\ run[c].phase = "receiptless"
  /\ recordProgress(c, "cli_receipt_missing")
  /\ phase(c, "ending")
  /\ UnchangedInRun
  /\ UNCHANGED <<faults, permits, gatus>>

\* The goroutine returns its permit and, in a later step, clears the active mark.
ReturnPermit(c) ==
  /\ run[c].phase = "ending"
  /\ c \in permits
  /\ permits' = permits \ {c}
  /\ UnchangedInRun
  /\ UNCHANGED <<faults, run, progress, gatus>>

EndRun(c) ==
  /\ run[c].phase = "ending"
  /\ c \notin permits
  /\ run' = [run EXCEPT ![c] = NoRun]
  /\ UnchangedInRun
  /\ UNCHANGED <<faults, permits, progress, gatus>>

-----------------------------------------------------------------------------
(* Readiness *)

\* What is left of Readiness when the deliveries are within their heartbeats
\* and the last pass is recent: the ages only take readiness away.
Ready == (\A c \in Canaries : progress[c] = "ready") /\ loop = "complete"

-----------------------------------------------------------------------------

\* NewSchedulerWithCoverage: the state file is all that outlives the process.
Crash ==
  /\ Scheduler \in deployed
  /\ crashes < MaxCrashes
  /\ crashes' = crashes + 1
  /\ call' = [call EXCEPT ![Scheduler] = Idle]
  /\ lastInterval' = [lastInterval EXCEPT ![Scheduler] = -1]
  /\ handle' = [handle EXCEPT ![Scheduler] = NoPlan]
  /\ nextDue' = saved
  /\ pass' = NoPass
  /\ run' = [c \in Canaries |-> NoRun]
  /\ permits' = {}
  /\ progress' = [c \in Canaries |-> "startup"]
  /\ loop' = "none"
  /\ UNCHANGED <<deployed, now, file, claim, done, unsure, faults, saved, launches, gatus>>

Tick ==
  /\ now < MaxTime
  /\ now' = now + 1
  /\ UNCHANGED <<deployed, file, handle, call, lastInterval, claim, done, unsure, faults>>
  /\ UNCHANGED canaryVars

CoverageStep ==
  /\ \/ \E p \in Processes \ {Scheduler} : ProcessDue(p)
     \/ \E p \in Processes : LifecycleStep(p)
     \/ \E w \in Workers : WorkerStep(w)
  /\ UNCHANGED canaryVars

PassStep(c) == NotDue(c) \/ Reschedule(c) \/ NoCapacity(c) \/ ClaimSlot(c)

RunStep(c) ==
  \/ Stage(c) \/ StagingFails(c) \/ ProbeLeavesNoReceipt(c)
  \/ \E receipt \in Receipts : ProbeReports(c, receipt)
  \/ Deliver(c) \/ ReportMissingReceipt(c) \/ ReturnPermit(c) \/ EndRun(c)

Next ==
  \/ CoverageStep
  \/ BeginPass
  \/ CoverageFailed
  \/ \E c \in Canaries : PassStep(c) \/ RunStep(c)
  \/ Crash
  \/ Tick

Spec == Init /\ [][Next]_vars

-----------------------------------------------------------------------------
(* Properties *)

\* A slot is claimed on disk before it runs: whatever crashes, failing saves
\* and full semaphores intervene, no slot of a canary is run twice
\* (claimAndStart, ProcessDue).
SlotRunOnce == \A c \in Canaries : launches[c].times <= 1

\* What the scheduler reports of its canaries is true of Gatus: when it is
\* ready, Gatus has a status of every canary; a canary that is ready and at
\* rest shows what its own child observed, and one whose child left no receipt
\* no longer shows an older status (Readiness, recordProgress, run).
ProgressTruthful ==
  /\ Ready => \A c \in Canaries : gatus[c] # "none"
  /\ \A c \in Canaries : run[c] = NoRun =>
       /\ progress[c] = "ready" => gatus[c] = "observed"
       /\ progress[c] = "cli_receipt_missing" => gatus[c] = "indeterminate"
=============================================================================
