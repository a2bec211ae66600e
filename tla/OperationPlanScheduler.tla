------------------------ MODULE OperationPlanScheduler ------------------------
(***************************************************************************)
(* The scheduler of operation plans (operation_plan_scheduler.go).          *)
(*                                                                          *)
(* Once a second a pass scans the admitted operations for results that are  *)
(* owed to Gatus, then for operations that are due, then reads a slice of   *)
(* their evidence.  The two scans launch tasks on MaxConcurrent shared      *)
(* slots, at most one task per operation; the tasks end between any two     *)
(* steps of a pass.  A delivery that finds no slot reserves one.  Failures   *)
(* of tasks and scans latch an error; readiness comes back when a complete  *)
(* sweep that began after the last error finds every operation proven.      *)
(*                                                                          *)
(* Time is abstract: what the code learns by comparing instants (due, proof *)
(* expired, proof newer than the failure) are facts here that steps of the  *)
(* environment change.                                                      *)
(***************************************************************************)
EXTENDS Integers, FiniteSets, FiniteSetsExt

CONSTANTS
  N,                \* admitted operations, in sorted order 0 .. N-1
  MaxConcurrent,    \* slots
  MaxStarts,        \* executions launched per pass
  MaxDeliveries,    \* deliveries launched per pass
  ScanBudget,       \* candidates per scan of a pass
  SweepBudget,      \* operations per pass of the evidence sweep
  ObservationOnly,  \* operations whose 2xx result is not sent to Gatus
  MaxPending,       \* outbox entries at which the ledger refuses attempts
  MaxFaults         \* bound on faults other than those of Gatus

ASSUME Configuration ==
  /\ N \in Nat \ {0}
  /\ MaxConcurrent \in Nat \ {0}
  /\ MaxStarts \in 1 .. MaxConcurrent
  /\ MaxDeliveries \in 1 .. MaxConcurrent
  /\ ScanBudget \in Nat \ {0}
  /\ SweepBudget \in Nat \ {0}
  /\ ObservationOnly \subseteq 0 .. N - 1
  /\ MaxPending \in Nat \ {0}
  /\ MaxFaults \in Nat

VARIABLES
  ledger,       \* what the attempt ledger holds of each operation
  due,          \* operations whose observation period has elapsed
  rested,       \* operations that saw a pass begin since their last claim
  active,       \* the task that runs for each operation
  reservation,  \* the operation a slot is reserved for, or -1
  cursors,      \* where the next delivery and execution scans begin
  pass,         \* the pass under way
  sweep,        \* the evidence sweep, across passes
  needsProof,   \* operations with a latched failure that demands a newer proof
  status,       \* what Status reports: "error" while an error is latched, else
                \* "ready" or "incomplete" by the last complete sweep
  readSince,    \* history: operations read since the last error
  owed,         \* history: operations that owe a proof newer than a failure
  faults        \* faults injected so far, those of Gatus not counted

vars == <<ledger, due, rested, active, reservation, cursors, pass, sweep, needsProof,
          status, readSince, owed, faults>>

Targets == 0 .. N - 1

NoPass == [stage |-> "idle", start |-> 0, scanned |-> 0, started |-> 0]

\* What a sweep has read of the operations, "none" for those without an
\* unexpired proof, and whether no error was latched since it began.
NoSweep == [cursor |-> 0, staged |-> [t \in Targets |-> "none"], clean |-> FALSE]

Init ==
  /\ ledger = [t \in Targets |-> [claimed |-> FALSE, observed |-> FALSE, outbox |-> 0,
                                  verified |-> FALSE, valid |-> FALSE, stale |-> FALSE]]
  /\ due = Targets
  /\ rested = Targets
  /\ active = [t \in Targets |-> "none"]
  /\ reservation = -1
  /\ cursors = [delivery |-> 0, execution |-> 0]
  /\ pass = NoPass
  /\ sweep = NoSweep
  /\ needsProof = {}
  /\ status = "incomplete"
  /\ readSince = {}
  /\ owed = {}
  /\ faults = 0

activeCount == Cardinality({t \in Targets : active[t] # "none"})

taskVars == <<ledger, due, rested, owed>>

Fault == faults < MaxFaults /\ faults' = faults + 1

-----------------------------------------------------------------------------
(* Latched errors.  Every latch starts a new epoch, so that the sweep under *)
(* way is no longer clean.                                                  *)

\* latchErrorLocked: the error is reported until a sweep that begins after it
\* recovers.
latchError == status' = "error" /\ readSince' = {}

\* latchIdentityErrorLocked: the failure of operation t, which may demand a
\* proof newer than itself.  A demand outlives later failures without one, and
\* then the proof has to be newer than those.
latches(t, requiresNewProof) ==
  /\ needsProof' = IF requiresNewProof THEN needsProof \cup {t} ELSE needsProof
  /\ latchError
  /\ owed' = IF requiresNewProof THEN owed \cup {t} ELSE owed

\* The proof in the ledger is older than a failure that is latched now.
outdated(l, t) == [l EXCEPT ![t].stale = t \in needsProof']

\* So is the one the sweep has read, and the epoch has changed under the sweep.
overtaken(s, t) ==
  [s EXCEPT !.clean = FALSE,
            !.staged[t] = IF @ = "new" /\ t \in needsProof' THEN "stale" ELSE @]

-----------------------------------------------------------------------------
(* Slots.                                                                   *)

\* Mutant of reserves: a delivery without a slot reserves none.
reservesNothing(t) == reservation

\* reserveDeliveryLocked: the first delivery refused gets the next slot.
reserves(t) == IF reservation < 0 THEN t ELSE reservation

busy(t) == activeCount >= MaxConcurrent \/ active[t] # "none"

\* The last free slot belongs to the reserved delivery.
mayLaunch(t, kind) ==
  /\ ~busy(t)
  /\ \/ reservation < 0
     \/ kind = "delivery" /\ t = reservation
     \/ activeCount < MaxConcurrent - 1

\* launch: a task of the given kind for operation t, or a refusal.
launch(t, kind) ==
  IF mayLaunch(t, kind)
  THEN /\ active' = [active EXCEPT ![t] = kind]
       /\ reservation' = IF kind = "delivery" /\ t = reservation THEN -1 ELSE reservation
  ELSE /\ reservation' = IF kind = "delivery" /\ busy(t) THEN reserves(t) ELSE reservation
       /\ UNCHANGED active

-----------------------------------------------------------------------------
(* The pass.                                                                *)

\* recordPassIfDue and deliveryScanStart: the reserved delivery comes first.
BeginPass ==
  /\ pass.stage = "idle"
  /\ pass' = [NoPass EXCEPT !.stage = "delivery",
                            !.start = IF reservation >= 0 THEN reservation ELSE cursors.delivery]
  /\ rested' = rested \cup {t \in Targets : active[t] = "none"}
  /\ UNCHANGED <<ledger, due, active, reservation, cursors, sweep, needsProof, status,
                 readSince, owed, faults>>

candidate == (pass.start + pass.scanned) % N

\* The candidate is dealt with; a task was launched for it if active changed.
scannedPass == [pass EXCEPT !.scanned = @ + 1, !.started = IF active' = active THEN @ ELSE @ + 1]

more(p, limit) == p.scanned < Min({ScanBudget, N}) /\ p.started < limit

\* finishDeliveryScan when the scan is over; only passes move the cursors.
advanceDelivery ==
  IF more(scannedPass, MaxDeliveries)
  THEN pass' = scannedPass /\ UNCHANGED cursors
  ELSE /\ cursors' = [cursors EXCEPT !.delivery =
                        IF reservation' >= 0 THEN reservation' ELSE (candidate + 1) % N]
       /\ pass' = [NoPass EXCEPT !.stage = "execution", !.start = cursors.execution]

advanceExecution ==
  IF more(scannedPass, MaxStarts)
  THEN pass' = scannedPass /\ UNCHANGED cursors
  ELSE /\ cursors' = [cursors EXCEPT !.execution = (candidate + 1) % N]
       /\ pass' = [NoPass EXCEPT !.stage = "evidence"]

\* Mutant of ScanDelivery: the reservation of a result that was delivered in
\* the meantime stays.
ScanDeliveryKeepsReservation ==
  /\ pass.stage = "delivery"
  /\ \/ /\ ledger[candidate].outbox = 0
        /\ UNCHANGED <<active, reservation>>
     \/ /\ ledger[candidate].outbox > 0
        /\ launch(candidate, "delivery")
  /\ advanceDelivery
  /\ UNCHANGED <<taskVars, sweep, needsProof, status, readSince, faults>>

\* One candidate of the delivery scan.
ScanDelivery ==
  /\ pass.stage = "delivery"
  /\ \/ /\ ledger[candidate].outbox = 0
        /\ reservation' = IF reservation = candidate THEN -1 ELSE reservation
        /\ UNCHANGED active
     \/ /\ ledger[candidate].outbox > 0
        /\ launch(candidate, "delivery")
  /\ advanceDelivery
  /\ UNCHANGED <<taskVars, sweep, needsProof, status, readSince, faults>>

\* One candidate of the execution scan: due, and not under a live claim.
ScanExecution ==
  /\ pass.stage = "execution"
  /\ \/ /\ candidate \notin due \/ ledger[candidate].claimed
        /\ UNCHANGED <<active, reservation>>
     \/ /\ candidate \in due /\ ~ledger[candidate].claimed
        /\ launch(candidate, "execution")
  /\ advanceExecution
  /\ UNCHANGED <<taskVars, sweep, needsProof, status, readSince, faults>>

\* A failed read of one operation does not stop the scan.
ScanUnreadable ==
  /\ Fault
  /\ UNCHANGED <<active, reservation>>
  /\ \/ pass.stage = "delivery" /\ advanceDelivery
     \/ pass.stage = "execution" /\ advanceExecution
  /\ latches(candidate, FALSE)
  /\ sweep' = overtaken(sweep, candidate)
  /\ ledger' = outdated(ledger, candidate)
  /\ UNCHANGED <<due, rested>>

\* The scan timeout, or a cancelled parent, ends the pass where it is.
AbortPass ==
  /\ pass.stage # "idle"
  /\ Fault
  /\ pass' = NoPass
  /\ sweep' = IF pass.stage = "evidence" THEN NoSweep ELSE [sweep EXCEPT !.clean = FALSE]
  /\ latchError
  /\ UNCHANGED <<taskVars, active, reservation, cursors, needsProof>>

-----------------------------------------------------------------------------
(* The evidence sweep.                                                      *)

\* operationEvidenceForTarget: the newest observation, when its delivery is
\* settled and no attempt has ended without one since.  A live claim hides
\* what happened between the observation and the claim.
operationEvidence(t) ==
  LET l == ledger[t]
      proven == (l.claimed \/ l.observed) /\ l.verified /\ l.valid
  IN  CASE ~proven -> "none"
        [] proven /\ l.stale -> "stale"
        [] OTHER -> "new"

sliceLeft == sweep.cursor < N /\ pass.scanned < SweepBudget

\* One operation of the slice.  A sweep that starts remembers the epoch.
ReadEvidence ==
  /\ pass.stage = "evidence" /\ sliceLeft
  /\ LET begun == IF sweep.cursor = 0 THEN [NoSweep EXCEPT !.clean = TRUE] ELSE sweep
     IN  sweep' = [begun EXCEPT !.cursor = @ + 1,
                                !.staged[sweep.cursor] = operationEvidence(sweep.cursor)]
  /\ readSince' = readSince \cup {sweep.cursor}
  /\ pass' = [pass EXCEPT !.scanned = @ + 1]
  /\ UNCHANGED <<taskVars, active, reservation, cursors, needsProof, status, faults>>

\* An unreadable ledger file or history record discards the sweep and ends
\* the pass.
EvidenceUnreadable ==
  /\ pass.stage = "evidence" /\ sliceLeft
  /\ Fault
  /\ latches(sweep.cursor, FALSE)
  /\ ledger' = outdated(ledger, sweep.cursor)
  /\ sweep' = NoSweep
  /\ pass' = NoPass
  /\ UNCHANGED <<due, rested, active, reservation, cursors>>

allCurrent == \A t \in Targets : sweep.staged[t] # "none"

\* Mutant of recovered: the epoch of the sweep is not compared.
recoveredAnyEpoch == \A t \in Targets : sweep.staged[t] = "new"

\* The errors a complete sweep may forget: none was latched since it began,
\* and no operation that failed shows only a proof from before the failure.
recovered == sweep.clean /\ \A t \in Targets : sweep.staged[t] = "new"

\* The end of the slice; a complete sweep is published.
EndEvidence ==
  /\ pass.stage = "evidence" /\ ~sliceLeft
  /\ pass' = NoPass
  /\ IF sweep.cursor < N
     THEN UNCHANGED <<sweep, needsProof, status>>
     ELSE /\ status' = IF recovered \/ (status # "error" /\ allCurrent) THEN "ready"
                       ELSE IF status = "error" THEN "error" ELSE "incomplete"
          /\ needsProof' = IF recovered THEN {} ELSE needsProof
          /\ sweep' = NoSweep
  /\ UNCHANGED <<taskVars, active, reservation, cursors, readSince, faults>>

\* Status: what /ready reports of a loop that is alive and feasible.
Ready == status = "ready"

-----------------------------------------------------------------------------
(* Tasks, which end between any two steps of the pass.                      *)

ends(t) == active' = [active EXCEPT ![t] = "none"]

passVars == <<rested, reservation, cursors, pass>>

\* ExecuteOne begins: the ledger grants the claim.
ClaimAttempt(t) ==
  /\ active[t] = "execution" /\ ~ledger[t].claimed /\ ledger[t].outbox < MaxPending
  /\ ledger' = [ledger EXCEPT ![t].claimed = TRUE]
  /\ due' = due \ {t}
  /\ rested' = rested \ {t}
  /\ UNCHANGED <<active, reservation, cursors, pass, sweep, needsProof, status, readSince,
                 owed, faults>>

\* BeginAttempt refuses: Gatus has not read back what fills the ledger.
CapacityRefused(t) ==
  /\ active[t] = "execution" /\ ~ledger[t].claimed /\ ledger[t].outbox >= MaxPending
  /\ ends(t)
  /\ latches(t, TRUE)
  /\ sweep' = overtaken(sweep, t)
  /\ ledger' = outdated(ledger, t)
  /\ UNCHANGED <<due, passVars, faults>>

\* What the ledger holds once the attempt is observed.  A result that Gatus is
\* not told of is its own proof, dated when it was received.
observed(l, deliverable) ==
  [l EXCEPT !.claimed = FALSE, !.observed = TRUE, !.valid = TRUE,
            !.outbox = IF deliverable THEN l.outbox + 1 ELSE l.outbox,
            !.verified = ~deliverable,
            !.stale = deliverable /\ l.stale]

\* The attempt is observed; a 2xx result of some operations is not sent.
Observed(t) ==
  /\ active[t] = "execution" /\ ledger[t].claimed
  /\ ends(t)
  /\ \E deliverable \in {TRUE} \cup {t \notin ObservationOnly} :
       /\ ledger' = [ledger EXCEPT ![t] = observed(@, deliverable)]
       /\ owed' = IF deliverable THEN owed ELSE owed \ {t}
  /\ UNCHANGED <<due, passVars, sweep, needsProof, status, readSince, faults>>

unobserved(l) == [l EXCEPT !.claimed = FALSE, !.observed = FALSE]

\* The attempt failed or is unknown, or its outcome is stored and a later
\* step of ExecuteOne failed.
ExecutionFails(t) ==
  /\ active[t] = "execution" /\ ledger[t].claimed
  /\ Fault
  /\ ends(t)
  /\ latches(t, TRUE)
  /\ ledger' = outdated([ledger EXCEPT ![t] = unobserved(@)], t)
  /\ sweep' = overtaken(sweep, t)
  /\ UNCHANGED <<due, passVars>>

\* The attempt is deferred before dispatch: no error, and no proof either.
Deferred(t) ==
  /\ active[t] = "execution" /\ ledger[t].claimed
  /\ Fault
  /\ ends(t)
  /\ ledger' = [ledger EXCEPT ![t] = unobserved(@)]
  /\ UNCHANGED <<due, passVars, sweep, needsProof, status, readSince, owed>>

\* What the ledger holds once the oldest owed result is read back: when it
\* is the newest observation, its proof is dated now.
delivered(l) ==
  [l EXCEPT !.outbox = @ - 1,
            !.stale = @ /\ (l.verified \/ l.outbox # 1),
            !.verified = @ \/ l.outbox = 1]

settled(t) == ~ledger[t].verified /\ ledger[t].outbox = 1

\* DeliverOne: pushed, acknowledged and read back.
Delivered(t) ==
  /\ active[t] = "delivery"
  /\ ends(t)
  /\ ledger' = [ledger EXCEPT ![t] = delivered(@)]
  /\ owed' = IF settled(t) THEN owed \ {t} ELSE owed
  /\ UNCHANGED <<due, passVars, sweep, needsProof, status, readSince, faults>>

\* DeliverOne fails; the outbox keeps the result.
DeliveryFails(t) ==
  /\ active[t] = "delivery"
  /\ ends(t)
  /\ latches(t, TRUE)
  /\ sweep' = overtaken(sweep, t)
  /\ ledger' = outdated(ledger, t)
  /\ UNCHANGED <<due, passVars, faults>>

\* finishDelivery cannot read the ledger: the result may be delivered.
DeliveryUnknown(t) ==
  /\ active[t] = "delivery"
  /\ Fault
  /\ ends(t)
  /\ latches(t, FALSE)
  /\ sweep' = overtaken(sweep, t)
  /\ \E l \in {ledger[t], delivered(ledger[t])} :
       ledger' = outdated([ledger EXCEPT ![t] = l], t)
  /\ UNCHANGED <<due, passVars>>

-----------------------------------------------------------------------------
(* Time.                                                                    *)

\* An observation period is longer than the interval of two passes.
PeriodElapses(t) ==
  /\ t \notin due /\ t \in rested /\ pass.stage = "idle"
  /\ due' = due \cup {t}
  /\ UNCHANGED <<ledger, rested, active, reservation, cursors, pass, sweep, needsProof,
                 status, readSince, owed, faults>>

\* The newest observation of t, observed after its attempt started, is older
\* than the period.
Expire(t) ==
  /\ ledger[t].valid /\ (t \in due \/ ledger[t].claimed)
  /\ ledger' = [ledger EXCEPT ![t].valid = FALSE]
  /\ sweep' = [sweep EXCEPT !.staged[t] = "none"]
  /\ status' = IF status = "ready" THEN "incomplete" ELSE status
  /\ UNCHANGED <<due, rested, active, reservation, cursors, pass, needsProof, readSince, owed,
                 faults>>

PassStep == BeginPass \/ ScanDelivery \/ ScanExecution \/ ReadEvidence \/ EndEvidence

TaskEnds(t) == \/ ClaimAttempt(t) \/ CapacityRefused(t) \/ Observed(t) \/ ExecutionFails(t)
               \/ Deferred(t) \/ Delivered(t) \/ DeliveryFails(t) \/ DeliveryUnknown(t)

Next ==
  \/ PassStep \/ ScanUnreadable \/ EvidenceUnreadable \/ AbortPass
  \/ \E t \in Targets : TaskEnds(t) \/ PeriodElapses(t) \/ Expire(t)

Spec == Init /\ [][Next]_vars

\* The one-second loop keeps calling ProcessDue and every task has a timeout.
FairSpec == Spec /\ WF_vars(PassStep) /\ \A t \in Targets : WF_vars(TaskEnds(t))

-----------------------------------------------------------------------------
(* Properties.                                                              *)

\* Readiness (Status) is never reported on the strength of a sweep that an
\* error overtook: every admitted operation was read after the last error of
\* any kind, and each one that failed an execution or a delivery has since
\* been observed and, where Gatus is told, read back.
ReadyIsEarned == Ready => readSince = Targets /\ owed = {}

\* A result that is owed gets a delivery task in the end: executions compete
\* for the same slots, and Gatus may refuse every push for ever (launch,
\* reserveDeliveryLocked).
DeliveryNotStarved ==
  \A t \in Targets : (ledger[t].outbox > 0) ~> (active[t] = "delivery")

\* From some time on no push or readback fails.
GatusRecovers == <>[][\A t \in Targets : ~DeliveryFails(t)]_vars

\* An operation that is due gets an execution task in the end, once Gatus has
\* recovered.  While it is out, a delivery that is seen again before it has
\* failed reserves the next slot (launch), and the only slot is never free for
\* an execution.
ExecutionNotStarved ==
  GatusRecovers => \A t \in Targets : (t \in due) ~> (active[t] = "execution")
=============================================================================
