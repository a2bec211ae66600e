------------------------ MODULE CanarySchedulerProofs ------------------------
(***************************************************************************)
(* Proofs about the canary scheduler and the coverage authority it shares   *)
(* with other processes: leases are honoured, every completion is counted,  *)
(* slots run once and what readiness reports is true of Gatus.  There are   *)
(* three independent inductive invariants, of claims and the state file, of *)
(* slots and their records, of runs and their reports; the fourth, of       *)
(* completions, rests on the first.                                         *)
(***************************************************************************)
EXTENDS CanaryScheduler, FiniteSetTheorems, WellFoundedInduction, TLAPS

Plans == {[start |-> i, shards |-> ShardCount[p]] : i \in Nat, p \in Processes}

Entries ==
  [state : {"queued", "claimed", "completed"}, attempted : BOOLEAN, generation : Nat,
   lease : Nat, completedAt : Nat]

-----------------------------------------------------------------------------
(* Claims.                                                                  *)

\* A state file, and a claim, by their fields.
FileOK(f) ==
  /\ f = [plan |-> f.plan, entries |-> f.entries, latest |-> f.latest, previous |-> f.previous]
  /\ f.plan \in Plans
  /\ f.entries \in [Subjects -> Entries]

ClaimOK(k) ==
  /\ k.subject \in Subjects /\ k.start \in Nat /\ k.generation \in Nat /\ k.lease \in Nat

CoverageTyped ==
  /\ now \in 0 .. MaxTime
  /\ file # NoFile => FileOK(file)
  /\ DOMAIN claim = Workers
  /\ \A w \in Workers : claim[w] # NoClaim => ClaimOK(claim[w])
  /\ call \in [Processes -> [step : {"idle", "open", "load", "rebalance", "record", "done", "failed"},
                             at : Nat]]
  /\ \A p \in Processes : call[p].at <= now

\* The claim that worker w holds was granted by the file as it is or as it was:
\* under an earlier plan, or by a generation its entry still has or has passed.
GrantedAt(w) ==
  claim[w] # NoClaim =>
    /\ file # NoFile
    /\ claim[w].start <= file.plan.start
    /\ claim[w].start = file.plan.start =>
         claim[w].generation <= file.entries[claim[w].subject].generation
    /\ now < claim[w].lease => currentClaim(claim[w])

\* No two workers were granted the same generation of a subject.
GrantsDiffer ==
  \A v, w \in Workers :
    claim[v] # NoClaim /\ claim[w] # NoClaim /\ claim[v].subject = claim[w].subject
      /\ claim[v].start = claim[w].start /\ claim[v].generation = claim[w].generation => v = w

LeaseInv == CoverageTyped /\ (\A w \in Workers : GrantedAt(w)) /\ GrantsDiffer

-----------------------------------------------------------------------------
(* Slots.                                                                   *)

\* The last slot that a pass can schedule.
LastSlot(c) == (MaxTime \div SlotLength[c]) + 1

\* A record is the due time of a slot after every slot of the canary that ran.
RecordOK(c, record) ==
  \/ record = NoRecord /\ launches[c].slot = -1
  \/ \E slot \in Nat : /\ record = dueForSlot(c, slot) /\ slot <= LastSlot(c)
                       /\ slot > launches[c].slot

SlotInv ==
  /\ now \in 0 .. MaxTime
  /\ pass \in [at : Int, cursor : Nat] /\ (pass # NoPass => pass.at \in 0 .. now)
  /\ nextDue \in [Canaries -> Int] /\ saved \in [Canaries -> Int]
  /\ launches \in [Canaries -> [slot : Int, times : {0, 1}]]
  /\ \A c \in Canaries : RecordOK(c, nextDue[c]) /\ RecordOK(c, saved[c])

-----------------------------------------------------------------------------
(* Runs.                                                                    *)

Outcomes == {"observed", "indeterminate"}

Runs ==
  {NoRun} \cup [phase : {"staging", "probing", "ending"}]
  \cup [phase : {"delivering", "receiptless", "ending"}, canary : Canaries, outcome : Outcomes]

\* What is reported of a canary is true of Gatus but for the moment between the
\* delivery of a missing receipt's summary and the report of that.
ReportOK(c) ==
  /\ run[c].phase \in {"delivering", "receiptless"} => run[c].canary = c
  /\ progress[c] = "ready" /\ run[c].phase # "receiptless" => gatus[c] = "observed"
  /\ run[c].phase = "receiptless" \/ progress[c] = "cli_receipt_missing" => gatus[c] = "indeterminate"

ReportInv ==
  /\ run \in [Canaries -> Runs]
  /\ progress \in [Canaries -> {"startup", "ready", "failed", "cli_receipt_missing"}]
  /\ gatus \in [Canaries -> {"none"} \cup Outcomes]
  /\ \A c \in Canaries : ReportOK(c)

-----------------------------------------------------------------------------
(* Readiness tells the truth.                                               *)

\* A step of the run of canary c, to run r: only c's report and Gatus row
\* change.
LEMMA RunStepKeeps ==
  ASSUME ReportInv, NEW c \in Canaries, NEW r \in Runs, run' = [run EXCEPT ![c] = r],
         NEW p \in {"startup", "ready", "failed", "cli_receipt_missing"},
         progress' = [progress EXCEPT ![c] = p],
         NEW g \in {"none"} \cup Outcomes, gatus' = [gatus EXCEPT ![c] = g],
         r.phase \in {"delivering", "receiptless"} => r.canary = c,
         p = "ready" /\ r.phase # "receiptless" => g = "observed",
         r.phase = "receiptless" \/ p = "cli_receipt_missing" => g = "indeterminate"
  PROVE  ReportInv'
<1>1. /\ run \in [Canaries -> Runs]
      /\ progress \in [Canaries -> {"startup", "ready", "failed", "cli_receipt_missing"}]
      /\ gatus \in [Canaries -> {"none"} \cup Outcomes]
  BY DEF ReportInv
<1>2. run'[c] = r /\ progress'[c] = p /\ gatus'[c] = g
  BY <1>1
<1>3. \A d \in Canaries : d # c => run'[d] = run[d] /\ progress'[d] = progress[d] /\ gatus'[d] = gatus[d]
  BY <1>1
<1>4. /\ run' \in [Canaries -> Runs]
      /\ progress' \in [Canaries -> {"startup", "ready", "failed", "cli_receipt_missing"}]
      /\ gatus' \in [Canaries -> {"none"} \cup Outcomes]
  BY <1>1
<1>5. ReportOK(c)'
  BY <1>2 DEF ReportOK
<1>6. \A d \in Canaries : d # c => ReportOK(d)'
  BY <1>3 DEF ReportInv, ReportOK
<1> QED BY <1>4, <1>5, <1>6 DEF ReportInv

\* The run goes on and nothing is reported.
LEMMA QuietStepKeeps ==
  ASSUME ReportInv, NEW c \in Canaries, run[c].phase # "receiptless",
         NEW r \in Runs, run' = [run EXCEPT ![c] = r],
         r.phase = "delivering" => r.canary = c, r.phase # "receiptless",
         UNCHANGED <<progress, gatus>>
  PROVE  ReportInv'
<1>1. run \in [Canaries -> Runs] /\ run' \in [Canaries -> Runs]
  BY DEF ReportInv
<1>2. run'[c] = r /\ \A d \in Canaries : d # c => run'[d] = run[d]
  BY <1>1
<1>3. ReportOK(c)'
  BY <1>2 DEF ReportInv, ReportOK
<1>4. \A d \in Canaries : d # c => ReportOK(d)'
  BY <1>2 DEF ReportInv, ReportOK
<1> QED BY <1>1, <1>3, <1>4 DEF ReportInv

\* A run that ends keeps what the receipt said; nothing reads it any more.
LEMMA ToEnding ==
  ASSUME ReportInv, NEW c \in Canaries, run[c] # NoRun, phase(c, "ending")
  PROVE  \E r \in Runs : run' = [run EXCEPT ![c] = r] /\ r.phase = "ending"
<1>1. PICK x \in Runs : x = run[c] /\ x # NoRun
  BY DEF ReportInv
<1>2. PICK r : r = [x EXCEPT !.phase = "ending"]
  OBVIOUS
<1>3. run' = [run EXCEPT ![c] = r]
  BY <1>1, <1>2 DEF phase
<1>4. CASE x \in [phase : {"staging", "probing", "ending"}]
  <2>1. r \in [phase : {"staging", "probing", "ending"}] /\ r.phase = "ending"
    BY <1>2, <1>4
  <2> QED BY <1>3, <2>1 DEF Runs
<1>5. CASE x \in [phase : {"delivering", "receiptless", "ending"}, canary : Canaries, outcome : Outcomes]
  <2>1. /\ r \in [phase : {"delivering", "receiptless", "ending"}, canary : Canaries, outcome : Outcomes]
        /\ r.phase = "ending"
    BY <1>2, <1>5
  <2> QED BY <1>3, <2>1 DEF Runs
<1> QED BY <1>1, <1>4, <1>5 DEF Runs

LEMMA ToReceiptless ==
  ASSUME ReportInv, NEW c \in Canaries, run[c].phase = "delivering", phase(c, "receiptless")
  PROVE  \E r \in Runs : run' = [run EXCEPT ![c] = r] /\ r.phase = "receiptless" /\ r.canary = run[c].canary
<1>1. PICK x : x = run[c] /\ x \in Runs /\ x.phase = "delivering"
  BY DEF ReportInv
<1>2. PICK r : r = [x EXCEPT !.phase = "receiptless"]
  OBVIOUS
<1>3. run' = [run EXCEPT ![c] = r]
  BY <1>1, <1>2 DEF phase
<1>4. x \in [phase : {"delivering", "receiptless", "ending"}, canary : Canaries, outcome : Outcomes]
  BY <1>1 DEF Runs, NoRun
<1>5. /\ r \in [phase : {"delivering", "receiptless", "ending"}, canary : Canaries, outcome : Outcomes]
      /\ r.phase = "receiptless" /\ r.canary = x.canary
  BY <1>2, <1>4
<1> QED BY <1>1, <1>3, <1>5 DEF Runs

\* A run that fails.
LEMMA FailureKeeps ==
  ASSUME ReportInv, NEW c \in Canaries, run[c] # NoRun, phase(c, "ending"),
         recordProgress(c, "failed"),
         NEW g \in {"none"} \cup Outcomes, gatus' = [gatus EXCEPT ![c] = g]
  PROVE  ReportInv'
<1>1. PICK r \in Runs : run' = [run EXCEPT ![c] = r] /\ r.phase = "ending"
  BY ToEnding
<1>2. progress' = [progress EXCEPT ![c] = "failed"]
  BY DEF recordProgress
<1> QED BY <1>1, <1>2, RunStepKeeps

LEMMA DeliverKeeps == ASSUME ReportInv, NEW c \in Canaries, Deliver(c) PROVE ReportInv'
<1>1. run[c].phase = "delivering" /\ run[c] # NoRun /\ run[c].canary = c
  BY DEF Deliver, ReportInv, ReportOK, NoRun
<1>2. run[c].outcome \in Outcomes /\ gatus[c] \in {"none"} \cup Outcomes
  BY <1>1 DEF ReportInv, Runs, NoRun
<1>3. gatus' = [gatus EXCEPT ![c] = run[c].outcome] \/ gatus' = [gatus EXCEPT ![c] = gatus[c]]
  BY <1>1 DEF Deliver, push, ReportInv
<1>4. CASE recordProgress(c, "failed") /\ phase(c, "ending")
  BY <1>1, <1>2, <1>3, <1>4, FailureKeeps
<1>5. CASE /\ push(c) /\ recordProgress(c, "ready")
           /\ phase(c, IF run[c].outcome = receiptlessOutcome THEN "receiptless" ELSE "ending")
  <2>1. gatus' = [gatus EXCEPT ![c] = run[c].outcome] /\ progress' = [progress EXCEPT ![c] = "ready"]
    BY <1>1, <1>5 DEF push, recordProgress
  <2>2. CASE run[c].outcome = "indeterminate"
    <3>1. phase(c, "receiptless")
      BY <1>5, <2>2 DEF receiptlessOutcome
    <3>2. PICK r \in Runs : run' = [run EXCEPT ![c] = r] /\ r.phase = "receiptless" /\ r.canary = c
      BY <1>1, <3>1, ToReceiptless
    <3> QED BY <1>2, <2>1, <2>2, <3>2, RunStepKeeps
  <2>3. CASE run[c].outcome = "observed"
    <3>1. phase(c, "ending")
      BY <1>5, <2>3 DEF receiptlessOutcome
    <3>2. PICK r \in Runs : run' = [run EXCEPT ![c] = r] /\ r.phase = "ending"
      BY <1>1, <3>1, ToEnding
    <3> QED BY <1>2, <2>1, <2>3, <3>2, RunStepKeeps
  <2> QED BY <1>2, <2>2, <2>3 DEF Outcomes
<1> QED BY <1>4, <1>5 DEF Deliver

LEMMA RunKeepsReports == ASSUME ReportInv, NEW c \in Canaries, RunStep(c) PROVE ReportInv'
<1>1. /\ gatus[c] \in {"none"} \cup Outcomes
      /\ UNCHANGED gatus => gatus' = [gatus EXCEPT ![c] = gatus[c]]
  BY DEF ReportInv
<1>2. CASE Stage(c)
  <2>1. [phase |-> "probing"] \in Runs
    BY DEF Runs
  <2>2. /\ run[c].phase # "receiptless" /\ run' = [run EXCEPT ![c] = [phase |-> "probing"]]
        /\ UNCHANGED <<progress, gatus>>
    BY <1>2 DEF Stage
  <2> QED BY <2>1, <2>2, QuietStepKeeps
<1>3. CASE StagingFails(c)
  <2>1. /\ run[c] # NoRun /\ recordProgress(c, "failed") /\ phase(c, "ending") /\ UNCHANGED gatus
    BY <1>3 DEF StagingFails, NoRun
  <2> QED BY <1>1, <2>1, FailureKeeps
<1>4. ASSUME run[c].phase = "probing", NEW o \in Outcomes, admitted(c, c, o), UNCHANGED gatus
      PROVE  ReportInv'
  <2>1. PICK r : r = [phase |-> "delivering", canary |-> c, outcome |-> o]
    OBVIOUS
  <2>2. r \in Runs /\ r.phase = "delivering" /\ r.canary = c
    BY <2>1 DEF Runs
  <2>3. run' = [run EXCEPT ![c] = r] /\ UNCHANGED progress
    BY <1>4, <2>1 DEF admitted
  <2> QED BY <1>4, <2>2, <2>3, QuietStepKeeps
<1>5. ASSUME NEW receipt \in Receipts, ProbeReports(c, receipt) PROVE ReportInv'
  <2>1. run[c].phase = "probing" /\ run[c] # NoRun /\ UNCHANGED gatus
    BY <1>5 DEF ProbeReports, NoRun
  <2>2. CASE AdmitScheduledReceipt(c, receipt)
    <3>1. admitted(c, c, "observed")
      BY <1>5, <2>2 DEF ProbeReports, AdmitScheduledReceipt
    <3> QED BY <1>4, <2>1, <3>1 DEF Outcomes
  <2>3. CASE ~AdmitScheduledReceipt(c, receipt)
    <3>1. recordProgress(c, "failed") /\ phase(c, "ending")
      BY <1>5, <2>3 DEF ProbeReports
    <3> QED BY <1>1, <2>1, <3>1, FailureKeeps
  <2> QED BY <2>2, <2>3
<1>6. CASE ProbeLeavesNoReceipt(c)
  <2>1. run[c].phase = "probing" /\ run[c] # NoRun /\ UNCHANGED gatus
    BY <1>6 DEF ProbeLeavesNoReceipt, NoRun
  <2>2. admitted(c, c, "indeterminate") \/ (recordProgress(c, "failed") /\ phase(c, "ending"))
    BY <1>6 DEF ProbeLeavesNoReceipt, receiptlessOutcome
  <2> QED BY <1>1, <1>4, <2>1, <2>2, FailureKeeps DEF Outcomes
<1>7. CASE ReportMissingReceipt(c)
  <2>1. /\ run[c].phase = "receiptless" /\ run[c] # NoRun /\ phase(c, "ending") /\ UNCHANGED gatus
        /\ progress' = [progress EXCEPT ![c] = "cli_receipt_missing"]
    BY <1>7 DEF ReportMissingReceipt, NoRun, recordProgress
  <2>2. PICK r \in Runs : run' = [run EXCEPT ![c] = r] /\ r.phase = "ending"
    BY <2>1, ToEnding
  <2>3. gatus[c] = "indeterminate"
    BY <2>1 DEF ReportInv, ReportOK
  <2> QED BY <1>1, <2>1, <2>2, <2>3, RunStepKeeps
<1>8. CASE ReturnPermit(c)
  <2>1. UNCHANGED <<run, progress, gatus>>
    BY <1>8 DEF ReturnPermit
  <2> QED BY <2>1 DEF ReportInv, ReportOK
<1>9. CASE EndRun(c)
  <2>1. NoRun \in Runs /\ NoRun.phase = "none"
    BY DEF Runs, NoRun
  <2>2. run[c].phase # "receiptless" /\ run' = [run EXCEPT ![c] = NoRun] /\ UNCHANGED <<progress, gatus>>
    BY <1>9 DEF EndRun
  <2> QED BY <2>1, <2>2, QuietStepKeeps
<1> QED BY <1>2, <1>3, <1>5, <1>6, <1>7, <1>8, <1>9, DeliverKeeps DEF RunStep

LEMMA NextReports == ReportInv /\ [Next]_vars => ReportInv'
<1> SUFFICES ASSUME ReportInv, [Next]_vars PROVE ReportInv'
  OBVIOUS
<1>1. CASE UNCHANGED <<run, progress, gatus>>
  BY <1>1 DEF ReportInv, ReportOK
<1>2. CoverageStep \/ BeginPass \/ CoverageFailed \/ Tick \/ UNCHANGED vars => UNCHANGED <<run, progress, gatus>>
  BY DEF CoverageStep, BeginPass, CoverageFailed, Tick, vars, canaryVars
<1>3. ASSUME NEW c \in Canaries, PassStep(c) PROVE ReportInv'
  <2>1. CASE NotDue(c) \/ Reschedule(c) \/ NoCapacity(c)
    BY <1>1, <2>1 DEF NotDue, Reschedule, NoCapacity
  <2>2. CASE ClaimSlot(c)
    <3>1. run[c].phase # "receiptless"
      <4>1. due(c)
        BY <2>2 DEF ClaimSlot
      <4>2. run[c] = NoRun
        BY <4>1 DEF due
      <4> QED BY <4>2 DEF NoRun
    <3>2. /\ UNCHANGED <<progress, gatus>>
          /\ UNCHANGED run \/ run' = [run EXCEPT ![c] = [phase |-> "staging"]]
      BY <2>2 DEF ClaimSlot
    <3>3. [phase |-> "staging"] \in Runs
      BY DEF Runs
    <3> QED BY <1>1, <3>1, <3>2, <3>3, QuietStepKeeps
  <2> QED BY <1>3, <2>1, <2>2 DEF PassStep
<1>4. ASSUME NEW c \in Canaries, RunStep(c) PROVE ReportInv'
  BY <1>4, RunKeepsReports
<1>5. CASE Crash
  <2>1. /\ run' = [c \in Canaries |-> NoRun] /\ progress' = [c \in Canaries |-> "startup"]
        /\ gatus' = gatus /\ NoRun \in Runs /\ NoRun.phase = "none"
    BY <1>5 DEF Crash, Runs, NoRun
  <2> QED BY <2>1 DEF ReportInv, ReportOK
<1> QED BY <1>1, <1>2, <1>3, <1>4, <1>5 DEF Next

\* Whatever the canaries' children do, and whenever the process dies, what the
\* scheduler reports of its canaries is true of Gatus (Readiness, run).
THEOREM ReportsAreTruthful == Spec => []ProgressTruthful
<1>1. Init => ReportInv
  <2> SUFFICES ASSUME Init PROVE ReportInv
    OBVIOUS
  <2>1. NoRun \in Runs /\ NoRun.phase = "none"
    BY DEF Runs, NoRun
  <2> QED BY <2>1 DEF Init, ReportInv, ReportOK
<1>2. ReportInv => ProgressTruthful
  <2> SUFFICES ASSUME ReportInv, NEW c \in Canaries
               PROVE  /\ progress[c] = "ready" => gatus[c] # "none"
                      /\ run[c] = NoRun =>
                           /\ progress[c] = "ready" => gatus[c] = "observed"
                           /\ progress[c] = "cli_receipt_missing" => gatus[c] = "indeterminate"
    BY DEF ProgressTruthful, Ready
  <2> QED BY DEF ReportInv, ReportOK, NoRun
<1> QED BY <1>1, <1>2, NextReports, PTL DEF Spec

-----------------------------------------------------------------------------
(* Slots run once.                                                          *)

LEMMA MultipleStep ==
  ASSUME NEW w \in Nat \ {0}, NEW q \in Int, NEW p \in Int, q > p
  PROVE  q * w >= p * w + w
<1>1. q - p \in Nat \ {0}
  OBVIOUS
<1>2. (q - p) * w >= w
  BY <1>1
<1>3. (q - p) * w = q * w - p * w
  OBVIOUS
<1> QED BY <1>2, <1>3

\* The slot of an instant is the one that the instant lies in.
LEMMA SlotOfInstant ==
  ASSUME NEW w \in Nat \ {0}, NEW k \in Int, NEW t \in Int, k * w <= t, t < k * w + w
  PROVE  t \div w = k
<1> DEFINE q == t \div w
<1>1. q \in Int /\ q * w <= t /\ t < q * w + w
  OBVIOUS
<1> HIDE DEF q
<1>2. PICK a \in Int : a = q * w
  BY <1>1
<1>3. PICK b \in Int : b = k * w
  OBVIOUS
<1>4. ~(q > k)
  <2> SUFFICES ASSUME q > k PROVE FALSE
    OBVIOUS
  <2>1. a >= b + w
    BY <1>1, <1>2, <1>3, MultipleStep
  <2> QED BY <1>1, <1>2, <1>3, <2>1
<1>5. ~(k > q)
  <2> SUFFICES ASSUME k > q PROVE FALSE
    OBVIOUS
  <2>1. b >= a + w
    BY <1>1, <1>2, <1>3, MultipleStep
  <2> QED BY <1>1, <1>2, <1>3, <2>1
<1>6. q = k
  BY <1>1, <1>4, <1>5
<1> QED BY <1>6 DEF q

LEMMA SlotMonotone ==
  ASSUME NEW w \in Nat \ {0}, NEW t \in Nat, NEW u \in Nat, u <= t
  PROVE  u \div w \in Nat /\ t \div w \in Nat /\ u \div w <= t \div w
<1> DEFINE q == t \div w
           p == u \div w
<1>1. q \in Nat /\ q * w <= t /\ t < q * w + w
  OBVIOUS
<1>2. p \in Nat /\ p * w <= u /\ u < p * w + w
  OBVIOUS
<1> HIDE DEF q, p
<1>3. PICK a \in Int : a = q * w
  BY <1>1
<1>4. PICK b \in Int : b = p * w
  BY <1>2
<1>5. ~(p > q)
  <2> SUFFICES ASSUME p > q PROVE FALSE
    OBVIOUS
  <2>1. b >= a + w
    BY <1>1, <1>2, <1>3, <1>4, MultipleStep
  <2> QED BY <1>1, <1>2, <1>3, <1>4, <2>1
<1>6. p <= q
  BY <1>1, <1>2, <1>5
<1> QED BY <1>1, <1>2, <1>6 DEF q, p

\* The due time of a slot lies in the slot: jitter does not reach the next one.
LEMMA DueInSlot ==
  ASSUME NEW c \in Canaries, NEW slot \in Nat, slot <= LastSlot(c)
  PROVE  dueForSlot(c, slot) \in Nat /\ slotAt(c, dueForSlot(c, slot)) = slot
<1>1. SlotLength[c] \in Nat \ {0} /\ MaxTime \in Nat
  BY CanaryConfiguration, CoverageConfiguration
<1>2. LastSlot(c) \in Int
  BY <1>1 DEF LastSlot
<1>3. slot \in 0 .. LastSlot(c)
  BY <1>2
<1>4. Jitter(c, slot) \in 0 .. SlotLength[c] - 1
  BY <1>3, CanaryConfiguration DEF LastSlot
<1>5. PICK w : w = SlotLength[c]
  OBVIOUS
<1>6. PICK j : j = Jitter(c, slot)
  OBVIOUS
<1>7. slot * w \in Nat /\ j \in Nat /\ j < w /\ w \in Nat \ {0}
  BY <1>1, <1>4, <1>5, <1>6
<1>8. PICK t \in Nat : t = slot * w + j
  BY <1>7
<1>9. slot * w <= t /\ t < slot * w + w
  BY <1>7, <1>8
<1>10. t \div w = slot
  BY <1>7, <1>9, SlotOfInstant
<1> QED BY <1>5, <1>6, <1>8, <1>10 DEF dueForSlot, slotAt

\* The next due time is that of this slot, or when that is over of the next.
LEMMA NextDueSlot ==
  ASSUME NEW c \in Canaries, NEW at \in 0 .. MaxTime
  PROVE  \E slot \in Nat :
           /\ nextDueAfter(c, at) = dueForSlot(c, slot) /\ slot <= LastSlot(c)
           /\ slot >= slotAt(c, at)
           /\ dueForSlot(c, slotAt(c, at)) <= at => slot > slotAt(c, at)
<1>1. SlotLength[c] \in Nat \ {0} /\ MaxTime \in Nat /\ at \in Nat /\ at <= MaxTime
  BY CanaryConfiguration, CoverageConfiguration
<1>2. slotAt(c, at) \in Nat /\ MaxTime \div SlotLength[c] \in Nat
        /\ slotAt(c, at) <= MaxTime \div SlotLength[c]
  BY <1>1, SlotMonotone DEF slotAt
<1>3. PICK k \in Nat : k = slotAt(c, at)
  BY <1>2
<1>4. k <= LastSlot(c) /\ k + 1 <= LastSlot(c)
  BY <1>2, <1>3 DEF LastSlot
<1>5. dueForSlot(c, k) \in Nat
  BY <1>4, DueInSlot
<1>6. CASE dueForSlot(c, k) > at
  <2>1. nextDueAfter(c, at) = dueForSlot(c, k)
    BY <1>3, <1>6 DEF nextDueAfter
  <2>2. ~(dueForSlot(c, k) <= at)
    BY <1>1, <1>5, <1>6
  <2> QED BY <1>3, <1>4, <2>1, <2>2
<1>7. CASE ~(dueForSlot(c, k) > at)
  <2>1. nextDueAfter(c, at) = dueForSlot(c, k + 1)
    BY <1>3, <1>7 DEF nextDueAfter
  <2>2. k + 1 \in Nat /\ k + 1 > k
    OBVIOUS
  <2> QED BY <1>3, <1>4, <2>1, <2>2
<1> QED BY <1>6, <1>7

\* A record names a slot that has not run.
LEMMA RecordedSlot ==
  ASSUME SlotInv, NEW c \in Canaries, NEW record, RecordOK(c, record), record # NoRecord
  PROVE  /\ record \in Nat /\ slotAt(c, record) \in Nat /\ slotAt(c, record) > launches[c].slot
         /\ record = dueForSlot(c, slotAt(c, record))
<1>1. PICK slot \in Nat : record = dueForSlot(c, slot) /\ slot <= LastSlot(c) /\ slot > launches[c].slot
  BY DEF RecordOK
<1> QED BY <1>1, DueInSlot

\* The record that replaces one that is due, or the first one, names a later
\* slot than the pass's or than the one that is due.
LEMMA Rescheduled ==
  ASSUME SlotInv, NEW c \in Canaries, NEW at \in 0 .. MaxTime,
         nextDue[c] # NoRecord => nextDue[c] <= at
  PROVE  \E slot \in Nat :
           /\ nextDueAfter(c, at) = dueForSlot(c, slot) /\ slot <= LastSlot(c)
           /\ slot > launches[c].slot
           /\ nextDue[c] # NoRecord /\ slotAt(c, nextDue[c]) = slotAt(c, at) =>
                slot > slotAt(c, nextDue[c])
<1>1. PICK slot \in Nat :
        /\ nextDueAfter(c, at) = dueForSlot(c, slot) /\ slot <= LastSlot(c)
        /\ slot >= slotAt(c, at)
        /\ dueForSlot(c, slotAt(c, at)) <= at => slot > slotAt(c, at)
  BY NextDueSlot
<1>2. launches[c].slot \in Int /\ RecordOK(c, nextDue[c])
  BY DEF SlotInv
<1>3. CASE nextDue[c] = NoRecord
  <2>1. ASSUME NEW k \in Nat, k <= LastSlot(c), NoRecord = dueForSlot(c, k) PROVE FALSE
    BY <2>1, DueInSlot DEF NoRecord
  <2>2. launches[c].slot = -1
    BY <1>2, <1>3, <2>1 DEF RecordOK
  <2> QED BY <1>1, <1>3, <2>2
<1>4. CASE nextDue[c] # NoRecord
  <2>1. PICK d \in Nat : d = nextDue[c]
    BY <1>2, <1>4, RecordedSlot
  <2>2. /\ slotAt(c, d) \in Nat /\ slotAt(c, d) > launches[c].slot /\ d <= at
        /\ d = dueForSlot(c, slotAt(c, d))
    BY <1>2, <1>4, <2>1, RecordedSlot
  <2>3. slotAt(c, d) <= slotAt(c, at) /\ slotAt(c, at) \in Nat
    <3>1. SlotLength[c] \in Nat \ {0} /\ at \in Nat
      BY CanaryConfiguration, CoverageConfiguration
    <3> QED BY <2>1, <2>2, <3>1, SlotMonotone DEF slotAt
  <2>4. slot > launches[c].slot
    BY <1>1, <1>2, <2>2, <2>3
  <2>5. slotAt(c, d) = slotAt(c, at) => slot > slotAt(c, d)
    BY <1>1, <2>2
  <2> QED BY <1>1, <2>1, <2>4, <2>5
<1> QED BY <1>3, <1>4

\* The records of the other canaries, and of all of them when they are saved.
LEMMA RecordStep ==
  ASSUME SlotInv, NEW c \in Canaries, NEW record, nextDue' = [nextDue EXCEPT ![c] = record],
         saved' = nextDue' \/ (saved' = saved /\ launches' = launches),
         launches' \in [Canaries -> [slot : Int, times : {0, 1}]],
         \A d \in Canaries : d # c => launches'[d] = launches[d],
         NEW slot \in Nat, record = dueForSlot(c, slot), slot <= LastSlot(c),
         slot > launches'[c].slot,
         now' = now, pass' \in [at : Int, cursor : Nat], pass' # NoPass => pass'.at = pass.at /\ pass # NoPass
  PROVE  SlotInv'
<1>1. nextDue \in [Canaries -> Int] /\ saved \in [Canaries -> Int] /\ record \in Int
  BY DueInSlot DEF SlotInv
<1>2. nextDue' \in [Canaries -> Int] /\ saved' \in [Canaries -> Int]
  BY <1>1
<1>3. nextDue'[c] = record /\ \A d \in Canaries : d # c => nextDue'[d] = nextDue[d]
  BY <1>1
<1>4. RecordOK(c, record)'
  BY DEF RecordOK
<1>5. \A d \in Canaries : d # c => RecordOK(d, nextDue[d])'
  BY <1>3 DEF SlotInv, RecordOK
<1>6. \A d \in Canaries : RecordOK(d, nextDue[d])'
  BY <1>3, <1>4, <1>5 DEF RecordOK
<1>7. \A d \in Canaries : RecordOK(d, saved[d])'
  BY <1>6 DEF SlotInv, RecordOK
<1>8. now' \in 0 .. MaxTime /\ (pass' # NoPass => pass'.at \in 0 .. now')
  BY DEF SlotInv
<1> QED BY <1>2, <1>6, <1>7, <1>8 DEF SlotInv

\* What a step of the pass at canary c may rely on.
LEMMA AtCanary ==
  ASSUME SlotInv, NEW c \in Canaries, atCanary(c)
  PROVE  /\ pass # NoPass /\ pass.at \in 0 .. MaxTime
         /\ advance(c) \/ (\E result : endPass(result)) =>
              /\ pass' \in [at : Int, cursor : Nat]
              /\ pass' # NoPass => pass'.at = pass.at
<1>1. N \in Nat /\ MaxTime \in Nat /\ c \in Nat \ {0}
  BY CanaryConfiguration, CoverageConfiguration DEF Canaries
<1>2. pass # NoPass
  BY <1>1 DEF atCanary, NoPass
<1>3. pass.at \in 0 .. now /\ now \in 0 .. MaxTime /\ pass \in [at : Int, cursor : Nat]
  BY <1>2 DEF SlotInv
<1>4. pass.at \in 0 .. MaxTime
  BY <1>1, <1>3
<1>5. advance(c) \/ (\E result : endPass(result)) =>
        pass' = NoPass \/ pass' = [pass EXCEPT !.cursor = c + 1]
  BY DEF advance, endPass
<1>6. NoPass \in [at : Int, cursor : Nat]
  BY DEF NoPass
<1>7. /\ [pass EXCEPT !.cursor = c + 1] \in [at : Int, cursor : Nat]
      /\ [pass EXCEPT !.cursor = c + 1].at = pass.at
  BY <1>1, <1>3
<1> QED BY <1>2, <1>4, <1>5, <1>6, <1>7

\* Steps that touch no record.
LEMMA PassOnlyStep ==
  ASSUME SlotInv, UNCHANGED <<nextDue, saved, launches>>, now' \in now .. MaxTime,
         pass' \in [at : Int, cursor : Nat],
         pass' # NoPass => pass'.at \in 0 .. now'
  PROVE  SlotInv'
<1>1. now' \in 0 .. MaxTime
  BY CoverageConfiguration DEF SlotInv
<1> QED BY <1>1 DEF SlotInv, RecordOK

LEMMA RescheduleKeeps == ASSUME SlotInv, NEW c \in Canaries, Reschedule(c) PROVE SlotInv'
<1>1. atCanary(c) /\ UNCHANGED <<now, launches>>
  BY DEF Reschedule
<1>2. advance(c) \/ \E result : endPass(result)
  BY DEF Reschedule
<1>3. PICK at : at = pass.at
  OBVIOUS
<1>4. /\ at \in 0 .. MaxTime /\ pass # NoPass /\ pass' \in [at : Int, cursor : Nat]
      /\ pass' # NoPass => pass'.at = pass.at
  BY <1>1, <1>2, <1>3, AtCanary
<1>5. nextDue[c] # NoRecord => nextDue[c] <= at
  BY <1>3 DEF Reschedule, due
<1>6. PICK slot \in Nat : /\ nextDueAfter(c, at) = dueForSlot(c, slot) /\ slot <= LastSlot(c)
                          /\ slot > launches[c].slot
  BY <1>4, <1>5, Rescheduled
<1>7. nextDue' = [nextDue EXCEPT ![c] = dueForSlot(c, slot)]
  BY <1>3, <1>6 DEF Reschedule, reschedule
<1>8. saved' = nextDue' \/ saved' = saved
  BY DEF Reschedule, saveLocked
<1>9. launches' \in [Canaries -> [slot : Int, times : {0, 1}]]
  BY <1>1 DEF SlotInv
<1> QED BY <1>1, <1>4, <1>6, <1>7, <1>8, <1>9, RecordStep

LEMMA ClaimSlotKeeps == ASSUME SlotInv, NEW c \in Canaries, ClaimSlot(c) PROVE SlotInv'
<1>1. atCanary(c) /\ due(c) /\ ~missed(c) /\ UNCHANGED now
  BY DEF ClaimSlot
<1>2. advance(c) \/ \E result : endPass(result)
  BY DEF ClaimSlot
<1>3. PICK at : at = pass.at
  OBVIOUS
<1>4. /\ at \in 0 .. MaxTime /\ pass # NoPass /\ pass' \in [at : Int, cursor : Nat]
      /\ pass' # NoPass => pass'.at = pass.at
  BY <1>1, <1>2, <1>3, AtCanary
<1>5. nextDue[c] # NoRecord /\ nextDue[c] <= at /\ slotAt(c, nextDue[c]) = slotAt(c, at)
  BY <1>1, <1>3 DEF due, missed
<1>6. PICK slot \in Nat : /\ nextDueAfter(c, at) = dueForSlot(c, slot) /\ slot <= LastSlot(c)
                          /\ slot > launches[c].slot /\ slot > slotAt(c, nextDue[c])
  BY <1>4, <1>5, Rescheduled
<1>7. nextDue' = [nextDue EXCEPT ![c] = dueForSlot(c, slot)]
  BY <1>3, <1>6 DEF ClaimSlot, reschedule
<1>8. launches \in [Canaries -> [slot : Int, times : {0, 1}]]
  BY DEF SlotInv
<1>9. CASE saveLocked(FALSE) /\ UNCHANGED launches
  <2>1. saved' = saved /\ launches' = launches
    BY <1>9 DEF saveLocked
  <2> QED BY <1>1, <1>4, <1>6, <1>7, <1>8, <2>1, RecordStep
<1>10. CASE saveLocked(TRUE) /\ launch(c)
  <2>1. saved' = nextDue'
    BY <1>10 DEF saveLocked
  <2>2. PICK k : k = slotAt(c, nextDue[c])
    OBVIOUS
  <2>3. k \in Nat /\ k > launches[c].slot
    BY <1>5, <2>2, RecordedSlot DEF SlotInv
  <2>4. k # launches[c].slot
    BY <1>8, <2>3
  <2>5. launches' = [launches EXCEPT ![c] = [slot |-> k, times |-> 1]]
    BY <1>10, <2>2, <2>4 DEF launch
  <2>6. /\ launches' \in [Canaries -> [slot : Int, times : {0, 1}]] /\ launches'[c].slot = k
        /\ \A d \in Canaries : d # c => launches'[d] = launches[d]
    BY <1>8, <2>3, <2>5
  <2>7. slot > launches'[c].slot
    BY <1>6, <2>2, <2>6
  <2> QED BY <1>1, <1>4, <1>6, <1>7, <2>1, <2>6, <2>7, RecordStep
<1> QED BY <1>9, <1>10 DEF ClaimSlot

LEMMA NextSlots == SlotInv /\ [Next]_vars => SlotInv'
<1> SUFFICES ASSUME SlotInv, [Next]_vars PROVE SlotInv'
  OBVIOUS
<1>1. now \in Nat /\ now \in now .. MaxTime /\ MaxTime \in Nat
  BY CoverageConfiguration DEF SlotInv
<1>2. CASE UNCHANGED <<now, pass, nextDue, saved, launches>>
  BY <1>2 DEF SlotInv, RecordOK
<1>3. ASSUME NEW c \in Canaries, PassStep(c) PROVE SlotInv'
  <2>1. CASE NotDue(c) \/ NoCapacity(c)
    <3>1. atCanary(c) /\ advance(c) /\ UNCHANGED <<now, nextDue, saved, launches>>
      BY <2>1 DEF NotDue, NoCapacity
    <3>2. pass' \in [at : Int, cursor : Nat] /\ (pass' # NoPass => pass'.at \in 0 .. now)
      BY <3>1, AtCanary DEF SlotInv
    <3> QED BY <1>1, <3>1, <3>2, PassOnlyStep
  <2> QED BY <1>3, <2>1, RescheduleKeeps, ClaimSlotKeeps DEF PassStep
<1>4. ASSUME NEW c \in Canaries, RunStep(c) PROVE UNCHANGED <<now, pass, nextDue, saved, launches>>
  BY <1>4 DEF RunStep, Stage, StagingFails, ProbeLeavesNoReceipt, ProbeReports, Deliver,
     ReportMissingReceipt, ReturnPermit, EndRun, UnchangedInRun
<1>5. CASE BeginPass
  <2>1. UNCHANGED <<now, nextDue, saved, launches>> /\ pass' = [at |-> now, cursor |-> 1]
    BY <1>5 DEF BeginPass, ProcessDue
  <2> QED BY <1>1, <2>1, PassOnlyStep
<1>6. CASE CoverageFailed
  <2>1. UNCHANGED <<now, nextDue, saved, launches>> /\ pass' = NoPass
    BY <1>6 DEF CoverageFailed, endPass
  <2>2. NoPass \in [at : Int, cursor : Nat]
    BY DEF NoPass
  <2> QED BY <1>1, <2>1, <2>2, PassOnlyStep
<1>7. CASE Crash
  <2>1. UNCHANGED <<now, saved, launches>> /\ nextDue' = saved /\ pass' = NoPass
    BY <1>7 DEF Crash
  <2>2. NoPass \in [at : Int, cursor : Nat]
    BY DEF NoPass
  <2> QED BY <2>1, <2>2 DEF SlotInv, RecordOK
<1>8. CASE Tick
  <2>1. UNCHANGED <<pass, nextDue, saved, launches>> /\ now < MaxTime /\ now' = now + 1
    BY <1>8 DEF Tick, canaryVars
  <2>2. now' \in now .. MaxTime /\ \A x \in 0 .. now : x \in 0 .. now'
    BY <1>1, <2>1
  <2>3. pass' \in [at : Int, cursor : Nat] /\ (pass' # NoPass => pass'.at \in 0 .. now')
    BY SMTT(30), <2>1, <2>2 DEF SlotInv
  <2> QED BY <2>1, <2>2, <2>3, PassOnlyStep
<1>9. CoverageStep => UNCHANGED <<now, pass, nextDue, saved, launches>>
  BY DEF CoverageStep, canaryVars, ProcessDue, LifecycleStep, OpenAuthority, LoadForTransition,
     Rebalance, RecordCoverage, CallFails, WorkerStep, LoadAuthority, Retry, Complete, AbandonClaim,
     AnswerLost, Claim, ClaimNext
<1>10. UNCHANGED vars => UNCHANGED <<now, pass, nextDue, saved, launches>>
  BY DEF vars
<1> QED BY <1>2, <1>3, <1>4, <1>5, <1>6, <1>7, <1>8, <1>9, <1>10 DEF Next

\* For all canaries, periods, jitters and limits, and however saves fail and
\* the process dies, no slot of a canary is run twice (claimAndStart).
THEOREM SlotsRunOnce == Spec => []SlotRunOnce
<1>1. Init => SlotInv
  <2> SUFFICES ASSUME Init PROVE SlotInv
    OBVIOUS
  <2>1. MaxTime \in Nat /\ NoPass \in [at : Int, cursor : Nat]
    BY CoverageConfiguration DEF NoPass
  <2>2. now \in 0 .. MaxTime
    BY <2>1 DEF Init, CoverageInit
  <2> QED BY <2>1, <2>2 DEF Init, SlotInv, RecordOK, NoRecord
<1>2. SlotInv => SlotRunOnce
  BY DEF SlotInv, SlotRunOnce
<1> QED BY <1>1, <1>2, NextSlots, PTL DEF Spec

-----------------------------------------------------------------------------
(* Leases are honoured.                                                     *)

\* The plan of a lifecycle call starts at or before now.
LEMMA OwnPlan ==
  ASSUME CoverageTyped, NEW p \in Processes
  PROVE  ownPlan(p) \in Plans /\ ownPlan(p).start \in Nat /\ ownPlan(p).start <= now
<1>1. PICK t \in Nat : t = call[p].at /\ t <= now
  BY DEF CoverageTyped
<1>2. Interval \in Nat \ {0} /\ now \in Nat
  BY CoverageConfiguration DEF CoverageTyped
<1>3. PICK i : i = intervalOf(t)
  OBVIOUS
<1>4. i \in Nat /\ i <= t
  BY <1>2, <1>3 DEF intervalOf
<1>5. i <= now
  BY <1>1, <1>2, <1>4
<1>6. ownPlan(p) = [start |-> i, shards |-> ShardCount[p]]
  BY <1>1, <1>3 DEF ownPlan, BuildScheduleCoveragePlan
<1>7. [start |-> i, shards |-> ShardCount[p]] \in Plans
  BY <1>4 DEF Plans
<1>8. ownPlan(p).start = i
  BY <1>6
<1> QED BY <1>4, <1>5, <1>6, <1>7, <1>8

LEMMA PlanTyped == ASSUME NEW plan \in Plans PROVE plan.start \in Nat
BY DEF Plans

\* A file that a process creates or moves to its own plan.
LEMMA NewFile ==
  ASSUME NEW plan \in Plans, NEW latest, NEW previous
  PROVE  LET f == [plan |-> plan, entries |-> NewScheduleCoverageLedger,
                   latest |-> latest, previous |-> previous] IN
           FileOK(f) /\ f # NoFile /\ f.plan = plan
<1>1. NewScheduleCoverageLedger \in [Subjects -> Entries]
  BY DEF NewScheduleCoverageLedger, Entries
<1>2. plan # NoPlan
  BY PlanTyped DEF NoPlan
<1>3. NoFile.plan = NoPlan
  BY DEF NoFile
<1> DEFINE f == [plan |-> plan, entries |-> NewScheduleCoverageLedger,
                 latest |-> latest, previous |-> previous]
<1>4. f.plan = plan /\ f.entries = NewScheduleCoverageLedger /\ f.latest = latest /\ f.previous = previous
  OBVIOUS
<1>5. f # NoFile
  BY <1>2, <1>3, <1>4
<1> QED BY <1>1, <1>4, <1>5 DEF FileOK

\* Steps that leave the plan, the entries and the claims alone.
LEMMA SameLedgerStep ==
  ASSUME LeaseInv, claim' = claim, now' \in now .. MaxTime,
         file' = file \/ (file # NoFile /\ file' # NoFile /\ FileOK(file')
                            /\ file'.plan = file.plan /\ file'.entries = file.entries),
         call' \in [Processes -> [step : {"idle", "open", "load", "rebalance", "record", "done", "failed"},
                                  at : Nat]],
         \A p \in Processes : call'[p].at <= now'
  PROVE  LeaseInv'
<1>1. now \in 0 .. MaxTime /\ MaxTime \in Nat
  BY CoverageConfiguration DEF LeaseInv, CoverageTyped
<1>2. now' \in 0 .. MaxTime /\ now <= now'
  BY <1>1
<1>3. CoverageTyped'
  BY <1>2 DEF LeaseInv, CoverageTyped, ClaimOK, FileOK
<1>4. ASSUME NEW w \in Workers PROVE GrantedAt(w)'
  <2> SUFFICES ASSUME claim[w] # NoClaim PROVE GrantedAt(w)'
    BY DEF GrantedAt
  <2>1. claim[w].lease \in Nat
    BY DEF LeaseInv, CoverageTyped, ClaimOK
  <2>2. now' < claim[w].lease => now < claim[w].lease
    BY <1>1, <1>2, <2>1
  <2> QED BY <2>2 DEF LeaseInv, GrantedAt, currentClaim
<1>5. GrantsDiffer'
  BY DEF LeaseInv, GrantsDiffer
<1> QED BY <1>3, <1>4, <1>5 DEF LeaseInv

\* The file moves to a plan that no live claim is under.
LEMMA NewPlanStep ==
  ASSUME LeaseInv, NEW plan \in Plans, NEW latest, NEW previous,
         file' = [plan |-> plan, entries |-> NewScheduleCoverageLedger,
                  latest |-> latest, previous |-> previous],
         UNCHANGED <<claim, now>>,
         file # NoFile => plan.start > file.plan.start,
         \A w \in Workers : claim[w] # NoClaim => ~(now < claim[w].lease),
         call' \in [Processes -> [step : {"idle", "open", "load", "rebalance", "record", "done", "failed"},
                                  at : Nat]],
         \A p \in Processes : call'[p].at <= now
  PROVE  LeaseInv'
<1>1. FileOK(file') /\ file' # NoFile /\ file'.plan = plan
  BY NewFile
<1>2. CoverageTyped'
  BY <1>1 DEF LeaseInv, CoverageTyped, ClaimOK, FileOK
<1>3. ASSUME NEW w \in Workers PROVE GrantedAt(w)'
  <2> SUFFICES ASSUME claim[w] # NoClaim PROVE GrantedAt(w)'
    BY DEF GrantedAt
  <2>1. file # NoFile /\ claim[w].start <= file.plan.start
    BY DEF LeaseInv, GrantedAt
  <2>2. file.plan.start \in Nat /\ plan.start \in Nat /\ claim[w].start \in Nat
    BY <2>1, PlanTyped DEF LeaseInv, CoverageTyped, FileOK, ClaimOK
  <2>3. claim[w].start < plan.start
    BY <2>1, <2>2
  <2>4. claim[w].start <= plan.start /\ claim[w].start # plan.start
    BY <2>2, <2>3
  <2> QED BY <1>1, <2>4 DEF GrantedAt
<1>4. GrantsDiffer'
  BY DEF LeaseInv, GrantsDiffer
<1> QED BY <1>2, <1>3, <1>4 DEF LeaseInv

\* A set of naturals has a least element.
LEMMA NatMinimum ==
  ASSUME NEW T, T \subseteq Nat, T # {} PROVE \E x \in T : \A y \in T : x <= y
<1>1. PICK x \in T : \A y \in T : ~(<<y, x>> \in OpToRel(<, Nat))
  BY WFMin, NatLessThanWellFounded
<1>2. \A y \in T : ~(y < x)
  BY <1>1 DEF OpToRel
<1>3. \A y \in T : x \in Nat /\ y \in Nat
  OBVIOUS
<1> QED BY <1>2, <1>3

\* What a worker may hold once it has replaced entry e of subject s.
GrantOK(k, s, e) ==
  k # NoClaim => /\ k = ScheduleClaim(file.plan, s, e) /\ e.state = "claimed"
                 /\ e.generation > file.entries[s].generation

\* No worker but w holds a live claim for s.
OnlyClaim(w, s) ==
  \A v \in Workers : v # w /\ claim[v] # NoClaim /\ now < claim[v].lease => claim[v].subject # s

\* A worker replaces the entry of a subject that no other live claim is for.
LEMMA EntryStep ==
  ASSUME LeaseInv, file # NoFile, NEW w \in Workers, NEW s \in Subjects, NEW e \in Entries,
         replaceEntry(s, e), e.generation >= file.entries[s].generation,
         NEW k, claim' = [claim EXCEPT ![w] = k],
         GrantOK(k, s, e), OnlyClaim(w, s),
         UNCHANGED <<now, call>>
  PROVE  LeaseInv'
<1>1. FileOK(file) /\ DOMAIN claim = Workers
  BY DEF LeaseInv, CoverageTyped
<1>2. PICK entries : entries = [file.entries EXCEPT ![s] = e]
  OBVIOUS
<1>3. /\ entries \in [Subjects -> Entries] /\ entries[s] = e
      /\ \A u \in Subjects : u # s => entries[u] = file.entries[u]
  BY <1>1, <1>2 DEF FileOK
<1>4. file' = [file EXCEPT !.entries = entries]
  BY <1>2 DEF replaceEntry
<1>5. /\ file' = [plan |-> file.plan, entries |-> entries, latest |-> file.latest,
                  previous |-> file.previous]
  BY <1>1, <1>4 DEF FileOK
<1>6. file'.plan = file.plan /\ file'.entries = entries /\ file' # NoFile /\ FileOK(file')
  <2>1. /\ file'.plan = file.plan /\ file'.entries = entries
        /\ file'.latest = file.latest /\ file'.previous = file.previous
    BY <1>5
  <2>2. file'.plan # NoPlan /\ NoFile.plan = NoPlan
    BY <1>1, <2>1, PlanTyped DEF FileOK, NoPlan, NoFile
  <2>3. FileOK(file')
    BY <1>1, <1>3, <1>5, <2>1 DEF FileOK
  <2> QED BY <2>1, <2>2, <2>3
<1>7. claim'[w] = k /\ \A v \in Workers : v # w => claim'[v] = claim[v]
  BY <1>1
<1>8. k # NoClaim => ClaimOK(k) /\ k.subject = s /\ k.start = file.plan.start /\ k.generation = e.generation
  BY <1>1, PlanTyped DEF ScheduleClaim, ClaimOK, Entries, FileOK, GrantOK
<1>9. \A u \in Subjects : file.entries[u].generation \in Nat /\ entries[u].generation \in Nat
  BY <1>1, <1>3 DEF FileOK, Entries
<1>10. \A u \in Subjects : file.entries[u].generation <= entries[u].generation
  BY <1>3, <1>9
<1>11. CoverageTyped'
  <2>1. DOMAIN claim' = Workers
    BY <1>1
  <2> QED BY <1>6, <1>7, <1>8, <2>1 DEF LeaseInv, CoverageTyped
<1>12. ASSUME NEW v \in Workers, v # w, claim[v] # NoClaim PROVE GrantedAt(v)'
  <2>1. ClaimOK(claim[v]) /\ GrantedAt(v) /\ claim'[v] = claim[v]
    BY <1>7, <1>12 DEF LeaseInv, CoverageTyped
  <2>2. claim[v].start = file.plan.start => claim[v].generation <= entries[claim[v].subject].generation
    <3>1. PICK u \in Subjects : u = claim[v].subject
      BY <2>1 DEF ClaimOK
    <3>2. PICK g \in Nat : g = claim[v].generation
      BY <2>1 DEF ClaimOK
    <3>3. claim[v].start = file.plan.start => g <= file.entries[u].generation
      BY <1>12, <2>1, <3>1, <3>2 DEF GrantedAt
    <3>4. claim[v].start = file.plan.start => g <= entries[u].generation
      BY <1>9, <1>10, <3>3
    <3> QED BY <3>1, <3>2, <3>4
  <2>3. now < claim[v].lease => currentClaim(claim[v])'
    <3> SUFFICES ASSUME now < claim[v].lease PROVE currentClaim(claim[v])'
      OBVIOUS
    <3>1. claim[v].subject # s /\ currentClaim(claim[v])
      BY <1>12, <2>1 DEF GrantedAt, OnlyClaim
    <3>2. file'.entries[claim[v].subject] = file.entries[claim[v].subject]
      BY <1>3, <1>6, <2>1, <3>1 DEF ClaimOK
    <3> QED BY <1>6, <2>1, <3>1, <3>2 DEF currentClaim
  <2> QED BY <1>6, <1>12, <2>1, <2>2, <2>3 DEF GrantedAt
<1>13. GrantedAt(w)'
  <2> SUFFICES ASSUME k # NoClaim PROVE GrantedAt(w)'
    BY <1>7 DEF GrantedAt
  <2>1. k = ScheduleClaim(file.plan, s, e) /\ e.state = "claimed"
    BY DEF GrantOK
  <2>2. k.start \in Nat /\ k.generation \in Nat /\ k.start <= file.plan.start
          /\ k.generation <= entries[k.subject].generation
    BY <1>3, <1>8 DEF ClaimOK
  <2>3. currentClaim(k)'
    BY <1>3, <1>6, <1>8, <2>1 DEF currentClaim
  <2> QED BY <1>6, <1>7, <2>2, <2>3 DEF GrantedAt, currentClaim
<1>14. ASSUME NEW v \in Workers, v # w, claim[v] # NoClaim, k # NoClaim, claim[v].subject = k.subject,
              claim[v].start = k.start
       PROVE  claim[v].generation # k.generation
  <2>1. claim[v].generation <= file.entries[s].generation /\ claim[v].generation \in Nat
    BY <1>8, <1>14 DEF LeaseInv, GrantedAt, CoverageTyped, ClaimOK
  <2>2. k.generation > file.entries[s].generation /\ k.generation \in Nat
    BY <1>8, <1>14 DEF ClaimOK, GrantOK
  <2>3. file.entries[s].generation \in Nat
    BY <1>9
  <2> QED BY <2>1, <2>2, <2>3
<1>15. GrantsDiffer'
  <2> SUFFICES ASSUME NEW u \in Workers, NEW v \in Workers, u # v,
                      claim'[u] # NoClaim, claim'[v] # NoClaim,
                      claim'[u].subject = claim'[v].subject, claim'[u].start = claim'[v].start,
                      claim'[u].generation = claim'[v].generation
               PROVE  FALSE
    BY DEF GrantsDiffer
  <2>1. CASE u = w
    BY <1>7, <1>14, <2>1
  <2>2. CASE v = w
    BY <1>7, <1>14, <2>2
  <2>3. CASE u # w /\ v # w
    BY <1>7, <2>3 DEF LeaseInv, GrantsDiffer
  <2> QED BY <2>1, <2>2, <2>3
<1>16. \A v \in Workers : GrantedAt(v)'
  <2>1. ASSUME NEW v \in Workers, v # w, claim[v] = NoClaim PROVE GrantedAt(v)'
    BY <1>7, <2>1 DEF GrantedAt
  <2> QED BY <1>12, <1>13, <2>1
<1> QED BY <1>11, <1>15, <1>16 DEF LeaseInv

\* A free subject is claimed for k, which is the claim or, when the answer is
\* lost, nothing.
LEMMA GrantKeeps ==
  ASSUME LeaseInv, NEW w \in Workers, NEW s \in Subjects, mayClaim(w, s),
         NEW e, e = claimed(file.entries[s], now), replaceEntry(s, e),
         NEW k \in {ScheduleClaim(file.plan, s, e), NoClaim},
         claim' = [claim EXCEPT ![w] = k], UNCHANGED <<now, call>>
  PROVE  LeaseInv'
<1>1. file # NoFile /\ claimable(file.entries[s], now)
  BY DEF mayClaim, fresh
<1>2. FileOK(file) /\ file.entries[s] \in Entries /\ now \in Nat /\ Lease \in Nat
  BY <1>1, CoverageConfiguration DEF LeaseInv, CoverageTyped, FileOK
<1>3. /\ e \in Entries /\ e.state = "claimed" /\ e.generation > file.entries[s].generation
      /\ e.generation >= file.entries[s].generation
  <2>1. PICK x \in Entries : x = file.entries[s]
    BY <1>2
  <2>2. PICK l \in Nat : l = now + Lease
    BY <1>2
  <2>3. PICK g \in Nat : g = x.generation + 1 /\ g > x.generation /\ g >= x.generation
    BY DEF Entries
  <2>4. e = [x EXCEPT !.state = "claimed", !.attempted = TRUE, !.generation = g, !.lease = l]
    BY <2>1, <2>2, <2>3 DEF claimed
  <2>5. e \in Entries /\ e.state = "claimed" /\ e.generation = g
    BY <2>4 DEF Entries
  <2> QED BY <2>1, <2>3, <2>5
<1>4. ASSUME NEW v \in Workers, claim[v] # NoClaim, now < claim[v].lease, claim[v].subject = s PROVE FALSE
  <2>1. currentClaim(claim[v])
    BY <1>4 DEF LeaseInv, GrantedAt
  <2>2. file.entries[s].state = "claimed" /\ file.entries[s].lease = claim[v].lease
    BY <1>4, <2>1 DEF currentClaim, ScheduleClaim
  <2> QED BY <1>1, <1>4, <2>2 DEF claimable
<1>5. OnlyClaim(w, s)
  BY <1>4 DEF OnlyClaim
<1>6. GrantOK(k, s, e)
  BY <1>3 DEF GrantOK
<1> QED BY <1>1, <1>3, <1>5, <1>6, EntryStep

LEMMA ClaimKeeps ==
  ASSUME LeaseInv, NEW w \in Workers, NEW s \in Subjects, Claim(w, s) PROVE LeaseInv'
<1>1. PICK e : e = claimed(file.entries[s], now)
  OBVIOUS
<1>2. /\ mayClaim(w, s) /\ replaceEntry(s, e) /\ UNCHANGED <<now, call>>
      /\ claim' = [claim EXCEPT ![w] = ScheduleClaim(file.plan, s, e)]
  BY <1>1 DEF Claim
<1> QED BY <1>1, <1>2, GrantKeeps

\* Of two workers only one holds the claim that the file holds.
LEMMA CurrentIsUnique ==
  ASSUME LeaseInv, NEW v \in Workers, NEW w \in Workers, v # w, claim[v] # NoClaim, claim[w] # NoClaim,
         currentClaim(claim[v]), currentClaim(claim[w])
  PROVE  claim[v].subject # claim[w].subject
BY DEF LeaseInv, GrantsDiffer, currentClaim

\* A worker gives its claim back.
LEMMA ReturnClaimKeeps ==
  ASSUME LeaseInv, NEW w \in Workers, claim[w] # NoClaim, file # NoFile, currentClaim(claim[w]),
         NEW e \in Entries, e.generation = file.entries[claim[w].subject].generation,
         replaceEntry(claim[w].subject, e), claim' = [claim EXCEPT ![w] = NoClaim],
         UNCHANGED <<now, call>>
  PROVE  LeaseInv'
<1>1. PICK s \in Subjects : s = claim[w].subject
  BY DEF LeaseInv, CoverageTyped, ClaimOK
<1>2. OnlyClaim(w, s) /\ GrantOK(NoClaim, s, e)
  BY <1>1, CurrentIsUnique DEF LeaseInv, GrantedAt, OnlyClaim, GrantOK
<1>3. e.generation >= file.entries[s].generation
  <2>1. e.generation \in Nat
    BY DEF Entries
  <2> QED BY <1>1, <2>1
<1>4. replaceEntry(s, e)
  BY <1>1
<1> QED BY <1>2, <1>3, <1>4, EntryStep

\* ClaimNext claims the first open subject of its shard.
LEMMA ClaimNextClaims ==
  ASSUME NEW w, NEW i, ClaimNext(w, i) PROVE \E s \in Subjects : Claim(w, s)
<1> DEFINE open == {s \in Subjects : scheduleShard(s, file.plan) = i /\ claimable(file.entries[s], now)}
<1>1. open # {} /\ Claim(w, Min(open)) /\ open \subseteq Nat /\ open \subseteq Subjects
  BY CoverageConfiguration DEF ClaimNext
<1>2. Min(open) \in open
  <2>1. \E x \in open : \A y \in open : x <= y
    <3> HIDE DEF open
    <3> QED BY <1>1, NatMinimum
  <2> QED BY <2>1 DEF Min
<1> QED BY <1>1, <1>2

LEMMA WorkerKeeps == ASSUME LeaseInv, NEW w \in Workers, WorkerStep(w) PROVE LeaseInv'
<1>1. CASE LoadAuthority(w)
  <2>1. UNCHANGED <<now, file, call, claim>>
    BY <1>1 DEF LoadAuthority
  <2> QED BY <2>1 DEF LeaseInv, CoverageTyped, GrantedAt, GrantsDiffer, currentClaim
<1>2. ASSUME NEW s \in Subjects, Claim(w, s) PROVE LeaseInv'
  BY <1>2, ClaimKeeps
<1>3. ASSUME NEW i, ClaimNext(w, i) PROVE \E s \in Subjects : Claim(w, s)
  BY <1>3, ClaimNextClaims
<1>4. CASE AbandonClaim(w)
  <2>1. UNCHANGED <<now, file, call>> /\ claim' = [claim EXCEPT ![w] = NoClaim]
    BY <1>4 DEF AbandonClaim
  <2>2. DOMAIN claim = Workers
    BY DEF LeaseInv, CoverageTyped
  <2>3. /\ DOMAIN claim' = Workers
        /\ \A v \in Workers : claim'[v] = NoClaim \/ claim'[v] = claim[v]
    BY <2>1, <2>2
  <2>4. CoverageTyped'
    BY <2>1, <2>3 DEF LeaseInv, CoverageTyped
  <2>5. \A v \in Workers : GrantedAt(v)'
    BY <2>1, <2>3 DEF LeaseInv, GrantedAt, currentClaim
  <2>6. GrantsDiffer'
    BY <2>3 DEF LeaseInv, GrantsDiffer
  <2> QED BY <2>4, <2>5, <2>6 DEF LeaseInv
<1>5. ASSUME holdsClaim(w), dropClaim(w), UNCHANGED <<now, call>>,
             \/ replaceEntry(claim[w].subject, requeued(file.entries[claim[w].subject]))
             \/ replaceEntry(claim[w].subject, asCompleted(file.entries[claim[w].subject]))
      PROVE  LeaseInv'
  <2>1. /\ claim[w] # NoClaim /\ file # NoFile /\ currentClaim(claim[w])
        /\ claim' = [claim EXCEPT ![w] = NoClaim] /\ UNCHANGED <<now, call>>
    BY <1>5 DEF holdsClaim, dropClaim, fresh
  <2>2. PICK x : x = file.entries[claim[w].subject]
    OBVIOUS
  <2>3. x \in Entries /\ now \in Nat
    BY <2>1, <2>2 DEF LeaseInv, CoverageTyped, FileOK, ClaimOK
  <2>4. PICK e : /\ replaceEntry(claim[w].subject, e)
                 /\ \/ e = [x EXCEPT !.state = "queued", !.lease = 0]
                    \/ e = [x EXCEPT !.state = "completed", !.completedAt = now, !.lease = 0]
    BY <1>5, <2>2 DEF requeued, asCompleted
  <2>5. e \in Entries /\ e.generation = x.generation
    <3>1. CASE e = [x EXCEPT !.state = "queued", !.lease = 0]
      BY <2>3, <3>1 DEF Entries
    <3>2. CASE e = [x EXCEPT !.state = "completed", !.completedAt = now, !.lease = 0]
      <4>1. PICK t \in Nat : t = now
        BY <2>3
      <4>2. e = [x EXCEPT !.state = "completed", !.completedAt = t, !.lease = 0]
        BY <3>2, <4>1
      <4> QED BY <2>3, <4>2 DEF Entries
    <3> QED BY <2>4, <3>1, <3>2
  <2> QED BY <2>1, <2>2, <2>4, <2>5, ReturnClaimKeeps
<1>6. CASE Retry(w) \/ Complete(w)
  BY <1>5, <1>6 DEF Retry, Complete, mayComplete
<1>7. CASE AnswerLost(w)
  <2>1. ASSUME NEW s \in Subjects, mayClaim(w, s), replaceEntry(s, claimed(file.entries[s], now)),
               dropClaim(w), UNCHANGED <<now, call>>
        PROVE  LeaseInv'
    <3>1. claim' = [claim EXCEPT ![w] = NoClaim]
      BY <2>1 DEF dropClaim
    <3>2. PICK e : e = claimed(file.entries[s], now) /\ replaceEntry(s, e)
      BY <2>1
    <3>3. PICK k \in {ScheduleClaim(file.plan, s, e), NoClaim} : k = NoClaim
      OBVIOUS
    <3> QED BY <2>1, <3>1, <3>2, <3>3, GrantKeeps
  <2> QED BY <1>5, <1>7, <2>1 DEF AnswerLost, mayComplete
<1> QED BY <1>1, <1>2, <1>3, <1>4, <1>6, <1>7 DEF WorkerStep

\* A lifecycle call that goes on keeps its time.
LEMMA CallMoves ==
  ASSUME CoverageTyped, NEW p \in Processes,
         NEW next \in {"idle", "open", "load", "rebalance", "record", "done", "failed"}, step(p, next)
  PROVE  /\ call' \in [Processes -> [step : {"idle", "open", "load", "rebalance", "record", "done", "failed"},
                                     at : Nat]]
         /\ \A q \in Processes : call'[q].at <= now
<1>1. call' = [call EXCEPT ![p].step = next]
  BY DEF step
<1>2. call \in [Processes -> [step : {"idle", "open", "load", "rebalance", "record", "done", "failed"},
                              at : Nat]]
  BY DEF CoverageTyped
<1>3. \A q \in Processes : call'[q].at = call[q].at
  BY <1>1, <1>2
<1> QED BY <1>1, <1>2, <1>3 DEF CoverageTyped

\* No claim is live when the file may move on to a plan.
LEMMA MovesOnUnclaimed ==
  ASSUME LeaseInv, file # NoFile, NEW plan \in Plans, plan.start <= now, mayRebalance(plan)
  PROVE  \A w \in Workers : claim[w] # NoClaim => ~(now < claim[w].lease)
<1> SUFFICES ASSUME NEW w \in Workers, claim[w] # NoClaim, now < claim[w].lease PROVE FALSE
  OBVIOUS
<1>1. claim[w].subject \in Subjects /\ claim[w].lease \in Nat /\ currentClaim(claim[w])
  BY DEF LeaseInv, CoverageTyped, ClaimOK, GrantedAt
<1>2. /\ file.entries[claim[w].subject].state = "claimed"
      /\ file.entries[claim[w].subject].lease = claim[w].lease
  BY <1>1 DEF currentClaim, ScheduleClaim
<1>3. ~(claim[w].lease > plan.start)
  BY <1>1, <1>2 DEF mayRebalance
<1>4. plan.start \in Nat /\ now \in Nat
  BY PlanTyped DEF LeaseInv, CoverageTyped
<1> QED BY <1>1, <1>3, <1>4

\* What a step of a lifecycle call does to the file: nothing, create it, move
\* it to the plan of the call, or record the time of its receipt.
LifecycleFile(p, plan) ==
  \/ file' = file
  \/ file = NoFile /\ file' = [plan |-> plan, entries |-> NewScheduleCoverageLedger,
                               latest |-> NotRecorded, previous |-> NoReceipt]
  \/ file # NoFile /\ mayRebalance(plan) /\ file' = rebalanced(plan)
  \/ file # NoFile /\ file' = recorded(p)

LEMMA LifecycleWrites ==
  ASSUME NEW p \in Processes, LifecycleStep(p) PROVE LifecycleFile(p, ownPlan(p))
BY DEF LifecycleStep, OpenAuthority, LoadForTransition, Rebalance, RecordCoverage, CallFails, fresh,
   LifecycleFile

\* Recording the time of a receipt changes nothing else of the file.
LEMMA RecordedFile ==
  ASSUME CoverageTyped, NEW p \in Processes, file # NoFile, file' = recorded(p)
  PROVE  /\ file' # NoFile /\ FileOK(file')
         /\ file'.plan = file.plan /\ file'.entries = file.entries /\ file'.previous = file.previous
<1>1. FileOK(file)
  BY DEF CoverageTyped
<1>2. file' = [plan |-> file.plan, entries |-> file.entries, latest |-> call[p].at,
               previous |-> file.previous]
  BY <1>1 DEF FileOK, recorded
<1>3. /\ file'.plan = file.plan /\ file'.entries = file.entries
      /\ file'.latest = call[p].at /\ file'.previous = file.previous
  BY <1>2
<1>4. file' # NoFile
  BY <1>1, <1>3, PlanTyped DEF FileOK, NoFile, NoPlan
<1>5. FileOK(file')
  BY <1>1, <1>2, <1>3 DEF FileOK
<1> QED BY <1>3, <1>4, <1>5

LEMMA LifecycleKeeps == ASSUME LeaseInv, NEW p \in Processes, LifecycleStep(p) PROVE LeaseInv'
<1>1. CoverageTyped /\ now \in now .. MaxTime
  BY CoverageConfiguration DEF LeaseInv, CoverageTyped
<1>2. PICK plan \in Plans : plan = ownPlan(p) /\ plan.start <= now
  BY <1>1, OwnPlan
<1>3. UNCHANGED <<now, claim>>
  BY DEF LifecycleStep, OpenAuthority, LoadForTransition, Rebalance, RecordCoverage, CallFails
<1>4. PICK next \in {"idle", "open", "load", "rebalance", "record", "done", "failed"} : step(p, next)
  BY DEF LifecycleStep, OpenAuthority, LoadForTransition, Rebalance, RecordCoverage, CallFails, return
<1>5. /\ call' \in [Processes -> [step : {"idle", "open", "load", "rebalance", "record", "done", "failed"},
                                  at : Nat]]
      /\ \A q \in Processes : call'[q].at <= now
  BY <1>1, <1>4, CallMoves
<1>6. LifecycleFile(p, plan)
  BY <1>2, LifecycleWrites
<1>7. CASE file' = file
  BY <1>1, <1>3, <1>5, <1>7, SameLedgerStep
<1>8. CASE file # NoFile /\ file' = recorded(p)
  BY <1>1, <1>3, <1>5, <1>8, RecordedFile, SameLedgerStep
<1>9. CASE file = NoFile /\ file' = [plan |-> plan, entries |-> NewScheduleCoverageLedger,
                                     latest |-> NotRecorded, previous |-> NoReceipt]
  <2>1. \A w \in Workers : claim[w] = NoClaim
    BY <1>9 DEF LeaseInv, GrantedAt
  <2> QED BY <1>3, <1>5, <1>9, <2>1, NewPlanStep
<1>10. CASE file # NoFile /\ mayRebalance(plan) /\ file' = rebalanced(plan)
  <2>1. \A w \in Workers : claim[w] # NoClaim => ~(now < claim[w].lease)
    BY <1>2, <1>10, MovesOnUnclaimed
  <2>2. plan.start > file.plan.start
    BY <1>10 DEF mayRebalance
  <2>3. PICK previous : file' = [plan |-> plan, entries |-> NewScheduleCoverageLedger,
                                 latest |-> NotRecorded, previous |-> previous]
    BY <1>10 DEF rebalanced
  <2> QED BY <1>3, <1>5, <2>1, <2>2, <2>3, NewPlanStep
<1> QED BY <1>6, <1>7, <1>8, <1>9, <1>10 DEF LifecycleFile

LEMMA ProcessDueKeeps == ASSUME LeaseInv, NEW p \in Processes, ProcessDue(p) PROVE LeaseInv'
<1>1. UNCHANGED <<now, file, claim>> /\ call' = [call EXCEPT ![p] = [step |-> "open", at |-> intervalOf(now)]]
  BY DEF ProcessDue
<1>2. now \in Nat /\ Interval \in Nat \ {0} /\ now \in now .. MaxTime
  BY CoverageConfiguration DEF LeaseInv, CoverageTyped
<1>3. PICK i : i = intervalOf(now)
  OBVIOUS
<1>4. i \in Nat /\ i <= now
  BY <1>2, <1>3 DEF intervalOf
<1>5. call \in [Processes -> [step : {"idle", "open", "load", "rebalance", "record", "done", "failed"},
                              at : Nat]] /\ \A q \in Processes : call[q].at <= now
  BY DEF LeaseInv, CoverageTyped
<1>6. call' \in [Processes -> [step : {"idle", "open", "load", "rebalance", "record", "done", "failed"},
                               at : Nat]] /\ \A q \in Processes : call'[q].at <= now
  BY <1>1, <1>3, <1>4, <1>5
<1> QED BY <1>1, <1>2, <1>6, SameLedgerStep

LEMMA NextLeases == LeaseInv /\ [Next]_vars => LeaseInv'
<1> SUFFICES ASSUME LeaseInv, [Next]_vars PROVE LeaseInv'
  OBVIOUS
<1>1. CASE UNCHANGED <<now, file, call, claim>>
  BY <1>1 DEF LeaseInv, CoverageTyped, GrantedAt, GrantsDiffer, currentClaim
<1>2. CASE CoverageStep
  BY <1>2, ProcessDueKeeps, LifecycleKeeps, WorkerKeeps DEF CoverageStep
<1>3. CASE BeginPass
  BY <1>1, <1>3, ProcessDueKeeps, CanaryConfiguration DEF BeginPass
<1>4. ASSUME NEW c \in Canaries, PassStep(c) PROVE UNCHANGED <<now, file, call, claim>>
  BY <1>4 DEF PassStep, NotDue, Reschedule, NoCapacity, ClaimSlot
<1>5. ASSUME NEW c \in Canaries, RunStep(c) PROVE UNCHANGED <<now, file, call, claim>>
  BY <1>5 DEF RunStep, Stage, StagingFails, ProbeLeavesNoReceipt, ProbeReports, Deliver,
     ReportMissingReceipt, ReturnPermit, EndRun, UnchangedInRun
<1>6. CoverageFailed \/ UNCHANGED vars => UNCHANGED <<now, file, call, claim>>
  BY DEF CoverageFailed, vars
<1>7. now \in Nat /\ MaxTime \in Nat /\ now \in now .. MaxTime
  BY CoverageConfiguration DEF LeaseInv, CoverageTyped
<1>8. call \in [Processes -> [step : {"idle", "open", "load", "rebalance", "record", "done", "failed"},
                              at : Nat]] /\ \A q \in Processes : call[q].at <= now
  BY DEF LeaseInv, CoverageTyped
<1>9. CASE Crash
  <2>1. UNCHANGED <<now, file, claim>> /\ call' = [call EXCEPT ![Scheduler] = Idle]
    BY <1>9 DEF Crash
  <2>2. call' \in [Processes -> [step : {"idle", "open", "load", "rebalance", "record", "done", "failed"},
                                 at : Nat]] /\ \A q \in Processes : call'[q].at <= now
    <3>1. PICK idle : idle = Idle
      OBVIOUS
    <3>2. idle \in [step : {"idle", "open", "load", "rebalance", "record", "done", "failed"}, at : Nat]
          /\ idle.at <= now
      BY <1>7, <3>1 DEF Idle
    <3>3. call' = [call EXCEPT ![Scheduler] = idle]
      BY <2>1, <3>1
    <3> QED BY <1>8, <3>2, <3>3
  <2> QED BY <1>7, <2>1, <2>2, SameLedgerStep
<1>10. CASE Tick
  <2>1. UNCHANGED <<file, claim, call>> /\ now < MaxTime /\ now' = now + 1
    BY <1>10 DEF Tick
  <2>2. now' \in now .. MaxTime
    BY <1>7, <2>1
  <2>3. \A q \in Processes : call[q].at <= now'
    BY <1>7, <1>8, <2>1
  <2> QED BY <1>8, <2>1, <2>2, <2>3, SameLedgerStep
<1> QED BY <1>1, <1>2, <1>3, <1>4, <1>5, <1>6, <1>9, <1>10 DEF Next

LEMMA LeaseInvHolds == Spec => []LeaseInv
<1>1. Init => LeaseInv
  <2> SUFFICES ASSUME Init PROVE LeaseInv
    OBVIOUS
  <2>1. now \in 0 .. MaxTime
    BY CoverageConfiguration DEF Init, CoverageInit
  <2>2. CoverageTyped
    BY <2>1 DEF Init, CoverageInit, CoverageTyped, Idle
  <2> QED BY <2>2 DEF Init, CoverageInit, LeaseInv, GrantedAt, GrantsDiffer
<1> QED BY <1>1, NextLeases, PTL DEF Spec

\* For any number of processes with any shard counts and any number of
\* workers, while its lease runs a claim is the one the state file holds:
\* neither another worker nor a process that moves to the next plan takes it.
THEOREM LeasesAreHonoured == Spec => []LeaseHonoured
<1>1. LeaseInv => LeaseHonoured
  BY DEF LeaseInv, GrantedAt, LeaseHonoured
<1> QED BY <1>1, LeaseInvHolds, PTL
-----------------------------------------------------------------------------
(* Completions are counted.                                                 *)

\* The completions that reached the file, whether or not a worker was told.
committed == done \cup unsure

Done == [plan : Plans, subject : Subjects, at : Nat]

\* What was completed under the plan of the file is what its
\* entries say, and of no other plan of that interval.
EntriesCounted ==
  /\ \A d \in committed : d.plan.start <= file.plan.start
  /\ \A d \in committed : d.plan.start = file.plan.start =>
       /\ d.plan = file.plan
       /\ file.entries[d.subject].state = "completed" /\ file.entries[d.subject].completedAt = d.at
  /\ \A s \in Subjects : file.entries[s].state = "completed" =>
       [plan |-> file.plan, subject |-> s, at |-> file.entries[s].completedAt] \in committed

countedBy(plan, at) == {d \in committed : d.plan = plan /\ d.at <= at}

\* Each shard of a receipt counts what was completed in it.
ReceiptCounted(r) ==
  /\ r.plan \in Plans /\ r.plan.start < file.plan.start
  /\ DOMAIN r.shards = 0 .. r.plan.shards - 1
  /\ \A i \in DOMAIN r.shards :
       r.shards[i].completed =
         Cardinality({d \in countedBy(r.plan, r.observedAt) : scheduleShard(d.subject, d.plan) = i})

CompletionInv ==
  /\ committed \subseteq Done /\ IsFiniteSet(committed)
  /\ IF file = NoFile
     THEN committed = {}
     ELSE EntriesCounted /\ (file.previous # NoReceipt => ReceiptCounted(file.previous))

\* The shard of a subject is one of the plan's.
LEMMA ShardInPlan ==
  ASSUME NEW plan \in Plans, NEW s \in Subjects
  PROVE  plan.shards \in Nat \ {0} /\ scheduleShard(s, plan) \in 0 .. plan.shards - 1
<1>1. PICK p \in Processes : plan.shards = ShardCount[p]
  BY DEF Plans
<1> QED BY <1>1, CoverageConfiguration DEF scheduleShard

\* A shard of the receipt of the file's plan counts what was
\* completed in it by then: entries and completions correspond one to one.
LEMMA ShardCounted ==
  ASSUME LeaseInv, CompletionInv, file # NoFile, NEW at, NEW i
  PROVE  shardCounts(file.plan, file.entries, i, at).completed =
           Cardinality({d \in countedBy(file.plan, at) : scheduleShard(d.subject, d.plan) = i})
<1>1. PICK C : C = {s \in {u \in Subjects : scheduleShard(u, file.plan) = i} :
                      file.entries[s].state = "completed" /\ file.entries[s].completedAt <= at}
  OBVIOUS
<1>2. PICK T : T = {d \in countedBy(file.plan, at) : scheduleShard(d.subject, d.plan) = i}
  OBVIOUS
<1>3. shardCounts(file.plan, file.entries, i, at).completed = Cardinality(C)
  BY <1>1 DEF shardCounts
<1>4. PICK g : g = [s \in C |-> [plan |-> file.plan, subject |-> s, at |-> file.entries[s].completedAt]]
  OBVIOUS
<1>5. IsFiniteSet(C)
  <2>1. C \in SUBSET Subjects
    BY <1>1
  <2> QED BY <2>1, FS_Subset, CoverageConfiguration
<1>6. EntriesCounted /\ committed \subseteq Done
  BY DEF CompletionInv
<1>7. ASSUME NEW s \in C
      PROVE  /\ g[s] \in T /\ g[s].subject = s
  <2>1. /\ s \in Subjects /\ scheduleShard(s, file.plan) = i
        /\ file.entries[s].state = "completed" /\ file.entries[s].completedAt <= at
    BY <1>1
  <2>2. /\ g[s] = [plan |-> file.plan, subject |-> s, at |-> file.entries[s].completedAt]
        /\ g[s].plan = file.plan /\ g[s].subject = s /\ g[s].at = file.entries[s].completedAt
    BY <1>4
  <2>3. g[s] \in committed
    BY <1>6, <2>1, <2>2 DEF EntriesCounted
  <2> QED BY <1>2, <2>1, <2>2, <2>3 DEF countedBy
<1>8. ASSUME NEW d \in T PROVE d.subject \in C /\ g[d.subject] = d
  <2>1. /\ d \in committed /\ d \in Done /\ d.plan = file.plan /\ d.at <= at
        /\ scheduleShard(d.subject, d.plan) = i
    BY <1>2, <1>6 DEF countedBy
  <2>2. d.subject \in Subjects /\ d = [plan |-> d.plan, subject |-> d.subject, at |-> d.at]
    BY <2>1 DEF Done
  <2>3. file.entries[d.subject].state = "completed" /\ file.entries[d.subject].completedAt = d.at
    BY <1>6, <2>1 DEF EntriesCounted
  <2>4. d.subject \in C
    BY <1>1, <2>1, <2>2, <2>3
  <2> QED BY <1>4, <2>1, <2>2, <2>3, <2>4
<1>9. g \in Bijection(C, T)
  <2>1. g \in [C -> T]
    BY <1>4, <1>7
  <2>2. \A a, b \in C : g[a] = g[b] => a = b
    BY <1>7
  <2>3. \A d \in T : \E s \in C : g[s] = d
    BY <1>8
  <2> QED BY <2>1, <2>2, <2>3 DEF Bijection, Injection, Surjection, IsInjective
<1>10. ExistsBijection(C, T)
  BY <1>9 DEF ExistsBijection
<1> QED BY <1>2, <1>3, <1>5, <1>10, FS_Bijection

\* A kept receipt outlives any step that completes nothing and keeps the plan.
LEMMA ReceiptKept ==
  ASSUME CompletionInv, file # NoFile, committed' = committed, file'.plan = file.plan, file'.previous = file.previous
  PROVE  (file.previous # NoReceipt => ReceiptCounted(file.previous))'
<1>1. PICK r : r = file.previous
  OBVIOUS
<1>2. ReceiptCounted(r) => ReceiptCounted(r)'
  BY DEF ReceiptCounted, countedBy
<1>3. r # NoReceipt => ReceiptCounted(r)
  BY <1>1 DEF CompletionInv
<1>4. file'.previous = r
  BY <1>1
<1>5. r # NoReceipt => ReceiptCounted(r)'
  BY <1>2, <1>3
<1>6. NoReceipt' = NoReceipt
  BY DEF NoReceipt, NoPlan
<1> QED BY <1>4, <1>5, <1>6 DEF ReceiptCounted, countedBy

\* Steps that complete nothing and change no entry, plan or kept receipt.
LEMMA UncountedStep ==
  ASSUME CompletionInv, committed' = committed,
         file' = file \/ (file # NoFile /\ file' # NoFile /\ file'.plan = file.plan
                            /\ file'.entries = file.entries /\ file'.previous = file.previous)
  PROVE  CompletionInv'
<1>1. CASE file' = file
  BY <1>1 DEF CompletionInv, EntriesCounted, ReceiptCounted, countedBy
<1>2. CASE file' # file
  <2>1. /\ file # NoFile /\ file' # NoFile /\ file'.plan = file.plan
        /\ file'.entries = file.entries /\ file'.previous = file.previous
    BY <1>2
  <2>2. EntriesCounted'
    BY <2>1 DEF CompletionInv, EntriesCounted
  <2>3. (file.previous # NoReceipt => ReceiptCounted(file.previous))'
    BY <2>1, ReceiptKept
  <2> QED BY <2>1, <2>2, <2>3 DEF CompletionInv
<1> QED BY <1>1, <1>2

\* The fields of the file once the entry of a subject is replaced.
LEMMA EntryReplaced ==
  ASSUME LeaseInv, file # NoFile, NEW s \in Subjects, NEW e, replaceEntry(s, e)
  PROVE  /\ file' # NoFile /\ file'.plan = file.plan /\ file'.previous = file.previous
         /\ file'.entries[s] = e
         /\ \A u \in Subjects : u # s => file'.entries[u] = file.entries[u]
<1>1. FileOK(file)
  BY DEF LeaseInv, CoverageTyped
<1>2. PICK entries : entries = [file.entries EXCEPT ![s] = e]
  OBVIOUS
<1>3. entries[s] = e /\ \A u \in Subjects : u # s => entries[u] = file.entries[u]
  BY <1>1, <1>2 DEF FileOK
<1>4. file' = [file EXCEPT !.entries = entries]
  BY <1>2 DEF replaceEntry
<1>5. file' = [plan |-> file.plan, entries |-> entries, latest |-> file.latest, previous |-> file.previous]
  BY <1>1, <1>4 DEF FileOK
<1>6. file'.plan = file.plan /\ file'.entries = entries /\ file'.previous = file.previous
  BY <1>5
<1>7. file'.plan # NoPlan /\ NoFile.plan = NoPlan
  BY <1>1, <1>6, PlanTyped DEF FileOK, NoPlan, NoFile
<1> QED BY <1>3, <1>6, <1>7

\* An entry that is not completed is claimed or given back.
LEMMA UncompletedStep ==
  ASSUME LeaseInv, CompletionInv, file # NoFile, committed' = committed, NEW s \in Subjects, NEW e,
         replaceEntry(s, e), file.entries[s].state # "completed", e.state # "completed"
  PROVE  CompletionInv'
<1>1. /\ file' # NoFile /\ file'.plan = file.plan /\ file'.previous = file.previous
      /\ file'.entries[s] = e
      /\ \A u \in Subjects : u # s => file'.entries[u] = file.entries[u]
  BY EntryReplaced
<1>2. EntriesCounted /\ committed \subseteq Done
  BY DEF CompletionInv
<1>3. EntriesCounted'
  <2>1. \A d \in committed : d.subject \in Subjects
    BY <1>2 DEF Done
  <2> QED BY <1>1, <1>2, <2>1 DEF EntriesCounted
<1>4. (file.previous # NoReceipt => ReceiptCounted(file.previous))'
  BY <1>1, ReceiptKept
<1> QED BY <1>1, <1>3, <1>4 DEF CompletionInv

\* An entry is replaced by a completed one; it was not completed before.
LEMMA CompleteCounts ==
  ASSUME LeaseInv, CompletionInv, NEW w \in Workers, mayComplete(w),
         replaceEntry(claim[w].subject, asCompleted(file.entries[claim[w].subject])),
         committed' = committed \cup {completion(w)}
  PROVE  CompletionInv' /\ completion(w) \notin committed
<1>1. file # NoFile /\ claim[w] # NoClaim /\ currentClaim(claim[w])
  BY DEF mayComplete, holdsClaim, fresh
<1>2. PICK s \in Subjects : s = claim[w].subject
  BY <1>1 DEF LeaseInv, CoverageTyped, ClaimOK
<1>3. FileOK(file) /\ now \in Nat /\ file.entries[s] \in Entries /\ file.entries[s].state = "claimed"
  BY <1>1, <1>2 DEF LeaseInv, CoverageTyped, FileOK, currentClaim
<1>4. PICK x : x = file.entries[s]
  OBVIOUS
<1>5. PICK e : e = [x EXCEPT !.state = "completed", !.completedAt = now, !.lease = 0]
  OBVIOUS
<1>6. replaceEntry(s, e)
  BY <1>2, <1>4, <1>5 DEF asCompleted
<1>7. e.state = "completed" /\ e.completedAt = now
  BY <1>3, <1>4, <1>5 DEF Entries
<1>8. /\ file' # NoFile /\ file'.plan = file.plan /\ file'.previous = file.previous
      /\ file'.entries[s] = e
      /\ \A u \in Subjects : u # s => file'.entries[u] = file.entries[u]
  BY <1>1, <1>6, EntryReplaced
<1>9. PICK n : n = [plan |-> file.plan, subject |-> s, at |-> now]
  OBVIOUS
<1>10. committed' = committed \cup {n}
  BY <1>2, <1>9 DEF completion
<1>11. n \in Done /\ n.plan = file.plan /\ n.subject = s /\ n.at = now
  BY <1>3, <1>9 DEF Done, FileOK
<1>12. EntriesCounted /\ committed \subseteq Done /\ IsFiniteSet(committed)
  BY <1>1 DEF CompletionInv
<1>13. IsFiniteSet(committed') /\ committed' \subseteq Done
  BY <1>10, <1>11, <1>12, FS_AddElement
<1>14. file.plan.start \in Nat
  BY <1>3, PlanTyped DEF FileOK
<1>15. EntriesCounted'
  <2>1. ASSUME NEW d \in committed PROVE d.subject \in Subjects /\ (d.plan.start = file.plan.start => d.subject # s)
    BY <1>3, <1>12 DEF EntriesCounted, Done
  <2>2. \A d \in committed' : d.plan.start <= file.plan.start
    BY <1>10, <1>11, <1>12, <1>14 DEF EntriesCounted
  <2>3. ASSUME NEW d \in committed', d.plan.start = file.plan.start
        PROVE  /\ d.plan = file.plan
               /\ file'.entries[d.subject].state = "completed"
               /\ file'.entries[d.subject].completedAt = d.at
    <3>1. CASE d = n
      BY <1>7, <1>8, <1>11, <3>1
    <3>2. CASE d \in committed
      BY <1>8, <1>12, <2>1, <2>3, <3>2 DEF EntriesCounted
    <3> QED BY <1>10, <3>1, <3>2
  <2>4. ASSUME NEW u \in Subjects, file'.entries[u].state = "completed"
        PROVE  [plan |-> file.plan, subject |-> u, at |-> file'.entries[u].completedAt] \in committed'
    <3>1. CASE u = s
      BY <1>7, <1>8, <1>9, <1>10, <3>1
    <3>2. CASE u # s
      BY <1>8, <1>10, <1>12, <2>4, <3>2 DEF EntriesCounted
    <3> QED BY <3>1, <3>2
  <2> QED BY <1>8, <2>2, <2>3, <2>4 DEF EntriesCounted
<1>16. ASSUME file.previous # NoReceipt PROVE ReceiptCounted(file.previous)'
  <2>1. ReceiptCounted(file.previous)
    BY <1>1, <1>16 DEF CompletionInv
  <2>2. PICK r : r = file.previous
    OBVIOUS
  <2>3. r.plan \in Plans /\ r.plan.start < file.plan.start
    BY <2>1, <2>2 DEF ReceiptCounted
  <2>4. n.plan # r.plan
    BY <1>11, <1>14, <2>3
  <2>5. {d \in committed' : d.plan = r.plan /\ d.at <= r.observedAt} =
        {d \in committed : d.plan = r.plan /\ d.at <= r.observedAt}
    BY <1>10, <2>4
  <2> QED BY <1>8, <2>1, <2>2, <2>5 DEF ReceiptCounted, countedBy
<1>17. n \notin committed
  BY <1>3, <1>11, <1>12 DEF EntriesCounted
<1> QED BY <1>2, <1>8, <1>9, <1>13, <1>15, <1>16, <1>17 DEF CompletionInv, completion

\* The file moves to a later plan and keeps the receipt of its own.
LEMMA RebalanceCounts ==
  ASSUME LeaseInv, CompletionInv, file # NoFile, committed' = committed, NEW plan \in Plans,
         mayRebalance(plan), file' = rebalanced(plan)
  PROVE  CompletionInv'
<1>1. PICK r : r = CoverageReceipt(file.plan, file.entries, plan.start)
  OBVIOUS
<1>2. file' = [plan |-> plan, entries |-> NewScheduleCoverageLedger, latest |-> NotRecorded, previous |-> r]
  BY <1>1 DEF rebalanced
<1>3. file'.plan = plan /\ file'.entries = NewScheduleCoverageLedger /\ file'.previous = r /\ file' # NoFile
  BY <1>2, NewFile
<1>4. FileOK(file) /\ file.plan.start \in Nat /\ plan.start \in Nat /\ file.plan.start < plan.start
  BY PlanTyped DEF LeaseInv, CoverageTyped, FileOK, mayRebalance
<1>5. EntriesCounted /\ committed \subseteq Done
  BY DEF CompletionInv
<1>6. \A s \in Subjects : NewScheduleCoverageLedger[s].state = "queued"
  BY DEF NewScheduleCoverageLedger
<1>7. ASSUME NEW d \in committed PROVE d.plan.start <= plan.start /\ d.plan.start # plan.start
  <2>1. d.plan.start \in Nat /\ d.plan.start <= file.plan.start
    BY <1>5, PlanTyped DEF EntriesCounted, Done
  <2> QED BY <1>4, <2>1
<1>8. EntriesCounted'
  BY <1>3, <1>6, <1>7 DEF EntriesCounted
<1>9. /\ r.plan = file.plan /\ r.observedAt = plan.start
      /\ r.shards = [i \in 0 .. file.plan.shards - 1 |-> shardCounts(file.plan, file.entries, i, plan.start)]
  BY <1>1 DEF CoverageReceipt
<1>10. ASSUME NEW i \in DOMAIN r.shards
       PROVE  r.shards[i].completed =
                Cardinality({d \in countedBy(r.plan, r.observedAt) : scheduleShard(d.subject, d.plan) = i})
  <2>1. r.shards[i].completed = shardCounts(file.plan, file.entries, i, plan.start).completed
    BY <1>9
  <2> QED BY <1>9, <2>1, ShardCounted
<1>11. DOMAIN r.shards = 0 .. r.plan.shards - 1 /\ r.plan \in Plans
  BY <1>4, <1>9 DEF FileOK
<1>12. ReceiptCounted(file.previous)'
  BY ZenonT(60), <1>3, <1>4, <1>9, <1>10, <1>11 DEF ReceiptCounted, countedBy
<1> QED BY <1>3, <1>5, <1>8, <1>12 DEF CompletionInv

\* The first file has no completions to tell of.
LEMMA CreateCounts ==
  ASSUME CompletionInv, file = NoFile, committed' = committed, NEW plan \in Plans,
         file' = [plan |-> plan, entries |-> NewScheduleCoverageLedger,
                  latest |-> NotRecorded, previous |-> NoReceipt]
  PROVE  CompletionInv'
<1>1. /\ file'.plan = plan /\ file'.entries = NewScheduleCoverageLedger
      /\ file'.previous = NoReceipt /\ file' # NoFile
  BY NewFile
<1>2. committed' = {}
  BY DEF CompletionInv
<1>3. \A s \in Subjects : NewScheduleCoverageLedger[s].state = "queued"
  BY DEF NewScheduleCoverageLedger
<1>4. EntriesCounted'
  BY <1>1, <1>2, <1>3 DEF EntriesCounted
<1> QED BY <1>1, <1>2, <1>4, FS_EmptySet DEF CompletionInv

\* A free subject is claimed.
LEMMA GrantCounts ==
  ASSUME LeaseInv, CompletionInv, NEW w \in Workers, NEW s \in Subjects, mayClaim(w, s),
         replaceEntry(s, claimed(file.entries[s], now)), committed' = committed
  PROVE  CompletionInv'
<1>1. file # NoFile /\ file.entries[s].state # "completed"
  BY DEF mayClaim, fresh, claimable
<1>2. PICK e : e = claimed(file.entries[s], now)
  OBVIOUS
<1>3. replaceEntry(s, e)
  BY <1>2
<1>4. file.entries[s] \in Entries
  BY <1>1 DEF LeaseInv, CoverageTyped, FileOK
<1>5. e.state = "claimed"
  BY <1>2, <1>4 DEF claimed, Entries
<1> QED BY <1>1, <1>3, <1>5, UncompletedStep

\* A claim is given back.
LEMMA RequeueCounts ==
  ASSUME LeaseInv, CompletionInv, NEW w \in Workers, holdsClaim(w),
         replaceEntry(claim[w].subject, requeued(file.entries[claim[w].subject])),
         committed' = committed
  PROVE  CompletionInv'
<1>1. file # NoFile /\ claim[w] # NoClaim /\ currentClaim(claim[w])
  BY DEF holdsClaim, fresh
<1>2. PICK s \in Subjects : s = claim[w].subject
  BY <1>1 DEF LeaseInv, CoverageTyped, ClaimOK
<1>3. PICK e : e = [file.entries[s] EXCEPT !.state = "queued", !.lease = 0]
  OBVIOUS
<1>4. replaceEntry(s, e)
  BY <1>2, <1>3 DEF requeued
<1>5. file.entries[s].state = "claimed" /\ file.entries[s] \in Entries
  BY <1>1, <1>2 DEF currentClaim, LeaseInv, CoverageTyped, FileOK
<1>6. e.state = "queued"
  BY <1>3, <1>5 DEF Entries
<1> QED BY <1>1, <1>4, <1>5, <1>6, UncompletedStep

\* A completion is told to its worker or its answer is lost, never both.
Apart == done \cap unsure = {}

LEMMA WorkerCounts ==
  ASSUME LeaseInv, CompletionInv, Apart, NEW w \in Workers, WorkerStep(w)
  PROVE  CompletionInv' /\ Apart'
<1>1. CASE LoadAuthority(w) \/ AbandonClaim(w)
  <2>1. UNCHANGED <<file, done, unsure>>
    BY <1>1 DEF LoadAuthority, AbandonClaim
  <2> QED BY <2>1, UncountedStep DEF committed, Apart
<1>2. ASSUME NEW s \in Subjects, Claim(w, s) PROVE CompletionInv' /\ Apart'
  <2>1. /\ mayClaim(w, s) /\ replaceEntry(s, claimed(file.entries[s], now))
        /\ UNCHANGED <<done, unsure>>
    BY <1>2 DEF Claim
  <2> QED BY <2>1, GrantCounts DEF committed, Apart
<1>3. ASSUME NEW i, ClaimNext(w, i) PROVE \E s \in Subjects : Claim(w, s)
  BY <1>3, ClaimNextClaims
<1>4. CASE Retry(w)
  <2>1. /\ holdsClaim(w) /\ UNCHANGED <<done, unsure>>
        /\ replaceEntry(claim[w].subject, requeued(file.entries[claim[w].subject]))
    BY <1>4 DEF Retry
  <2> QED BY <2>1, RequeueCounts DEF committed, Apart
<1>5. ASSUME mayComplete(w),
             replaceEntry(claim[w].subject, asCompleted(file.entries[claim[w].subject])),
             \/ done' = done \cup {completion(w)} /\ unsure' = unsure
             \/ done' = done /\ unsure' = unsure \cup {completion(w)}
      PROVE  CompletionInv' /\ Apart'
  <2>1. committed' = committed \cup {completion(w)}
    BY <1>5 DEF committed
  <2>2. CompletionInv' /\ completion(w) \notin committed
    BY <1>5, <2>1, CompleteCounts
  <2>3. Apart'
    BY <1>5, <2>2 DEF committed, Apart
  <2> QED BY <2>2, <2>3
<1>6. CASE Complete(w)
  BY <1>5, <1>6 DEF Complete
<1>7. CASE AnswerLost(w)
  <2>1. ASSUME NEW s \in Subjects, mayClaim(w, s), replaceEntry(s, claimed(file.entries[s], now)),
               UNCHANGED <<done, unsure>>
        PROVE  CompletionInv' /\ Apart'
    BY <2>1, GrantCounts DEF committed, Apart
  <2>2. ASSUME holdsClaim(w), UNCHANGED <<done, unsure>>,
               replaceEntry(claim[w].subject, requeued(file.entries[claim[w].subject]))
        PROVE  CompletionInv' /\ Apart'
    BY <2>2, RequeueCounts DEF committed, Apart
  <2> QED BY <1>5, <1>7, <2>1, <2>2 DEF AnswerLost
<1> QED BY <1>1, <1>2, <1>3, <1>4, <1>6, <1>7 DEF WorkerStep

LEMMA LifecycleCounts ==
  ASSUME LeaseInv, CompletionInv, NEW p \in Processes, LifecycleStep(p)
  PROVE  CompletionInv' /\ UNCHANGED <<done, unsure>>
<1>1. CoverageTyped
  BY DEF LeaseInv
<1>2. PICK plan \in Plans : plan = ownPlan(p)
  BY <1>1, OwnPlan
<1>3. UNCHANGED <<done, unsure>> /\ committed' = committed
  BY DEF LifecycleStep, OpenAuthority, LoadForTransition, Rebalance, RecordCoverage, CallFails, committed
<1>4. LifecycleFile(p, plan)
  BY <1>2, LifecycleWrites
<1>5. CASE file' = file
  BY <1>3, <1>5, UncountedStep
<1>6. CASE file # NoFile /\ file' = recorded(p)
  BY <1>1, <1>3, <1>6, RecordedFile, UncountedStep
<1> QED BY <1>3, <1>4, <1>5, <1>6, CreateCounts, RebalanceCounts DEF LifecycleFile

LEMMA NextCounts ==
  LeaseInv /\ CompletionInv /\ Apart /\ [Next]_vars => CompletionInv' /\ Apart'
<1> SUFFICES ASSUME LeaseInv, CompletionInv, Apart, [Next]_vars PROVE CompletionInv' /\ Apart'
  OBVIOUS
<1>1. CASE UNCHANGED <<file, done, unsure>>
  BY <1>1, UncountedStep DEF committed, Apart
<1>2. ASSUME NEW p \in Processes, ProcessDue(p) PROVE UNCHANGED <<file, done, unsure>>
  BY <1>2 DEF ProcessDue
<1>3. CASE CoverageStep
  <2>1. ASSUME NEW p \in Processes, LifecycleStep(p) PROVE CompletionInv' /\ Apart'
    BY <2>1, LifecycleCounts DEF Apart
  <2> QED BY <1>1, <1>2, <1>3, <2>1, WorkerCounts DEF CoverageStep
<1>4. CASE BeginPass
  BY <1>1, <1>2, <1>4, CanaryConfiguration DEF BeginPass
<1>5. ASSUME NEW c \in Canaries, PassStep(c) PROVE UNCHANGED <<file, done, unsure>>
  BY <1>5 DEF PassStep, NotDue, Reschedule, NoCapacity, ClaimSlot
<1>6. ASSUME NEW c \in Canaries, RunStep(c) PROVE UNCHANGED <<file, done, unsure>>
  BY <1>6 DEF RunStep, Stage, StagingFails, ProbeLeavesNoReceipt, ProbeReports, Deliver,
     ReportMissingReceipt, ReturnPermit, EndRun, UnchangedInRun
<1>7. CoverageFailed \/ Crash \/ Tick \/ UNCHANGED vars => UNCHANGED <<file, done, unsure>>
  BY DEF CoverageFailed, Crash, Tick, vars
<1> QED BY <1>1, <1>3, <1>4, <1>5, <1>6, <1>7 DEF Next

-----------------------------------------------------------------------------
(* The sum over the shards.                                                 *)

\* The operators of the sum over the shards, unfolded: the element that a
\* step of the fold takes, and the function that the fold is.
first(s) == CHOOSE x \in s : TRUE

sums(f, shards, D) ==
  [s \in SUBSET D |-> IF s = {} THEN 0 ELSE shards[first(s)].completed + f[s \ {first(s)}]]

\* completedIn is that function at the set of all shards.
LEMMA SumIsFold ==
  ASSUME NEW r
  PROVE  completedIn(r) = (CHOOSE f : f = sums(f, r.shards, DOMAIN r.shards))[DOMAIN r.shards]
BY Zenon DEF completedIn, MapThenSumSet, MapThenFoldSet, sums, first

LEMMA FirstOf == ASSUME NEW s, s # {} PROVE first(s) \in s
  BY Zenon DEF first

\* The elements of U in a set of shards, and in one.
part(U, owner, s) == {u \in U : owner[u] \in s}

ownedBy(U, owner, x) == {u \in U : owner[u] = x}

\* Taking one shard from a set of shards takes its elements from the count.
LEMMA SizesAdd ==
  ASSUME NEW U, IsFiniteSet(U), NEW D, NEW owner \in [U -> D], NEW s \in SUBSET D, NEW x \in s
  PROVE  /\ Cardinality(part(U, owner, s)) \in Nat
         /\ Cardinality(ownedBy(U, owner, x)) \in Nat
         /\ Cardinality(part(U, owner, s \ {x})) \in Nat
         /\ Cardinality(part(U, owner, s)) = Cardinality(ownedBy(U, owner, x))
                                             + Cardinality(part(U, owner, s \ {x}))
<1>1. PICK A, B, C : A = part(U, owner, s) /\ B = ownedBy(U, owner, x) /\ C = part(U, owner, s \ {x})
  OBVIOUS
<1>2. A \in SUBSET U /\ B \in SUBSET U /\ C \in SUBSET U /\ A = B \cup C /\ B \cap C = {}
  BY <1>1 DEF part, ownedBy
<1>3. IsFiniteSet(A) /\ IsFiniteSet(B) /\ IsFiniteSet(C)
  BY <1>2, FS_Subset
<1>4. Cardinality(A) \in Nat /\ Cardinality(B) \in Nat /\ Cardinality(C) \in Nat
  BY <1>3, FS_CardinalityType
<1>5. Cardinality(A) = Cardinality(B) + Cardinality(C) - Cardinality({})
  BY <1>2, <1>3, FS_Union
<1> QED BY <1>1, <1>4, <1>5, FS_EmptySet

\* The sum of the shards' counts, when each is the number of elements of its
\* shard, is the number of all elements.
LEMMA SumOfCounts ==
  ASSUME NEW shards, NEW D, IsFiniteSet(D), NEW U, IsFiniteSet(U), NEW owner \in [U -> D],
         \A i \in D : shards[i].completed = Cardinality(ownedBy(U, owner, i))
  PROVE  (CHOOSE f : f = sums(f, shards, D))[D] = Cardinality(U)
<1> DEFINE g == [s \in SUBSET D |-> Cardinality(part(U, owner, s))]
<1>1. part(U, owner, {}) = {} /\ part(U, owner, D) = U
  BY DEF part
<1>2. g[{}] = 0 /\ g[D] = Cardinality(U)
  BY <1>1, FS_EmptySet
<1>3. ASSUME NEW s \in SUBSET D, NEW x \in s
      PROVE  g[s] = shards[x].completed + g[s \ {x}]
  <2>1. x \in D /\ s \ {x} \in SUBSET D
    OBVIOUS
  <2>2. shards[x].completed = Cardinality(ownedBy(U, owner, x))
    BY <2>1
  <2>3. Cardinality(part(U, owner, s)) = Cardinality(ownedBy(U, owner, x))
                                             + Cardinality(part(U, owner, s \ {x}))
    <3> HIDE DEF g
    <3> QED BY SizesAdd
  <2> QED BY <2>1, <2>2, <2>3
<1>4. PICK h : h = g
  OBVIOUS
<1>5. h \in [SUBSET D -> {Cardinality(part(U, owner, s)) : s \in SUBSET D}] 
  BY <1>4
<1>6. h[{}] = 0 /\ h[D] = Cardinality(U)
      /\ \A s \in SUBSET D : \A x \in s : h[s] = shards[x].completed + h[s \ {x}]
  BY <1>2, <1>3, <1>4
<1> HIDE DEF g
<1>7. h = sums(h, shards, D)
  <2>1. \A s \in SUBSET D : h[s] = IF s = {} THEN 0 ELSE shards[first(s)].completed + h[s \ {first(s)}]
    <3> SUFFICES ASSUME NEW s \in SUBSET D, s # {}
                 PROVE  h[s] = shards[first(s)].completed + h[s \ {first(s)}]
      BY <1>6
    <3> QED BY <1>6, FirstOf
  <2>2. h = [s \in SUBSET D |-> h[s]]
    BY <1>5
  <2> QED BY <2>1, <2>2 DEF sums
<1>8. PICK f : f = CHOOSE k : k = sums(k, shards, D)
  OBVIOUS
<1>9. f = sums(f, shards, D)
  BY <1>7, <1>8, Zenon
<1>10. \A s \in SUBSET D : f[s] = IF s = {} THEN 0 ELSE shards[first(s)].completed + f[s \ {first(s)}]
  <2> SUFFICES ASSUME NEW s \in SUBSET D
               PROVE  f[s] = IF s = {} THEN 0 ELSE shards[first(s)].completed + f[s \ {first(s)}]
    OBVIOUS
  <2>1. f[s] = sums(f, shards, D)[s]
    BY <1>9
  <2>2. sums(f, shards, D)[s] = IF s = {} THEN 0 ELSE shards[first(s)].completed + f[s \ {first(s)}]
    BY DEF sums
  <2> QED BY <2>1, <2>2
<1>11. f[D] = h[D]
  <2>1. SUFFICES ASSUME f[D] # h[D] PROVE FALSE
    OBVIOUS
  <2>2. PICK bad : bad = {s \in SUBSET D : f[s] # h[s]}
    OBVIOUS
  <2>3. \A s \in SUBSET D : IsFiniteSet(s) /\ Cardinality(s) \in Nat
    BY FS_Subset, FS_CardinalityType
  <2>4. PICK sizes : sizes = {Cardinality(s) : s \in bad}
    OBVIOUS
  <2>5. sizes \in SUBSET Nat /\ sizes # {}
    BY <2>1, <2>2, <2>3, <2>4
  <2>6. PICK s \in bad : \A t \in bad : Cardinality(s) <= Cardinality(t)
    <3>1. PICK m \in sizes : \A n \in sizes : m <= n
      BY <2>5, NatMinimum
    <3> QED BY <2>4, <3>1
  <2>7. s \in SUBSET D /\ f[s] # h[s] /\ s # {}
    BY <1>6, <1>10, <2>2
  <2>8. PICK x \in s : x = first(s)
    BY <2>7, FirstOf
  <2>9. s \ {x} \in SUBSET D /\ Cardinality(s \ {x}) = Cardinality(s) - 1
    BY <2>3, <2>7, <2>8, FS_RemoveElement
  <2>10. Cardinality(s) \in Nat
    BY <2>3, <2>7
  <2>11. s \ {x} \notin bad
    BY <2>6, <2>9, <2>10
  <2>12. f[s \ {x}] = h[s \ {x}]
    BY <2>2, <2>9, <2>11
  <2> QED BY <1>6, <1>10, <2>7, <2>8, <2>12
<1> QED BY <1>6, <1>8, <1>11

\* The shards of a receipt that each tell the truth together count every
\* completion once.
LEMMA ReceiptCounts ==
  ASSUME CompletionInv, NEW r, ReceiptCounted(r)
  PROVE  completedIn(r) = Cardinality(countedBy(r.plan, r.observedAt))
<1>1. PICK U : U = countedBy(r.plan, r.observedAt)
  OBVIOUS
<1>2. PICK D : D = DOMAIN r.shards
  OBVIOUS
<1>3. PICK owner : owner = [d \in U |-> scheduleShard(d.subject, d.plan)]
  OBVIOUS
<1>4. r.plan \in Plans /\ r.plan.shards \in Nat /\ D = 0 .. r.plan.shards - 1
  BY <1>2, ShardInPlan, CoverageConfiguration DEF ReceiptCounted, Plans
<1>5. IsFiniteSet(D)
  BY <1>4, FS_Interval
<1>6. U \in SUBSET committed /\ committed \subseteq Done /\ IsFiniteSet(committed)
  BY <1>1 DEF countedBy, CompletionInv
<1>7. IsFiniteSet(U)
  BY <1>6, FS_Subset
<1>8. owner \in [U -> D]
  <2> SUFFICES ASSUME NEW d \in U PROVE scheduleShard(d.subject, d.plan) \in D
    BY <1>3
  <2>1. d.plan = r.plan /\ d.subject \in Subjects
    BY <1>1, <1>6 DEF countedBy, Done
  <2> QED BY <1>4, <2>1, ShardInPlan
<1>9. ASSUME NEW i \in D PROVE r.shards[i].completed = Cardinality(ownedBy(U, owner, i))
  <2>1. ownedBy(U, owner, i) = {d \in U : scheduleShard(d.subject, d.plan) = i}
    BY <1>3 DEF ownedBy
  <2> QED BY <1>1, <1>2, <2>1 DEF ReceiptCounted
<1>10. (CHOOSE f : f = sums(f, r.shards, D))[D] = Cardinality(U)
  BY <1>5, <1>7, <1>8, <1>9, SumOfCounts
<1> QED BY <1>1, <1>2, <1>10, SumIsFold

\* For any number of processes with any shard counts, any number of subjects
\* and workers, and whichever answers are lost after the file was replaced, the
\* receipt that is kept of the last plan counts every completion that a worker
\* was told was accepted under it by its end, and besides only those whose
\* answer was lost, each once.
THEOREM CompletionsAreCounted == Spec => []CompletionsCounted
<1>1. Init => CompletionInv /\ Apart
  BY FS_EmptySet DEF Init, CoverageInit, CompletionInv, committed, Apart
<1>2. CompletionInv /\ Apart => CompletionsCounted
  <2> SUFFICES ASSUME CompletionInv, Apart, file # NoFile, file.previous # NoReceipt
               PROVE  CompletionsCounted
    BY DEF CompletionsCounted
  <2>1. PICK r : r = file.previous
    OBVIOUS
  <2>2. completedIn(r) = Cardinality(countedBy(r.plan, r.observedAt))
    BY <2>1, ReceiptCounts DEF CompletionInv
  <2>3. PICK D : D = {d \in done : d.plan = r.plan /\ d.at <= r.observedAt}
    OBVIOUS
  <2>4. PICK U : U = {d \in unsure : d.plan = r.plan /\ d.at <= r.observedAt}
    OBVIOUS
  <2>5. countedBy(r.plan, r.observedAt) = D \cup U /\ D \cap U = {}
    BY <2>3, <2>4 DEF countedBy, committed, Apart
  <2>6. IsFiniteSet(D) /\ IsFiniteSet(U)
    <3>1. D \in SUBSET committed /\ U \in SUBSET committed
      BY <2>3, <2>4 DEF committed
    <3> QED BY <3>1, FS_Subset DEF CompletionInv
  <2>7. Cardinality(D \cup U) = Cardinality(D) + Cardinality(U)
    <3>1. Cardinality(D) \in Nat /\ Cardinality(U) \in Nat /\ Cardinality(D \cap U) = 0
      BY <2>5, <2>6, FS_CardinalityType, FS_EmptySet
    <3>2. Cardinality(D \cup U) = Cardinality(D) + Cardinality(U) - Cardinality(D \cap U)
      BY <2>6, FS_Union
    <3> QED BY <3>1, <3>2
  <2> QED BY <2>1, <2>2, <2>3, <2>4, <2>5, <2>7 DEF CompletionsCounted
<1> QED BY <1>1, <1>2, LeaseInvHolds, NextCounts, PTL DEF Spec
=============================================================================
