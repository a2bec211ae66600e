----------------------- MODULE OperationPlanWorkerProofs -----------------------
(***************************************************************************)
(* ExecuteOne, for every number of workers and attempts, every lease and    *)
(* every choice of faults and crashes: requests do not overlap, the ledger  *)
(* tells the truth, nothing leaks and a receipt the runner accepts commits. *)
(***************************************************************************)
EXTENDS OperationPlanWorker, FiniteSetTheorems, TLAPS

States == {"claimed", "unknown", "deferred", "failed", "request_started", "observed"}

Outcomes == {"failed", "request_started", "observed"}

\* A worker's locals, by how far it has come.
Busy ==
  [pc : {"history_reservation", "quota_acquire", "quota_acquire_cleanup", "cancel_or_return",
         "defer", "history_validate", "fail", "quota_release"}, attempt : Nat]
  \cup [pc : {"execution_deadline"}, attempt : Nat, quotaExpiresAt : Nat]
  \cup [pc : {"runner", "child", "fail", "quota_release"}, attempt : Nat, deadline : Nat]
  \cup [pc : {"history_append", "attempt_complete", "fail", "quota_release"}, attempt : Nat,
        proves : Outcomes, accepted : BOOLEAN, badTimes : BOOLEAN]

Begun == 1..Len(attempts)

TypeOK ==
  /\ clock \in Nat /\ faults \in Nat
  /\ attempts \in Seq([state : States, expiresAt : Nat])
  /\ reserved \subseteq Begun /\ requested \subseteq Begun
  /\ leases \subseteq [attempt : {0} \cup Begun, expiresAt : Nat]
  /\ running \subseteq [attempt : Begun, deadline : Nat]
  /\ worker \in [Worker -> {Idle} \cup Busy]
  /\ \A w \in Worker : worker[w] # Idle => worker[w].attempt \in Begun

\* Only the newest attempt may hold the operation, and one worker runs it.
OneClaim == \A g \in Begun : g < Len(attempts) => attempts[g].state # "claimed"

OneOwner ==
  \A v, w \in Worker :
    worker[v] # Idle /\ worker[w] # Idle /\ worker[v].attempt = worker[w].attempt => v = w

\* A child that runs is the only one; its attempt is claimed, its deadline is not
\* over and lies before the ends of its claim and of a lease; and a worker of its
\* attempt waits for it.
ChildOK(c) ==
  /\ attempts[c.attempt].state = "claimed"
  /\ clock <= c.deadline /\ c.deadline < attempts[c.attempt].expiresAt
  /\ \E l \in leases : l.attempt = c.attempt /\ c.deadline < l.expiresAt
  /\ \A w \in Worker : worker[w] # Idle /\ worker[w].attempt = c.attempt => worker[w].pc = "child"
  /\ \A d \in running : d = c

BeforeChild ==
  {"history_reservation", "quota_acquire", "quota_acquire_cleanup", "cancel_or_return",
   "defer", "execution_deadline", "runner"}

\* What a worker at work relies on: nobody but itself closes its attempt before
\* the lease ends, no request has left before its child runs, the leases it was
\* granted are there while they last, and the receipt it is about to commit is
\* true and archived.
WorkerOK(k) ==
  LET g == k.attempt IN
    /\ k.pc # "quota_release" =>
         /\ attempts[g].state \in {"claimed", "unknown"}
         /\ clock < attempts[g].expiresAt => attempts[g].state = "claimed"
    /\ k.pc \in BeforeChild => g \notin requested
    /\ k.pc = "execution_deadline" /\ clock < k.quotaExpiresAt =>
         [attempt |-> g, expiresAt |-> k.quotaExpiresAt] \in leases
    /\ k.pc = "runner" =>
         /\ k.deadline < attempts[g].expiresAt
         /\ clock < k.deadline => \E l \in leases : l.attempt = g /\ k.deadline < l.expiresAt
    /\ k.pc \in {"history_append", "attempt_complete"} => (k.proves = "failed" <=> g \notin requested)
    /\ k.pc = "attempt_complete" => [attempt |-> g, proves |-> k.proves] \in records

\* What it has taken and not yet given back, as long as nothing fails.
WorkerHolds(k) ==
  LET g == k.attempt IN
    faults = 0 =>
      /\ k.pc \in {"history_reservation", "defer", "attempt_complete"} => g \notin reserved
      /\ k.pc \in {"history_reservation", "quota_acquire", "quota_acquire_cleanup",
                   "cancel_or_return", "defer"} => \A l \in leases : l.attempt # g
      /\ k.pc = "quota_release" => g \notin reserved \/ attempts[g].state = "unknown"

\* One attempt: what the ledger says of it is true, and what it took is held.
TruthfulAt(g) ==
  LET s == attempts[g].state IN
    /\ s \in {"deferred", "failed"} => g \notin requested
    /\ s \in {"observed", "request_started"} => g \in requested
    /\ s \in Outcomes => [attempt |-> g, proves |-> s] \in records

KeptAt(g) ==
  faults = 0 =>
    /\ g \in reserved => inProgress(g) \/ attempts[g].state = "unknown"
    /\ \A l \in leases : l.attempt = g => inProgress(g)

IInv ==
  /\ TypeOK /\ OneClaim /\ OneOwner
  /\ \A c \in running : ChildOK(c)
  /\ \A w \in Worker : worker[w] # Idle => WorkerOK(worker[w]) /\ WorkerHolds(worker[w])
  /\ \A g \in Begun : TruthfulAt(g) /\ KeptAt(g)

-----------------------------------------------------------------------------
(* Receipts.                                                                *)

\* The history validator derives the exit code the runner has seen.
LEMMA ExitCodeDerived ==
  ASSUME NEW r \in Receipt, NEW e \in ExitCodes, validReceiptSemantics(r, e)
  PROVE  e = operationPlanProbeExitCode(r.outcome)
<1>1. CASE r.outcome = "healthy"
  BY <1>1 DEF validReceiptSemantics, healthyReceipt, operationPlanProbeExitCode
<1>2. CASE r.outcome = "unhealthy"
  BY <1>2 DEF validReceiptSemantics, unhealthyReceipt, operationPlanProbeExitCode
<1>3. CASE r.outcome = "blocked"
  BY <1>3 DEF validReceiptSemantics, blockedReceipt, operationPlanProbeExitCode
<1>4. CASE r.outcome = "indeterminate"
  BY <1>4 DEF validReceiptSemantics, indeterminateReceipt, operationPlanProbeExitCode
<1> QED BY <1>1, <1>2, <1>3, <1>4 DEF Receipt

\* What the runner accepts, the archive and the ledger accept.
LEMMA ReceiptAccepted ==
  ASSUME NEW r \in RunnerReceipts
  PROVE  /\ ValidateStoredRecord(r) /\ ledgerAccepts(r)
         /\ committedState(r) \in Outcomes
         /\ committedState(r) = "failed" <=> ~r.requestStarted
<1>1. PICK e \in ExitCodes : validReceiptSemantics(r, e)
  BY DEF RunnerReceipts
<1>2. r \in Receipt
  BY DEF RunnerReceipts
<1>3. ValidateStoredRecord(r)
  BY <1>1, <1>2, ExitCodeDerived DEF ValidateStoredRecord
<1>4. committedState(r) \in Outcomes /\ (committedState(r) = "failed" <=> ~r.requestStarted)
  BY <1>2 DEF Receipt, ObservedAt, committedState, Outcomes
<1>5. ledgerAccepts(r)
  <2>1. CASE r.outcome = "healthy"
    BY <1>1, <1>2, <2>1 DEF Receipt, validReceiptSemantics, observationCoherent, healthyReceipt, ledgerAccepts,
       acceptsObserved, operationObservationClassification
  <2>2. CASE r.outcome = "unhealthy"
    BY <1>1, <1>2, <2>2 DEF Receipt, validReceiptSemantics, observationCoherent, unhealthyReceipt, ledgerAccepts,
       acceptsObserved, operationObservationClassification
  <2>3. CASE r.outcome = "blocked"
    BY <1>1, <1>2, <2>3 DEF Receipt, validReceiptSemantics, observationCoherent, blockedReceipt, ledgerAccepts,
       acceptsBlocked, translatedBlockReason, BlockedReasons
  <2>4. CASE r.outcome = "indeterminate"
    BY <1>1, <1>2, <2>4 DEF Receipt, validReceiptSemantics, observationCoherent, indeterminateReceipt, ledgerAccepts,
       acceptsObserved, acceptsRequestStarted, operationObservationClassification
  <2> QED BY <1>2, <2>1, <2>2, <2>3, <2>4 DEF Receipt
<1> QED BY <1>3, <1>4, <1>5

-----------------------------------------------------------------------------
(* Steps of one worker leave the attempts of the others alone.              *)

\* Nothing of attempt h changes, except that a lease that is over may go.
FrameAt(h) ==
  /\ attempts'[h] = attempts[h]
  /\ h \in requested' <=> h \in requested
  /\ h \in reserved' <=> h \in reserved
  /\ \A l \in leases : l.attempt = h /\ clock < l.expiresAt => l \in leases'
  /\ \A l \in leases' : l.attempt = h => l \in leases

LEMMA FrameKeepsWorker ==
  ASSUME TypeOK, NEW k \in Busy, k.attempt \in Begun, WorkerOK(k), WorkerHolds(k),
         FrameAt(k.attempt), clock' = clock, records \subseteq records',
         faults' \in {faults, faults + 1}
  PROVE  WorkerOK(k)' /\ WorkerHolds(k)'
<1> DEFINE g == k.attempt
<1>1. clock \in Nat /\ faults \in Nat /\ \A l \in leases : l.expiresAt \in Nat
  BY DEF TypeOK
<1>2. faults' = 0 => faults = 0
  BY <1>1
<1>3. k.pc = "runner" => k.deadline \in Nat
  BY DEF Busy
<1>4. ASSUME NEW l \in leases, l.attempt = g, k.pc = "runner", clock < k.deadline,
             k.deadline < l.expiresAt
      PROVE  l \in leases'
  <2>1. clock < l.expiresAt
    BY <1>1, <1>3, <1>4
  <2> QED BY <1>4, <2>1 DEF FrameAt
<1>5. k.pc = "execution_deadline" /\ clock < k.quotaExpiresAt =>
        [attempt |-> g, expiresAt |-> k.quotaExpiresAt] \in leases'
  BY DEF WorkerOK, FrameAt
<1>6. attempts'[g] = attempts[g] /\ (g \in requested' <=> g \in requested)
        /\ (g \in reserved' <=> g \in reserved) /\ \A l \in leases' : l.attempt = g => l \in leases
  BY DEF FrameAt
<1>7. WorkerOK(k)'
  BY <1>4, <1>5, <1>6 DEF WorkerOK
<1>8. WorkerHolds(k)'
  BY <1>2, <1>6 DEF WorkerHolds
<1> QED BY <1>7, <1>8

LEMMA FrameKeepsChild ==
  ASSUME TypeOK, NEW c \in running, ChildOK(c), FrameAt(c.attempt), clock' = clock,
         running' \subseteq running,
         \A w \in Worker : worker'[w] # Idle /\ worker'[w].attempt = c.attempt => worker'[w].pc = "child"
  PROVE  ChildOK(c)'
<1>1. clock \in Nat /\ (\A l \in leases : l.expiresAt \in Nat) /\ c.deadline \in Nat
  BY DEF TypeOK
<1>2. PICK l \in leases : l.attempt = c.attempt /\ c.deadline < l.expiresAt
  BY DEF ChildOK
<1>3. clock < l.expiresAt
  BY <1>1, <1>2 DEF ChildOK
<1>4. l \in leases'
  BY <1>2, <1>3 DEF FrameAt
<1> QED BY <1>2, <1>4 DEF ChildOK, FrameAt

\* A step of worker w on its own attempt g: what is left to show is about g.
LEMMA OwnStep ==
  ASSUME IInv, NEW w \in Worker, worker[w] # Idle, NEW g, g = worker[w].attempt,
         NEW k \in {Idle} \cup Busy, worker' = [worker EXCEPT ![w] = k],
         k # Idle => k.attempt = g,
         clock' = clock, requested' = requested,
         running' = running
           \/ (running' \subseteq [attempt : Begun, deadline : Nat] /\ \A c \in running' : ChildOK(c)'),
         records \subseteq records', faults' \in {faults, faults + 1},
         attempts' \in Seq([state : States, expiresAt : Nat]), Len(attempts') = Len(attempts),
         reserved' \subseteq Begun, leases' \subseteq [attempt : {0} \cup Begun, expiresAt : Nat],
         \A h \in Begun : h # g => FrameAt(h),
         attempts'[g] = attempts[g] \/ attempts'[g].state # "claimed",
         worker[w].pc = "child" => FrameAt(g) /\ (k = Idle \/ running' # running),
         k # Idle => WorkerOK(k)' /\ WorkerHolds(k)',
         TruthfulAt(g)', KeptAt(g)'
  PROVE  IInv'
<1>1. TypeOK
  BY DEF IInv
<1>2. g \in Begun /\ Begun' = Begun /\ w \in DOMAIN worker
  BY <1>1 DEF TypeOK, Begun
<1>3. worker'[w] = k /\ \A v \in Worker : v # w => worker'[v] = worker[v]
  BY <1>1, <1>2 DEF TypeOK
<1>4. \A v \in Worker : v # w /\ worker[v] # Idle => worker[v].attempt \in Begun /\ worker[v].attempt # g
  BY <1>1 DEF TypeOK, IInv, OneOwner
<1>5. \A v \in Worker : worker[v] # Idle => worker[v] \in Busy
  BY <1>1 DEF TypeOK
<1>6. TypeOK'
  <2>1. worker' \in [Worker -> {Idle} \cup Busy]
    BY <1>1 DEF TypeOK
  <2>2. \A v \in Worker : worker'[v] # Idle => worker'[v].attempt \in Begun
    BY <1>2, <1>3, <1>4
  <2>3. faults' \in Nat
    BY <1>1 DEF TypeOK
  <2> QED BY <1>1, <1>2, <2>1, <2>2, <2>3 DEF TypeOK
<1>7. OneClaim'
  <2>1. \A h \in Begun : attempts'[h] = attempts[h] \/ attempts'[h].state # "claimed"
    BY DEF FrameAt
  <2> QED BY <1>2, <2>1 DEF IInv, OneClaim
<1>8. OneOwner'
  BY <1>3, <1>4 DEF IInv, OneOwner
<1>9. ASSUME NEW c \in running', running' = running PROVE ChildOK(c)'
  <2>1. c \in running /\ ChildOK(c) /\ c.attempt \in Begun
    BY <1>1, <1>9 DEF IInv, TypeOK
  <2>2. FrameAt(c.attempt)
    <3>1. CASE c.attempt # g
      BY <2>1, <3>1
    <3>2. CASE c.attempt = g
      BY <2>1, <3>2 DEF ChildOK
    <3> QED BY <3>1, <3>2
  <2>3. \A v \in Worker : worker'[v] # Idle /\ worker'[v].attempt = c.attempt => worker'[v].pc = "child"
    BY <1>3, <1>9, <2>1 DEF ChildOK
  <2> QED BY <1>1, <1>9, <2>1, <2>2, <2>3, FrameKeepsChild
<1>10. ASSUME NEW v \in Worker, worker'[v] # Idle
       PROVE  WorkerOK(worker[v])' /\ WorkerHolds(worker[v])'
  <2>1. CASE v = w
    <3>1. k # Idle /\ worker'[v] = k
      BY <1>3, <1>10, <2>1
    <3> QED BY <3>1 DEF WorkerOK, WorkerHolds
  <2>2. CASE v # w
    <3>1. PICK x : x = worker[v]
      OBVIOUS
    <3>2. x = worker'[v] /\ x \in Busy /\ x.attempt \in Begun /\ x.attempt # g
      BY <1>3, <1>4, <1>5, <1>10, <2>2, <3>1
    <3>3. WorkerOK(x) /\ WorkerHolds(x) /\ FrameAt(x.attempt)
      BY <1>10, <3>1, <3>2 DEF IInv
    <3>4. WorkerOK(x)' /\ WorkerHolds(x)'
      BY <1>1, <3>2, <3>3, FrameKeepsWorker
    <3> QED BY <3>2, <3>4 DEF WorkerOK, WorkerHolds
  <2> QED BY <2>1, <2>2
<1>11. ASSUME NEW h \in Begun PROVE TruthfulAt(h)' /\ KeptAt(h)'
  <2>1. CASE h # g
    <3>1. FrameAt(h) /\ TruthfulAt(h) /\ KeptAt(h)
      BY <2>1 DEF IInv
    <3>2. inProgress(h) => inProgress(h)'
      BY <1>3, <2>1 DEF inProgress
    <3>3. faults' = 0 => faults = 0
      BY <1>1 DEF TypeOK
    <3>4. TruthfulAt(h)'
      BY <3>1 DEF TruthfulAt, FrameAt
    <3>5. KeptAt(h)'
      BY <3>1, <3>2, <3>3 DEF KeptAt, FrameAt
    <3> QED BY <3>4, <3>5
  <2> QED BY <2>1
<1> QED BY <1>2, <1>6, <1>7, <1>8, <1>9, <1>10, <1>11 DEF IInv

LEMMA ElementOfSeq ==
  ASSUME NEW S, NEW q \in Seq(S), NEW i \in 1..Len(q)
  PROVE  q[i] \in S
OBVIOUS

\* What is known of a worker at work.
LEMMA AtWork ==
  ASSUME IInv, NEW w \in Worker, worker[w].pc # "idle"
  PROVE  /\ worker[w] # Idle /\ worker[w] \in Busy /\ worker[w].attempt \in Begun
         /\ WorkerOK(worker[w]) /\ WorkerHolds(worker[w])
         /\ TruthfulAt(worker[w].attempt) /\ KeptAt(worker[w].attempt)
         /\ clock \in Nat /\ faults \in Nat
         /\ attempts \in Seq([state : States, expiresAt : Nat])
         /\ attempts[worker[w].attempt] \in [state : States, expiresAt : Nat]
         /\ reserved \subseteq Begun
         /\ leases \subseteq [attempt : {0} \cup Begun, expiresAt : Nat]
<1>1. worker[w] # Idle
  BY DEF Idle
<1>2. TypeOK
  BY DEF IInv
<1>3. worker[w] \in Busy /\ worker[w].attempt \in Begun
  BY <1>1, <1>2 DEF TypeOK
<1>4. /\ clock \in Nat /\ faults \in Nat
      /\ attempts \in Seq([state : States, expiresAt : Nat])
      /\ reserved \subseteq Begun
      /\ leases \subseteq [attempt : {0} \cup Begun, expiresAt : Nat]
  BY <1>2 DEF TypeOK
<1>5. attempts[worker[w].attempt] \in [state : States, expiresAt : Nat]
  BY <1>3, <1>4, ElementOfSeq DEF Begun
<1>6. WorkerOK(worker[w]) /\ WorkerHolds(worker[w])
  BY <1>1 DEF IInv
<1>7. TruthfulAt(worker[w].attempt) /\ KeptAt(worker[w].attempt)
  BY <1>3 DEF IInv
<1> QED BY <1>1, <1>3, <1>4, <1>5, <1>6, <1>7

\* A worker that moves on keeps its attempt and its other locals.
LEMMA MovesOn ==
  ASSUME NEW x \in Busy, NEW pc,
         \/ /\ x.pc \in {"history_reservation", "quota_acquire", "quota_acquire_cleanup",
                         "cancel_or_return"}
            /\ pc \in {"quota_acquire", "quota_acquire_cleanup", "cancel_or_return", "defer"}
         \/ x.pc = "runner" /\ pc \in {"child", "fail"}
         \/ x.pc = "history_append" /\ pc \in {"attempt_complete", "fail"}
         \/ x.pc \in {"fail", "history_validate", "attempt_complete"} /\ pc = "quota_release"
  PROVE  LET k == [x EXCEPT !.pc = pc] IN
           /\ k \in Busy /\ k # Idle /\ k.pc = pc /\ k.attempt = x.attempt
           /\ x.pc = "history_append" => k.proves = x.proves
           /\ x.pc = "runner" => k = [pc |-> pc, attempt |-> x.attempt, deadline |-> x.deadline]
<1> DEFINE k == [x EXCEPT !.pc = pc]
<1>1. CASE x \in [pc : {"history_reservation", "quota_acquire", "quota_acquire_cleanup",
                        "cancel_or_return", "defer", "history_validate", "fail", "quota_release"},
                  attempt : Nat]
  BY <1>1 DEF Busy, Idle
<1>2. CASE x \in [pc : {"execution_deadline"}, attempt : Nat, quotaExpiresAt : Nat]
  BY <1>2 DEF Busy, Idle
<1>3. CASE x \in [pc : {"runner", "child", "fail", "quota_release"}, attempt : Nat, deadline : Nat]
  BY <1>3 DEF Busy, Idle
<1>4. CASE x \in [pc : {"history_append", "attempt_complete", "fail", "quota_release"},
                  attempt : Nat, proves : Outcomes, accepted : BOOLEAN, badTimes : BOOLEAN]
  BY <1>4 DEF Busy, Idle
<1> QED BY <1>1, <1>2, <1>3, <1>4 DEF Busy

LEMMA MovesToRelease ==
  ASSUME NEW x \in Busy, x.pc \in {"fail", "history_validate", "attempt_complete"}
  PROVE  LET k == [x EXCEPT !.pc = "quota_release"] IN
           k \in Busy /\ k # Idle /\ k.pc = "quota_release" /\ k.attempt = x.attempt
BY MovesOn

\* A step of worker w that leaves the ledger alone and goes on.
LEMMA LocalStep ==
  ASSUME IInv, NEW w \in Worker, worker[w].pc \notin {"idle", "child"}, NEW g, g = worker[w].attempt,
         NEW k \in Busy, k.attempt = g, worker' = [worker EXCEPT ![w] = k],
         clock' = clock, running' = running, requested' = requested, attempts' = attempts,
         records \subseteq records', faults' \in {faults, faults + 1},
         reserved' \subseteq Begun, leases' \subseteq [attempt : {0} \cup Begun, expiresAt : Nat],
         \A h \in Begun : h # g => (h \in reserved' <=> h \in reserved),
         \A l \in leases : l.attempt # g /\ clock < l.expiresAt => l \in leases',
         \A l \in leases' : l.attempt # g => l \in leases,
         WorkerOK(k)', WorkerHolds(k)'
  PROVE  IInv'
<1>1. /\ worker[w] # Idle /\ g \in Begun /\ TruthfulAt(g)
      /\ attempts \in Seq([state : States, expiresAt : Nat])
  BY AtWork
<1>2. \A h \in Begun : h # g => FrameAt(h)
  BY DEF FrameAt
<1>3. TruthfulAt(g)'
  BY <1>1 DEF TruthfulAt
<1>4. k # Idle
  BY DEF Busy, Idle
<1>5. worker'[w] = k
  BY DEF IInv, TypeOK
<1>6. KeptAt(g)'
  BY <1>4, <1>5 DEF KeptAt, inProgress
<1> QED BY <1>1, <1>2, <1>3, <1>4, <1>6, OwnStep

-----------------------------------------------------------------------------
(* The actions.                                                             *)

LEMMA ReserveKeeps == ASSUME IInv, NEW w \in Worker, Reserve(w) PROVE IInv'
<1>1. PICK x : x = worker[w]
  OBVIOUS
<1>2. PICK g : g = x.attempt
  OBVIOUS
<1>3. /\ x.pc = "history_reservation" /\ x \in Busy /\ g \in Begun /\ WorkerOK(x) /\ WorkerHolds(x)
      /\ faults \in Nat /\ reserved \subseteq Begun
      /\ leases \subseteq [attempt : {0} \cup Begun, expiresAt : Nat]
  BY <1>1, <1>2, AtWork DEF Reserve
<1>4. /\ UNCHANGED <<clock, attempts, records, leases, running, requested>>
      /\ faults' \in {faults, faults + 1}
  BY DEF Reserve, Fault, NoFault
<1>5. PICK pc : /\ goto(w, pc)
                /\ pc \in {"quota_acquire", "cancel_or_return", "defer"}
                /\ reserved' \in {reserved, reserved \cup {g}}
                /\ faults' = 0 => pc = "quota_acquire" \/ (pc = "defer" /\ reserved' = reserved)
  BY <1>1, <1>2, <1>3 DEF Reserve, Fault
<1> DEFINE k == [x EXCEPT !.pc = pc]
<1>6. k \in Busy /\ k.pc = pc /\ k.attempt = g
  BY <1>2, <1>3, <1>5, MovesOn
<1>7. worker' = [worker EXCEPT ![w] = k]
  BY <1>1, <1>5 DEF goto
<1> HIDE DEF k
<1>8. WorkerOK(k)'
  BY <1>2, <1>3, <1>4, <1>5, <1>6 DEF WorkerOK, BeforeChild
<1>9. faults' = 0 => faults = 0
  BY <1>3, <1>4
<1>10. WorkerHolds(k)'
  BY <1>2, <1>3, <1>4, <1>5, <1>6, <1>9 DEF WorkerHolds
<1> QED BY <1>1, <1>2, <1>3, <1>4, <1>5, <1>6, <1>7, <1>8, <1>10, LocalStep

LEMMA CancelReservationKeeps == ASSUME IInv, NEW w \in Worker, CancelReservation(w) PROVE IInv'
<1>1. PICK x : x = worker[w]
  OBVIOUS
<1>2. PICK g : g = x.attempt
  OBVIOUS
<1>3. /\ x.pc \in {"quota_acquire_cleanup", "cancel_or_return"} /\ x \in Busy /\ g \in Begun
      /\ WorkerOK(x) /\ WorkerHolds(x) /\ TruthfulAt(g)
      /\ faults \in Nat /\ reserved \subseteq Begun /\ x # Idle
      /\ attempts \in Seq([state : States, expiresAt : Nat])
      /\ leases \subseteq [attempt : {0} \cup Begun, expiresAt : Nat]
  BY <1>1, <1>2, AtWork DEF CancelReservation
<1>4. /\ UNCHANGED <<clock, attempts, records, leases, running, requested>>
      /\ faults' \in {faults, faults + 1} /\ reserved' \in {reserved, reserved \ {g}}
      /\ faults' = 0 => reserved' = reserved \ {g}
      /\ faults' = 0 => goto(w, "defer")
      /\ goto(w, "defer") \/ return(w)
  BY <1>1, <1>2, <1>3 DEF CancelReservation, Fault, NoFault
<1>5. faults' = 0 => faults = 0
  BY <1>3, <1>4
<1>6. CASE goto(w, "defer")
  <2> DEFINE k == [x EXCEPT !.pc = "defer"]
  <2>1. k \in Busy /\ k.pc = "defer" /\ k.attempt = g
    BY <1>2, <1>3, MovesOn
  <2>2. worker' = [worker EXCEPT ![w] = k]
    BY <1>1, <1>6 DEF goto
  <2> HIDE DEF k
  <2>3. WorkerOK(k)'
    BY <1>2, <1>3, <1>4, <2>1 DEF WorkerOK, BeforeChild
  <2>4. WorkerHolds(k)'
    BY <1>2, <1>3, <1>4, <1>5, <2>1 DEF WorkerHolds
  <2> QED BY <1>1, <1>2, <1>3, <1>4, <2>1, <2>2, <2>3, <2>4, LocalStep
<1>7. CASE ~goto(w, "defer")
  <2>1. faults' # 0 /\ worker' = [worker EXCEPT ![w] = Idle]
    BY <1>4, <1>7 DEF return
  <2>2. TruthfulAt(g)' /\ KeptAt(g)'
    BY <1>3, <1>4, <2>1 DEF TruthfulAt, KeptAt
  <2>3. \A h \in Begun : h # g => FrameAt(h)
    BY <1>4 DEF FrameAt
  <2> QED BY <1>1, <1>2, <1>3, <1>4, <2>1, <2>2, <2>3, OwnStep
<1> QED BY <1>6, <1>7

LEMMA AcquireQuotaKeeps == ASSUME IInv, NEW w \in Worker, AcquireQuota(w) PROVE IInv'
<1>1. PICK x : x = worker[w]
  OBVIOUS
<1>2. PICK g : g = x.attempt
  OBVIOUS
<1>3. /\ x.pc = "quota_acquire" /\ x \in Busy /\ g \in Begun /\ WorkerOK(x) /\ WorkerHolds(x)
      /\ faults \in Nat /\ clock \in Nat /\ reserved \subseteq Begun
      /\ leases \subseteq [attempt : {0} \cup Begun, expiresAt : Nat]
  BY <1>1, <1>2, AtWork DEF AcquireQuota
<1>4. PICK q : q = clock + QuotaLease
  OBVIOUS
<1>5. PICK l : l = [attempt |-> g, expiresAt |-> q]
  OBVIOUS
<1>6. q \in Nat
  BY <1>3, <1>4, WorkerAssumption
<1>7. /\ UNCHANGED <<clock, attempts, reserved, records, running, requested>>
      /\ faults' \in {faults, faults + 1} /\ leases' \in {leases, liveLeases \cup {l}}
  BY <1>1, <1>2, <1>4, <1>5 DEF AcquireQuota, Fault, NoFault
<1>8. /\ leases' \subseteq [attempt : {0} \cup Begun, expiresAt : Nat]
      /\ \A m \in leases : m.attempt # g /\ clock < m.expiresAt => m \in leases'
      /\ \A m \in leases' : m.attempt # g => m \in leases
  BY <1>3, <1>5, <1>6, <1>7 DEF liveLeases
<1>9. faults' = 0 => faults = 0
  BY <1>3, <1>7
<1>10. ASSUME goto(w, "quota_acquire_cleanup"), faults' = 0 => leases' = leases
       PROVE  IInv'
  <2> DEFINE k == [x EXCEPT !.pc = "quota_acquire_cleanup"]
  <2>1. k \in Busy /\ k.pc = "quota_acquire_cleanup" /\ k.attempt = g
    BY <1>2, <1>3, MovesOn
  <2>2. worker' = [worker EXCEPT ![w] = k]
    BY <1>1, <1>10 DEF goto
  <2> HIDE DEF k
  <2>3. WorkerOK(k)'
    BY <1>2, <1>3, <1>7, <2>1 DEF WorkerOK, BeforeChild
  <2>4. WorkerHolds(k)'
    BY <1>2, <1>3, <1>7, <1>9, <1>10, <2>1 DEF WorkerHolds
  <2> QED BY <1>1, <1>2, <1>3, <1>7, <1>8, <2>1, <2>2, <2>3, <2>4, LocalStep
<1>11. ASSUME leases' = liveLeases \cup {l},
              worker' = [worker EXCEPT ![w] =
                [pc |-> "execution_deadline", attempt |-> g, quotaExpiresAt |-> q]]
       PROVE  IInv'
  <2> DEFINE k == [pc |-> "execution_deadline", attempt |-> g, quotaExpiresAt |-> q]
  <2>1. k \in Busy /\ k.pc = "execution_deadline" /\ k.attempt = g /\ k.quotaExpiresAt = q
    BY <1>3, <1>6 DEF Busy, Begun
  <2>2. worker' = [worker EXCEPT ![w] = k]
    BY <1>11
  <2> HIDE DEF k
  <2>3. WorkerOK(k)'
    BY <1>2, <1>3, <1>5, <1>7, <1>11, <2>1 DEF WorkerOK, BeforeChild
  <2>4. WorkerHolds(k)'
    BY <2>1 DEF WorkerHolds
  <2> QED BY <1>1, <1>2, <1>3, <1>7, <1>8, <2>1, <2>2, <2>3, <2>4, LocalStep
<1> QED BY <1>1, <1>2, <1>3, <1>4, <1>5, <1>10, <1>11 DEF AcquireQuota, Fault

\* transitionClaim touches one attempt, and only one that is claimed.
LEMMA TransitionEffect ==
  ASSUME NEW g \in Begun, NEW st \in States, transition(g, st),
         attempts \in Seq([state : States, expiresAt : Nat])
  PROVE  /\ attempts' \in Seq([state : States, expiresAt : Nat]) /\ Len(attempts') = Len(attempts)
         /\ \A h \in Begun : h # g => attempts'[h] = attempts[h]
         /\ attempts'[g].expiresAt = attempts[g].expiresAt
         /\ attempts[g].state = "claimed" => attempts'[g].state = st
         /\ attempts[g].state # "claimed" => attempts'[g] = attempts[g]
<1>1. claimed(g) <=> attempts[g].state = "claimed"
  BY DEF claimed, Begun
<1>2. attempts[g] \in [state : States, expiresAt : Nat]
  BY ElementOfSeq DEF Begun
<1>3. PICK e : e = [attempts[g] EXCEPT !.state = st]
  OBVIOUS
<1>4. /\ e \in [state : States, expiresAt : Nat] /\ e.state = st
      /\ e.expiresAt = attempts[g].expiresAt
  BY <1>2, <1>3
<1>5. CASE claimed(g)
  <2>1. attempts' = [attempts EXCEPT ![g] = e]
    BY <1>3, <1>5 DEF transition
  <2> QED BY <1>1, <1>4, <1>5, <2>1 DEF Begun
<1>6. CASE ~claimed(g)
  BY <1>1, <1>6 DEF transition
<1> QED BY <1>5, <1>6

LEMMA DeferKeeps == ASSUME IInv, NEW w \in Worker, Defer(w) PROVE IInv'
<1>1. PICK x : x = worker[w]
  OBVIOUS
<1>2. PICK g : g = x.attempt
  OBVIOUS
<1>3. /\ x.pc = "defer" /\ x \in Busy /\ g \in Begun /\ WorkerOK(x) /\ WorkerHolds(x)
      /\ TruthfulAt(g) /\ faults \in Nat /\ reserved \subseteq Begun /\ x # Idle
      /\ attempts \in Seq([state : States, expiresAt : Nat])
      /\ leases \subseteq [attempt : {0} \cup Begun, expiresAt : Nat]
  BY <1>1, <1>2, AtWork DEF Defer
<1>4. /\ UNCHANGED <<clock, reserved, records, leases, running, requested>>
      /\ faults' \in {faults, faults + 1} /\ worker' = [worker EXCEPT ![w] = Idle]
  BY DEF Defer, Fault, NoFault, return
<1>5. PICK st : st = withinLease(g, "deferred")
  OBVIOUS
<1>6. st \in {"deferred", "unknown"} /\ st \in States
  BY <1>5 DEF withinLease, States
<1>7. transition(g, st) \/ attempts' = attempts
  BY <1>1, <1>2, <1>5 DEF Defer
<1>8. /\ attempts' \in Seq([state : States, expiresAt : Nat]) /\ Len(attempts') = Len(attempts)
      /\ \A h \in Begun : h # g => attempts'[h] = attempts[h]
      /\ attempts'[g] = attempts[g] \/ attempts'[g].state \in {"deferred", "unknown"}
  BY <1>3, <1>6, <1>7, TransitionEffect
<1>9. \A h \in Begun : h # g => FrameAt(h)
  BY <1>4, <1>8 DEF FrameAt
<1>10. TruthfulAt(g)'
  BY <1>2, <1>3, <1>4, <1>8 DEF TruthfulAt, WorkerOK, BeforeChild, Outcomes
<1>11. KeptAt(g)'
  BY <1>2, <1>3, <1>4 DEF KeptAt, WorkerHolds
<1> QED BY <1>1, <1>2, <1>3, <1>4, <1>8, <1>9, <1>10, <1>11, OwnStep

LEMMA ExecutionDeadlineKeeps == ASSUME IInv, NEW w \in Worker, ExecutionDeadline(w) PROVE IInv'
<1>1. PICK x : x = worker[w]
  OBVIOUS
<1>2. PICK g : g = x.attempt
  OBVIOUS
<1>3. /\ x.pc = "execution_deadline" /\ x \in Busy /\ g \in Begun /\ WorkerOK(x) /\ WorkerHolds(x)
      /\ faults \in Nat /\ clock \in Nat /\ reserved \subseteq Begun
      /\ attempts[g].expiresAt \in Nat
      /\ leases \subseteq [attempt : {0} \cup Begun, expiresAt : Nat]
  BY <1>1, <1>2, AtWork DEF ExecutionDeadline
<1>4. PICK d : d = clock + ProbeTime
  OBVIOUS
<1>5. d \in Nat /\ clock < d
  BY <1>3, <1>4, WorkerAssumption
<1>6. /\ UNCHANGED <<clock, attempts, reserved, records, running, requested>>
      /\ faults' \in {faults, faults + 1}
      /\ leases' \in {leases, {l \in leases : l.attempt # g}}
  BY <1>1, <1>2 DEF ExecutionDeadline, Fault, NoFault
<1>7. /\ leases' \subseteq [attempt : {0} \cup Begun, expiresAt : Nat]
      /\ \A m \in leases : m.attempt # g /\ clock < m.expiresAt => m \in leases'
      /\ \A m \in leases' : m.attempt # g => m \in leases
  BY <1>3, <1>6
<1>8. faults' = 0 => faults = 0
  BY <1>3, <1>6
<1>9. CASE deadlineFeasible(d, attempts[g].expiresAt, x.quotaExpiresAt)
  <2> DEFINE k == [pc |-> "runner", attempt |-> g, deadline |-> d]
  <2>1. k \in Busy /\ k.pc = "runner" /\ k.attempt = g /\ k.deadline = d
    BY <1>3, <1>5 DEF Busy, Begun
  <2>2. worker' = [worker EXCEPT ![w] = k] /\ leases' = leases
    BY <1>1, <1>2, <1>4, <1>9 DEF ExecutionDeadline
  <2>3. d < attempts[g].expiresAt /\ d < x.quotaExpiresAt
    BY <1>9 DEF deadlineFeasible
  <2>4. x.quotaExpiresAt \in Nat
    BY <1>3 DEF Busy
  <2>5. clock < x.quotaExpiresAt
    BY <1>3, <1>5, <2>3, <2>4
  <2>6. [attempt |-> g, expiresAt |-> x.quotaExpiresAt] \in leases
    BY <1>2, <1>3, <2>5 DEF WorkerOK
  <2>7. \E l \in leases : l.attempt = g /\ d < l.expiresAt
    BY <2>3, <2>6
  <2> HIDE DEF k
  <2>8. WorkerOK(k)'
    BY <1>2, <1>3, <1>6, <2>1, <2>2, <2>3, <2>7 DEF WorkerOK, BeforeChild
  <2>9. WorkerHolds(k)'
    BY <2>1 DEF WorkerHolds
  <2> QED BY <1>1, <1>2, <1>3, <1>6, <1>7, <2>1, <2>2, <2>8, <2>9, LocalStep
<1>10. CASE ~deadlineFeasible(d, attempts[g].expiresAt, x.quotaExpiresAt)
  <2> DEFINE k == afterInfeasible(g)
  <2>1. k \in Busy /\ k.pc = "cancel_or_return" /\ k.attempt = g
    BY <1>3 DEF Busy, Begun, afterInfeasible
  <2>2. /\ worker' = [worker EXCEPT ![w] = k]
        /\ faults' = 0 => leases' = {l \in leases : l.attempt # g}
    BY <1>1, <1>2, <1>3, <1>4, <1>10 DEF ExecutionDeadline, Fault
  <2> HIDE DEF k
  <2>3. WorkerOK(k)'
    BY <1>2, <1>3, <1>6, <2>1 DEF WorkerOK, BeforeChild
  <2>4. WorkerHolds(k)'
    BY <1>6, <2>1, <2>2 DEF WorkerHolds
  <2> QED BY <1>1, <1>2, <1>3, <1>6, <1>7, <2>1, <2>2, <2>3, <2>4, LocalStep
<1> QED BY <1>9, <1>10

LEMMA ArchiveReceiptKeeps == ASSUME IInv, NEW w \in Worker, ArchiveReceipt(w) PROVE IInv'
<1>1. PICK x : x = worker[w]
  OBVIOUS
<1>2. PICK g : g = x.attempt
  OBVIOUS
<1>3. /\ x.pc = "history_append" /\ x \in Busy /\ g \in Begun /\ WorkerOK(x) /\ WorkerHolds(x)
      /\ faults \in Nat /\ reserved \subseteq Begun
      /\ leases \subseteq [attempt : {0} \cup Begun, expiresAt : Nat]
  BY <1>1, <1>2, AtWork DEF ArchiveReceipt
<1>4. /\ UNCHANGED <<clock, attempts, leases, running, requested>>
      /\ faults' \in {faults, faults + 1} /\ records \subseteq records'
      /\ reserved' \in {reserved, reserved \ {g}}
  BY <1>1, <1>2 DEF ArchiveReceipt, Fault, NoFault
<1>5. PICK pc : /\ goto(w, pc) /\ pc \in {"attempt_complete", "fail"}
                /\ pc = "attempt_complete" =>
                     /\ [attempt |-> g, proves |-> x.proves] \in records'
                     /\ reserved' = reserved \ {g}
  BY <1>1, <1>2 DEF ArchiveReceipt
<1> DEFINE k == [x EXCEPT !.pc = pc]
<1>6. k \in Busy /\ k.pc = pc /\ k.attempt = g /\ k.proves = x.proves
  BY <1>2, <1>3, <1>5, MovesOn
<1>7. worker' = [worker EXCEPT ![w] = k]
  BY <1>1, <1>5 DEF goto
<1> HIDE DEF k
<1>8. WorkerOK(k)'
  BY <1>2, <1>3, <1>4, <1>5, <1>6 DEF WorkerOK, BeforeChild
<1>9. WorkerHolds(k)'
  BY <1>4, <1>5, <1>6 DEF WorkerHolds
<1> QED BY <1>1, <1>2, <1>3, <1>4, <1>6, <1>7, <1>8, <1>9, LocalStep

\* The ends of an attempt: its owner closes it as st, or leaves it as it is.
LEMMA CloseKeeps ==
  ASSUME IInv, NEW w \in Worker, NEW x, x = worker[w], NEW g, g = x.attempt,
         x.pc \in {"attempt_complete", "fail", "history_validate"},
         goto(w, "quota_release"), NEW st \in States,
         transition(g, st) \/ attempts' = attempts,
         st \in {"unknown"} \cup Outcomes,
         st \in Outcomes => x.pc = "attempt_complete" /\ st = x.proves,
         faults' \in {faults, faults + 1},
         faults' = 0 => x.pc = "attempt_complete" \/ (transition(g, st) /\ st = "unknown"),
         UNCHANGED <<clock, reserved, records, leases, running, requested>>
  PROVE  IInv'
<1>1. /\ x \in Busy /\ g \in Begun /\ WorkerOK(x) /\ WorkerHolds(x) /\ x # Idle
      /\ TruthfulAt(g) /\ faults \in Nat /\ reserved \subseteq Begun
      /\ attempts \in Seq([state : States, expiresAt : Nat])
      /\ leases \subseteq [attempt : {0} \cup Begun, expiresAt : Nat]
  BY AtWork
<1>2. /\ attempts' \in Seq([state : States, expiresAt : Nat]) /\ Len(attempts') = Len(attempts)
      /\ \A h \in Begun : h # g => attempts'[h] = attempts[h]
      /\ attempts'[g] = attempts[g] \/ attempts'[g].state = st
      /\ transition(g, st) /\ attempts[g].state = "claimed" => attempts'[g].state = st
      /\ attempts[g].state # "claimed" => attempts'[g] = attempts[g]
  BY <1>1, TransitionEffect
<1> DEFINE k == [x EXCEPT !.pc = "quota_release"]
<1>3. k \in Busy /\ k # Idle /\ k.pc = "quota_release" /\ k.attempt = g
  BY <1>1, MovesToRelease
<1>4. worker' = [worker EXCEPT ![w] = k] /\ worker'[w] = k
  BY DEF goto, IInv, TypeOK
<1> HIDE DEF k
<1>5. \A h \in Begun : h # g => FrameAt(h)
  BY <1>2 DEF FrameAt
<1>6. st # "claimed"
  BY DEF Outcomes
<1>7. TruthfulAt(g)'
  <2>1. CASE attempts'[g] = attempts[g]
    BY <1>1, <2>1 DEF TruthfulAt
  <2>2. CASE attempts'[g].state = st
    BY <1>1, <2>2 DEF TruthfulAt, WorkerOK, Outcomes
  <2> QED BY <1>2, <2>1, <2>2
<1>8. WorkerOK(k)'
  BY <1>3 DEF WorkerOK, BeforeChild
<1>9. WorkerHolds(k)'
  <2> SUFFICES ASSUME faults' = 0 PROVE g \notin reserved \/ attempts'[g].state = "unknown"
    BY <1>3 DEF WorkerHolds
  <2>1. faults = 0
    BY <1>1
  <2>2. CASE x.pc = "attempt_complete"
    BY <1>1, <2>1, <2>2 DEF WorkerHolds
  <2>3. CASE transition(g, st) /\ st = "unknown"
    BY <1>1, <1>2, <2>3 DEF WorkerOK
  <2> QED BY <2>2, <2>3
<1>10. KeptAt(g)'
  BY <1>3, <1>4 DEF KeptAt, inProgress
<1> QED BY <1>1, <1>2, <1>3, <1>4, <1>5, <1>6, <1>7, <1>8, <1>9, <1>10, OwnStep

LEMMA CompleteAttemptKeeps == ASSUME IInv, NEW w \in Worker, CompleteAttempt(w) PROVE IInv'
<1>1. PICK x : x = worker[w]
  OBVIOUS
<1>2. PICK g : g = x.attempt
  OBVIOUS
<1>3. x.pc = "attempt_complete" /\ x \in Busy
  BY <1>1, AtWork DEF CompleteAttempt
<1>4. x.proves \in Outcomes
  BY <1>3 DEF Busy
<1>5. PICK st : st = withinLease(g, x.proves)
  OBVIOUS
<1>6. st \in {"unknown", x.proves}
  BY <1>5 DEF withinLease
<1>7. /\ transition(g, st) \/ attempts' = attempts
      /\ faults' \in {faults, faults + 1} /\ goto(w, "quota_release")
      /\ UNCHANGED <<clock, reserved, records, leases, running, requested>>
  BY <1>1, <1>2, <1>5 DEF CompleteAttempt, Fault, NoFault
<1>8. st \in {"unknown"} \cup Outcomes /\ st \in States /\ (st \in Outcomes => st = x.proves)
  BY <1>4, <1>6 DEF Outcomes, States
<1> QED BY <1>1, <1>2, <1>3, <1>7, <1>8, CloseKeeps

LEMMA FailAttemptKeeps == ASSUME IInv, NEW w \in Worker, FailAttempt(w) PROVE IInv'
<1>1. PICK x : x = worker[w]
  OBVIOUS
<1>2. PICK g : g = x.attempt
  OBVIOUS
<1>3. PICK st : st = "unknown"
  OBVIOUS
<1>4. x.pc \in {"fail", "history_validate"} /\ faults \in Nat
  BY <1>1, AtWork DEF FailAttempt
<1>5. /\ transition(g, st) \/ attempts' = attempts
      /\ faults' \in {faults, faults + 1} /\ goto(w, "quota_release")
      /\ faults' = 0 => transition(g, st)
      /\ UNCHANGED <<clock, reserved, records, leases, running, requested>>
  BY <1>1, <1>2, <1>3, <1>4 DEF FailAttempt, Fault, NoFault
<1>6. st \in {"unknown"} \cup Outcomes /\ st \in States /\ st \notin Outcomes
  BY <1>3 DEF Outcomes, States
<1> QED BY <1>1, <1>2, <1>3, <1>4, <1>5, <1>6, CloseKeeps

LEMMA ReleaseQuotaKeeps == ASSUME IInv, NEW w \in Worker, ReleaseQuota(w) PROVE IInv'
<1>1. PICK x : x = worker[w]
  OBVIOUS
<1>2. PICK g : g = x.attempt
  OBVIOUS
<1>3. /\ x.pc = "quota_release" /\ x \in Busy /\ g \in Begun /\ WorkerHolds(x) /\ x # Idle
      /\ TruthfulAt(g) /\ faults \in Nat /\ reserved \subseteq Begun
      /\ attempts \in Seq([state : States, expiresAt : Nat])
      /\ leases \subseteq [attempt : {0} \cup Begun, expiresAt : Nat]
  BY <1>1, <1>2, AtWork DEF ReleaseQuota
<1>4. /\ UNCHANGED <<clock, attempts, reserved, records, running, requested>>
      /\ faults' \in {faults, faults + 1} /\ worker' = [worker EXCEPT ![w] = Idle]
      /\ leases' \in {leases, {l \in leases : l.attempt # g}}
      /\ faults' = 0 => leases' = {l \in leases : l.attempt # g}
  BY <1>1, <1>2, <1>3 DEF ReleaseQuota, Fault, NoFault, return
<1>5. \A h \in Begun : h # g => FrameAt(h)
  BY <1>4 DEF FrameAt
<1>6. TruthfulAt(g)'
  BY <1>3, <1>4 DEF TruthfulAt
<1>7. faults' = 0 => faults = 0
  BY <1>3, <1>4
<1>8. KeptAt(g)'
  BY <1>2, <1>3, <1>4, <1>7 DEF KeptAt, WorkerHolds
<1>9. leases' \subseteq [attempt : {0} \cup Begun, expiresAt : Nat]
  BY <1>3, <1>4
<1> QED BY <1>1, <1>2, <1>3, <1>4, <1>5, <1>6, <1>8, <1>9, OwnStep

LEMMA CrashKeeps == ASSUME IInv, NEW w \in Worker, Crash(w) PROVE IInv'
<1>1. PICK x : x = worker[w]
  OBVIOUS
<1>2. PICK g : g = x.attempt
  OBVIOUS
<1>3. /\ x # Idle /\ TypeOK
      /\ UNCHANGED <<clock, attempts, reserved, records, leases, running, requested>>
      /\ faults' = faults + 1 /\ worker' = [worker EXCEPT ![w] = Idle]
  BY <1>1 DEF Crash, Fault, return, storeVars, IInv
<1>4. g \in Begun /\ faults \in Nat
  BY <1>1, <1>2, <1>3 DEF TypeOK
<1>5. \A h \in Begun : FrameAt(h)
  BY <1>3 DEF FrameAt
<1>6. TruthfulAt(g)'
  BY <1>3, <1>4 DEF IInv, TruthfulAt
<1>7. KeptAt(g)'
  BY <1>3, <1>4 DEF KeptAt
<1>8. /\ attempts \in Seq([state : States, expiresAt : Nat]) /\ reserved \subseteq Begun
      /\ leases \subseteq [attempt : {0} \cup Begun, expiresAt : Nat]
  BY <1>3 DEF TypeOK
<1> QED BY <1>1, <1>2, <1>3, <1>4, <1>5, <1>6, <1>7, <1>8, OwnStep

\* A child holds the newest attempt, so no worker starts a second one.
LEMMA ChildIsNewest ==
  ASSUME IInv, NEW c \in running
  PROVE  c.attempt = Len(attempts) /\ Len(attempts) \in Nat
<1>1. c.attempt \in Begun /\ attempts[c.attempt].state = "claimed"
  BY DEF IInv, TypeOK, ChildOK
<1>2. Len(attempts) \in Nat
  BY DEF IInv, TypeOK
<1>3. ~(c.attempt < Len(attempts))
  BY <1>1 DEF IInv, OneClaim
<1> QED BY <1>1, <1>2, <1>3 DEF Begun

LEMMA StartChildKeeps == ASSUME IInv, NEW w \in Worker, StartChild(w) PROVE IInv'
<1>1. PICK x : x = worker[w]
  OBVIOUS
<1>2. PICK g : g = x.attempt
  OBVIOUS
<1>3. PICK d : d = x.deadline
  OBVIOUS
<1>4. /\ x.pc = "runner" /\ x \in Busy /\ g \in Begun /\ WorkerOK(x) /\ x # Idle
      /\ TruthfulAt(g) /\ faults \in Nat /\ reserved \subseteq Begun /\ clock \in Nat
      /\ attempts \in Seq([state : States, expiresAt : Nat])
      /\ leases \subseteq [attempt : {0} \cup Begun, expiresAt : Nat]
      /\ attempts[g].expiresAt \in Nat
  BY <1>1, <1>2, AtWork DEF StartChild
<1>5. d \in Nat
  BY <1>3, <1>4 DEF Busy
<1>6. /\ UNCHANGED <<clock, attempts, reserved, records, leases, requested>>
      /\ faults' \in {faults, faults + 1}
  BY DEF StartChild, Fault, NoFault, storeVars
<1>7. CASE goto(w, "fail") /\ running' = running
  <2> DEFINE k == [x EXCEPT !.pc = "fail"]
  <2>1. k \in Busy /\ k.pc = "fail" /\ k.attempt = g
    BY <1>2, <1>4, MovesOn
  <2>2. worker' = [worker EXCEPT ![w] = k]
    BY <1>1, <1>7 DEF goto
  <2> HIDE DEF k
  <2>3. WorkerOK(k)'
    BY <1>2, <1>4, <1>6, <2>1 DEF WorkerOK, BeforeChild
  <2>4. WorkerHolds(k)'
    BY <2>1 DEF WorkerHolds
  <2> QED BY <1>1, <1>2, <1>4, <1>6, <1>7, <2>1, <2>2, <2>3, <2>4, LocalStep
<1>8. CASE /\ clock < d /\ goto(w, "child")
           /\ running' = running \cup {[attempt |-> g, deadline |-> d]}
  <2> DEFINE k == [x EXCEPT !.pc = "child"]
             c == [attempt |-> g, deadline |-> d]
  <2>1. k \in Busy /\ k # Idle /\ k.pc = "child" /\ k.attempt = g
    BY <1>2, <1>4, MovesOn
  <2>2. worker' = [worker EXCEPT ![w] = k] /\ worker'[w] = k
        /\ \A v \in Worker : v # w => worker'[v] = worker[v]
    BY <1>1, <1>8 DEF goto, IInv, TypeOK
  <2> HIDE DEF k
  <2>3. d < attempts[g].expiresAt /\ \E l \in leases : l.attempt = g /\ d < l.expiresAt
    BY <1>2, <1>3, <1>4, <1>8 DEF WorkerOK
  <2>4. attempts[g].state = "claimed"
    <3>1. clock < attempts[g].expiresAt
      BY <1>4, <1>5, <1>8, <2>3
    <3> QED BY <1>2, <1>4, <3>1 DEF WorkerOK
  <2>5. running = {}
    <3> SUFFICES ASSUME NEW e \in running PROVE FALSE
      OBVIOUS
    <3>1. Len(attempts) \in Nat /\ ~(g < Len(attempts))
      BY <1>4, <2>4 DEF IInv, OneClaim
    <3>2. e.attempt = g
      BY <1>4, <3>1, ChildIsNewest DEF Begun
    <3> QED BY <1>1, <1>2, <1>4, <3>2 DEF IInv, ChildOK
  <2>6. running' = {c} /\ c.attempt = g /\ c.deadline = d
    BY <1>8, <2>5
  <2> HIDE DEF c
  <2>7. c \in [attempt : Begun, deadline : Nat]
    BY <1>4, <1>5 DEF c
  <2>8. \A v \in Worker : worker'[v] # Idle /\ worker'[v].attempt = g => worker'[v].pc = "child"
    BY <1>1, <1>2, <1>4, <2>1, <2>2 DEF IInv, OneOwner
  <2>9. clock <= d
    BY <1>4, <1>5, <1>8
  <2>10. ChildOK(c)'
    BY <1>6, <2>3, <2>4, <2>6, <2>8, <2>9 DEF ChildOK
  <2>11. WorkerOK(k)'
    BY <1>2, <1>4, <1>6, <2>1 DEF WorkerOK, BeforeChild
  <2>12. WorkerHolds(k)'
    BY <2>1 DEF WorkerHolds
  <2>13. TruthfulAt(g)'
    BY <1>4, <1>6 DEF TruthfulAt
  <2>14. KeptAt(g)'
    BY <2>1, <2>2 DEF KeptAt, inProgress
  <2>15. \A h \in Begun : FrameAt(h)
    BY <1>6 DEF FrameAt
  <2>16. running' \subseteq [attempt : Begun, deadline : Nat] /\ \A e \in running' : ChildOK(e)'
    BY <2>6, <2>7, <2>10
  <2> QED BY <1>1, <1>2, <1>4, <1>6, <2>1, <2>2, <2>11, <2>12, <2>13, <2>14, <2>15, <2>16, OwnStep
<1> QED BY <1>1, <1>2, <1>3, <1>7, <1>8 DEF StartChild

\* The child c of attempt g ends and the worker that waits for it goes on as k.
LEMMA ChildEnds ==
  ASSUME IInv, NEW c \in running, NEW w \in Worker, waitsFor(w, c), NEW g, g = c.attempt,
         NEW k \in Busy, worker' = [worker EXCEPT ![w] = k], k.attempt = g,
         k.pc \in {"fail", "history_validate", "history_append"},
         k.pc = "history_append" => (k.proves = "failed" <=> g \notin requested),
         running' = running \ {c},
         UNCHANGED <<clock, faults, attempts, reserved, records, leases, requested>>
  PROVE  IInv'
<1>1. PICK x : x = worker[w]
  OBVIOUS
<1>2. /\ x.pc = "child" /\ g = x.attempt /\ x \in Busy /\ g \in Begun /\ WorkerOK(x) /\ x # Idle
      /\ TruthfulAt(g) /\ reserved \subseteq Begun
      /\ attempts \in Seq([state : States, expiresAt : Nat])
      /\ leases \subseteq [attempt : {0} \cup Begun, expiresAt : Nat]
  BY <1>1, AtWork DEF waitsFor
<1>3. running' = {} /\ running' # running
  BY DEF IInv, ChildOK
<1>4. k # Idle
  BY DEF Busy, Idle
<1>5. worker'[w] = k
  BY DEF IInv, TypeOK
<1>6. WorkerOK(k)'
  BY <1>2 DEF WorkerOK, BeforeChild
<1>7. WorkerHolds(k)'
  BY DEF WorkerHolds
<1>8. TruthfulAt(g)'
  BY <1>2 DEF TruthfulAt
<1>9. KeptAt(g)'
  BY <1>4, <1>5 DEF KeptAt, inProgress
<1>10. \A h \in Begun : FrameAt(h)
  BY DEF FrameAt
<1> QED BY <1>1, <1>2, <1>3, <1>4, <1>6, <1>7, <1>8, <1>9, <1>10, OwnStep

LEMMA ChildReportsKeeps ==
  ASSUME IInv, NEW w \in Worker, NEW c \in running, NEW r \in RunnerReceipts, ChildReports(w, c, r)
  PROVE  IInv'
<1>1. PICK g : g = c.attempt
  OBVIOUS
<1>2. /\ ValidateStoredRecord(r) /\ committedState(r) \in Outcomes
      /\ committedState(r) = "failed" <=> ~r.requestStarted
  BY ReceiptAccepted
<1>3. /\ waitsFor(w, c) /\ running' = running \ {c} /\ (r.requestStarted <=> g \in requested)
      /\ UNCHANGED <<clock, faults, attempts, reserved, records, leases, requested>>
  BY <1>1 DEF ChildReports, storeVars
<1> DEFINE k == [pc |-> "history_append", attempt |-> g, proves |-> committedState(r),
                 accepted |-> ledgerAccepts(r), badTimes |-> badResultTimes(r)]
<1>4. worker' = [worker EXCEPT ![w] = k]
  BY <1>1, <1>2 DEF ChildReports
<1>5. g \in Begun
  BY <1>1 DEF IInv, TypeOK
<1>6. k \in Busy /\ k.attempt = g /\ k.pc = "history_append" /\ k.proves = committedState(r)
  <2>1. ledgerAccepts(r) \in BOOLEAN
    BY ReceiptAccepted
  <2>2. badResultTimes(r) \in BOOLEAN
    BY DEF badResultTimes
  <2> QED BY <1>2, <1>5, <2>1, <2>2 DEF Busy, Begun
<1> HIDE DEF k
<1> QED BY <1>1, <1>2, <1>3, <1>4, <1>6, ChildEnds

\* A step that only closes the newest attempt, because its lease is over, or ends
\* a child nobody waits for.
LEMMA WorldStep ==
  ASSUME IInv, worker' = worker, UNCHANGED <<clock, faults, reserved, records, leases, requested>>,
         running' = {}, attempts' \in Seq([state : States, expiresAt : Nat]),
         Len(attempts') = Len(attempts),
         \A h \in Begun :
           \/ attempts'[h] = attempts[h]
           \/ /\ attempts'[h].state = "unknown" /\ attempts'[h].expiresAt = attempts[h].expiresAt
              /\ ~(clock < attempts[h].expiresAt)
  PROVE  IInv'
<1>1. TypeOK /\ Begun' = Begun
  BY DEF IInv, Begun
<1>2. TypeOK'
  BY <1>1 DEF TypeOK
<1>3. OneClaim' /\ OneOwner'
  BY <1>1 DEF IInv, OneClaim, OneOwner
<1>4. ASSUME NEW v \in Worker, worker[v] # Idle
      PROVE  WorkerOK(worker[v])' /\ WorkerHolds(worker[v])'
  <2>1. WorkerOK(worker[v]) /\ WorkerHolds(worker[v]) /\ worker[v].attempt \in Begun
    BY <1>1, <1>4 DEF IInv, TypeOK
  <2>2. WorkerOK(worker[v])'
    BY <2>1 DEF WorkerOK
  <2>3. WorkerHolds(worker[v])'
    BY <2>1 DEF WorkerHolds
  <2> QED BY <2>2, <2>3
<1>5. ASSUME NEW h \in Begun PROVE TruthfulAt(h)' /\ KeptAt(h)'
  <2>1. TruthfulAt(h) /\ KeptAt(h)
    BY DEF IInv
  <2>2. inProgress(h)' <=> inProgress(h)
    BY DEF inProgress
  <2>3. TruthfulAt(h)'
    BY <2>1 DEF TruthfulAt, Outcomes
  <2>4. KeptAt(h)'
    BY <2>1, <2>2 DEF KeptAt
  <2> QED BY <2>3, <2>4
<1> QED BY <1>1, <1>2, <1>3, <1>4, <1>5 DEF IInv

LEMMA ChildLostKeeps == ASSUME IInv, NEW c \in running, ChildLost(c) PROVE IInv'
<1>1. PICK g : g = c.attempt
  OBVIOUS
<1>2. /\ running' = running \ {c}
      /\ UNCHANGED <<clock, faults, attempts, reserved, records, leases, requested>>
  BY DEF ChildLost, storeVars
<1> DEFINE k == [pc |-> "fail", attempt |-> g]
<1>3. worker' = [w \in Worker |-> IF waitsFor(w, c) THEN k ELSE worker[w]]
  BY <1>1 DEF ChildLost
<1>4. g \in Begun
  BY <1>1 DEF IInv, TypeOK
<1>5. k \in Busy /\ k.attempt = g /\ k.pc = "fail"
  BY <1>4 DEF Busy, Begun
<1>6. worker \in [Worker -> {Idle} \cup Busy]
  BY DEF IInv, TypeOK
<1> HIDE DEF k
<1>7. CASE \E w \in Worker : waitsFor(w, c)
  <2>1. PICK w \in Worker : waitsFor(w, c)
    BY <1>7
  <2>2. \A v \in Worker : waitsFor(v, c) => v = w
    BY <2>1 DEF waitsFor, IInv, OneOwner, Idle
  <2>3. worker' = [worker EXCEPT ![w] = k]
    BY <1>3, <1>6, <2>1, <2>2
  <2> QED BY <1>1, <1>2, <1>5, <2>1, <2>3, ChildEnds
<1>8. CASE ~\E w \in Worker : waitsFor(w, c)
  <2>1. worker' = worker
    BY <1>3, <1>6, <1>8
  <2>2. running' = {}
    BY <1>2 DEF IInv, ChildOK
  <2>3. attempts \in Seq([state : States, expiresAt : Nat])
    BY DEF IInv, TypeOK
  <2> QED BY <1>2, <2>1, <2>2, <2>3, WorldStep
<1> QED BY <1>7, <1>8

LEMMA BeginFindsExpiredKeeps == ASSUME IInv, NEW w \in Worker, BeginFindsExpired(w) PROVE IInv'
<1>1. PICK g : g = Len(attempts)
  OBVIOUS
<1>2. /\ claimed(g) /\ clock >= attempts[g].expiresAt
      /\ attempts' = [attempts EXCEPT ![g].state = "unknown"]
      /\ UNCHANGED <<clock, faults, reserved, records, leases, running, requested, worker>>
  BY <1>1 DEF BeginFindsExpired
<1>3. attempts \in Seq([state : States, expiresAt : Nat]) /\ clock \in Nat
  BY DEF IInv, TypeOK
<1>4. g \in Begun
  BY <1>2, <1>3 DEF claimed, Begun
<1>5. transition(g, "unknown") /\ "unknown" \in States
  BY <1>2 DEF transition, States
<1>6. /\ attempts' \in Seq([state : States, expiresAt : Nat]) /\ Len(attempts') = Len(attempts)
      /\ \A h \in Begun : h # g => attempts'[h] = attempts[h]
      /\ attempts'[g].expiresAt = attempts[g].expiresAt
      /\ attempts[g].state = "claimed" => attempts'[g].state = "unknown"
  BY <1>3, <1>4, <1>5, TransitionEffect
<1>7. attempts[g].expiresAt \in Nat
  <2>1. attempts[g] \in [state : States, expiresAt : Nat]
    BY <1>3, <1>4, ElementOfSeq DEF Begun
  <2> QED BY <2>1
<1>8. ~(clock < attempts[g].expiresAt)
  BY <1>2, <1>3, <1>7
<1>9. running = {}
  <2> SUFFICES ASSUME NEW c \in running PROVE FALSE
    OBVIOUS
  <2>1. c.attempt = g /\ c.deadline \in Nat
    BY <1>1, ChildIsNewest DEF IInv, TypeOK
  <2>2. clock <= c.deadline /\ c.deadline < attempts[g].expiresAt
    BY <2>1 DEF IInv, ChildOK
  <2> QED BY <1>3, <1>7, <1>8, <2>1, <2>2
<1> QED BY <1>2, <1>6, <1>8, <1>9, WorldStep DEF claimed

LEMMA ChildRequestsKeeps == ASSUME IInv, NEW c \in running, ChildRequests(c) PROVE IInv'
<1>1. PICK a : a = c.attempt
  OBVIOUS
<1>2. /\ requested' = requested \cup {a}
      /\ UNCHANGED <<clock, faults, attempts, reserved, records, leases, running, worker>>
  BY <1>1 DEF ChildRequests, storeVars
<1>3. TypeOK /\ a \in Begun /\ attempts[a].state = "claimed" /\ Begun' = Begun
  BY <1>1, <1>2 DEF IInv, TypeOK, ChildOK, Begun
<1>4. TypeOK'
  BY <1>2, <1>3 DEF TypeOK
<1>5. OneClaim' /\ OneOwner' /\ \A d \in running' : ChildOK(d)'
  BY <1>2, <1>3 DEF IInv, OneClaim, OneOwner, ChildOK
<1>6. ASSUME NEW w \in Worker, worker[w] # Idle
      PROVE  WorkerOK(worker[w])' /\ WorkerHolds(worker[w])'
  <2>1. WorkerOK(worker[w]) /\ WorkerHolds(worker[w])
    BY <1>6 DEF IInv
  <2>2. worker[w].attempt = a => worker[w].pc = "child"
    BY <1>1, <1>6 DEF IInv, ChildOK
  <2>3. WorkerOK(worker[w])'
    BY <1>2, <2>1, <2>2 DEF WorkerOK, BeforeChild
  <2>4. WorkerHolds(worker[w])'
    BY <1>2, <2>1 DEF WorkerHolds
  <2> QED BY <2>3, <2>4
<1>7. ASSUME NEW h \in Begun PROVE TruthfulAt(h)' /\ KeptAt(h)'
  <2>1. TruthfulAt(h) /\ KeptAt(h)
    BY DEF IInv
  <2>2. TruthfulAt(h)'
    BY <1>2, <1>3, <2>1 DEF TruthfulAt, Outcomes
  <2>3. KeptAt(h)'
    BY <1>2, <2>1 DEF KeptAt, inProgress
  <2> QED BY <2>2, <2>3
<1> QED BY <1>2, <1>3, <1>4, <1>5, <1>6, <1>7 DEF IInv

LEMMA TickKeeps == ASSUME IInv, Tick PROVE IInv'
<1>1. /\ clock' = clock + 1 /\ \A c \in running : clock < c.deadline
      /\ UNCHANGED <<faults, attempts, reserved, records, leases, running, requested, worker>>
  BY DEF Tick, storeVars
<1>2. TypeOK /\ Begun' = Begun /\ clock \in Nat /\ clock' \in Nat
  BY <1>1 DEF IInv, TypeOK, Begun
<1>3. TypeOK'
  BY <1>1, <1>2 DEF TypeOK
<1>4. OneClaim' /\ OneOwner'
  BY <1>1, <1>2 DEF IInv, OneClaim, OneOwner
<1>5. ASSUME NEW c \in running PROVE ChildOK(c)'
  <2>1. c.deadline \in Nat
    BY <1>2 DEF TypeOK
  <2>2. clock' <= c.deadline
    BY <1>1, <1>2, <2>1
  <2> QED BY <1>1, <2>2 DEF IInv, ChildOK
<1>6. ASSUME NEW w \in Worker, worker[w] # Idle
      PROVE  WorkerOK(worker[w])' /\ WorkerHolds(worker[w])'
  <2>1. PICK x : x = worker[w]
    OBVIOUS
  <2>2. WorkerOK(x) /\ WorkerHolds(x) /\ x \in Busy /\ x.attempt \in Begun /\ x = worker'[w]
    BY <1>1, <1>2, <1>6, <2>1 DEF IInv, TypeOK
  <2>3. attempts[x.attempt].expiresAt \in Nat
    <3>1. attempts \in Seq([state : States, expiresAt : Nat])
      BY <1>2 DEF TypeOK
    <3>2. attempts[x.attempt] \in [state : States, expiresAt : Nat]
      BY <2>2, <3>1, ElementOfSeq DEF Begun
    <3> QED BY <3>2
  <2>4. \A n \in Nat : clock' < n => clock < n
    BY <1>1, <1>2
  <2>5. /\ x.pc = "execution_deadline" => x.quotaExpiresAt \in Nat
        /\ x.pc = "runner" => x.deadline \in Nat
    BY <2>2 DEF Busy
  <2>6. WorkerOK(x)'
    BY <1>1, <2>2, <2>3, <2>4, <2>5 DEF WorkerOK
  <2>7. WorkerHolds(x)'
    BY <1>1, <2>2 DEF WorkerHolds
  <2> QED BY <2>2, <2>6, <2>7 DEF WorkerOK, WorkerHolds
<1>7. ASSUME NEW h \in Begun PROVE TruthfulAt(h)' /\ KeptAt(h)'
  BY <1>1 DEF IInv, TruthfulAt, KeptAt, inProgress
<1> QED BY <1>1, <1>2, <1>3, <1>4, <1>5, <1>6, <1>7 DEF IInv

LEMMA BeginAttemptKeeps == ASSUME IInv, NEW w \in Worker, BeginAttempt(w) PROVE IInv'
<1>1. PICK g : g = Len(attempts) + 1
  OBVIOUS
<1>2. PICK e : e = [state |-> "claimed", expiresAt |-> clock + AttemptLease]
  OBVIOUS
<1>3. PICK k : k = [pc |-> "history_reservation", attempt |-> g]
  OBVIOUS
<1>4. /\ worker[w].pc = "idle" /\ ~claimed(Len(attempts)) /\ attempts' = Append(attempts, e)
      /\ worker' = [worker EXCEPT ![w] = k]
      /\ UNCHANGED <<clock, faults, reserved, records, leases, running, requested>>
  BY <1>1, <1>2, <1>3 DEF BeginAttempt
<1>5. /\ TypeOK /\ clock \in Nat /\ Len(attempts) \in Nat
      /\ attempts \in Seq([state : States, expiresAt : Nat])
      /\ worker \in [Worker -> {Idle} \cup Busy]
  BY DEF IInv, TypeOK
<1>6. e \in [state : States, expiresAt : Nat] /\ e.state = "claimed"
  BY <1>2, <1>5, WorkerAssumption DEF States
<1>7. /\ attempts' \in Seq([state : States, expiresAt : Nat])
      /\ Len(attempts') = g /\ attempts'[g] = e
      /\ \A h \in 1..Len(attempts) : attempts'[h] = attempts[h]
  <2> DEFINE S == [state : States, expiresAt : Nat]
  <2>1. attempts \in Seq(S) /\ e \in S
    BY <1>5, <1>6
  <2> HIDE DEF S
  <2>2. /\ attempts' \in Seq(S) /\ Len(attempts') = g /\ attempts'[g] = e
        /\ \A h \in 1..Len(attempts) : attempts'[h] = attempts[h]
    BY <1>1, <1>4, <2>1
  <2> QED BY <2>2 DEF S
<1>8. Begun' = Begun \cup {g} /\ g \notin Begun /\ g # 0 /\ g \in Nat
  BY <1>1, <1>5, <1>7 DEF Begun
<1>9. k \in Busy /\ k # Idle /\ k.pc = "history_reservation" /\ k.attempt = g
  BY <1>3, <1>8 DEF Busy, Idle
<1>10. worker'[w] = k /\ \A v \in Worker : v # w => worker'[v] = worker[v]
  BY <1>4, <1>5
<1>11. \A h \in Begun : attempts[h].state # "claimed"
  <2>1. ASSUME NEW h \in Begun, h = Len(attempts) PROVE attempts[h].state # "claimed"
    BY <1>4, <1>5, <2>1 DEF claimed, Begun
  <2> QED BY <1>5, <2>1 DEF IInv, OneClaim, Begun
<1>12. running = {}
  <2> SUFFICES ASSUME NEW c \in running PROVE FALSE
    OBVIOUS
  <2>1. c.attempt \in Begun /\ attempts[c.attempt].state = "claimed"
    BY <1>5 DEF TypeOK, IInv, ChildOK
  <2> QED BY <1>11, <2>1
<1>13. \A v \in Worker : worker[v] # Idle => worker[v] \in Busy /\ worker[v].attempt \in Begun
  BY <1>5 DEF TypeOK
<1>14. TypeOK'
  <2>1. worker' \in [Worker -> {Idle} \cup Busy]
    BY <1>4, <1>5, <1>9
  <2>2. \A v \in Worker : worker'[v] # Idle => worker'[v].attempt \in Begun'
    BY <1>8, <1>9, <1>10, <1>13
  <2>3. reserved' \subseteq Begun' /\ requested' \subseteq Begun'
    BY <1>4, <1>5, <1>8 DEF TypeOK
  <2>4. leases' \subseteq [attempt : {0} \cup Begun', expiresAt : Nat]
    BY <1>4, <1>5, <1>8 DEF TypeOK
  <2> QED BY <1>4, <1>5, <1>7, <1>12, <2>1, <2>2, <2>3, <2>4 DEF TypeOK
<1>15. OneClaim'
  <2>1. \A h \in Begun' : h < Len(attempts') => h \in Begun
    BY <1>1, <1>5, <1>7, <1>8 DEF Begun
  <2> QED BY <1>7, <1>11, <2>1 DEF OneClaim, Begun
<1>16. OneOwner'
  BY <1>8, <1>9, <1>10, <1>13 DEF IInv, OneOwner
<1>17. \A h \in Begun : FrameAt(h)
  BY <1>4, <1>7 DEF FrameAt, Begun
<1>18. g \notin requested /\ g \notin reserved /\ \A l \in leases : l.attempt # g
  BY <1>5, <1>8 DEF TypeOK
<1>19. WorkerOK(k)'
  BY <1>4, <1>6, <1>7, <1>9, <1>18 DEF WorkerOK, BeforeChild
<1>20. WorkerHolds(k)'
  BY <1>4, <1>9, <1>18 DEF WorkerHolds
<1>21. ASSUME NEW v \in Worker, worker'[v] # Idle
       PROVE  WorkerOK(worker[v])' /\ WorkerHolds(worker[v])'
  <2>1. CASE v = w
    BY <1>10, <1>19, <1>20, <2>1 DEF WorkerOK, WorkerHolds
  <2>2. CASE v # w
    <3>1. PICK x : x = worker[v]
      OBVIOUS
    <3>2. x = worker'[v] /\ x # Idle /\ x \in Busy /\ x.attempt \in Begun
      BY <1>10, <1>13, <1>21, <2>2, <3>1
    <3>3. WorkerOK(x) /\ WorkerHolds(x) /\ FrameAt(x.attempt)
      BY <1>17, <3>1, <3>2 DEF IInv
    <3>4. WorkerOK(x)' /\ WorkerHolds(x)'
      BY <1>4, <1>5, <3>2, <3>3, FrameKeepsWorker
    <3> QED BY <3>2, <3>4 DEF WorkerOK, WorkerHolds
  <2> QED BY <2>1, <2>2
<1>22. ASSUME NEW h \in Begun' PROVE TruthfulAt(h)' /\ KeptAt(h)'
  <2>1. CASE h = g
    BY <1>4, <1>6, <1>7, <1>18, <2>1 DEF TruthfulAt, KeptAt, Outcomes
  <2>2. CASE h \in Begun
    <3>1. TruthfulAt(h) /\ KeptAt(h) /\ attempts'[h] = attempts[h]
      BY <1>7, <2>2 DEF IInv, Begun
    <3>2. inProgress(h) => inProgress(h)'
      <4>1. worker[w] = Idle
        BY <1>4, <1>5 DEF Busy, Idle
      <4> QED BY <1>10, <4>1 DEF inProgress
    <3>3. TruthfulAt(h)'
      BY <1>4, <3>1 DEF TruthfulAt
    <3>4. KeptAt(h)'
      BY <1>4, <3>1, <3>2 DEF KeptAt
    <3> QED BY <3>3, <3>4
  <2> QED BY <1>8, <1>22, <2>1, <2>2
<1> QED BY <1>4, <1>12, <1>14, <1>15, <1>16, <1>21, <1>22 DEF IInv

-----------------------------------------------------------------------------
LEMMA InitIInv == Init => IInv
<1> SUFFICES ASSUME Init PROVE IInv
  OBVIOUS
<1>1. Begun = {}
  BY DEF Init, Begun
<1>2. clock \in Nat /\ clock + QuotaLease \in Nat
  BY WorkerAssumption DEF Init
<1>3. leases \subseteq [attempt : {0} \cup Begun, expiresAt : Nat]
  BY <1>2 DEF Init
<1>4. TypeOK
  BY <1>1, <1>2, <1>3 DEF Init, TypeOK
<1> QED BY <1>1, <1>4 DEF Init, IInv, OneClaim, OneOwner

LEMMA NextIInv == IInv /\ [Next]_vars => IInv'
<1> SUFFICES ASSUME IInv, [Next]_vars PROVE IInv'
  OBVIOUS
<1>1. ASSUME NEW w \in Worker, WorkerStep(w) PROVE IInv'
  BY <1>1, ReserveKeeps, AcquireQuotaKeeps, CancelReservationKeeps, DeferKeeps,
     ExecutionDeadlineKeeps, StartChildKeeps, ArchiveReceiptKeeps, CompleteAttemptKeeps,
     FailAttemptKeeps, ReleaseQuotaKeeps DEF WorkerStep
<1>2. ASSUME NEW w \in Worker, BeginAttempt(w) \/ BeginFindsExpired(w) \/ Crash(w) PROVE IInv'
  BY <1>2, BeginAttemptKeeps, BeginFindsExpiredKeeps, CrashKeeps
<1>3. ASSUME NEW c \in running, ChildRequests(c) \/ ChildLost(c) PROVE IInv'
  BY <1>3, ChildRequestsKeeps, ChildLostKeeps
<1>4. ASSUME NEW w \in Worker, NEW c \in running, NEW r \in RunnerReceipts, ChildReports(w, c, r)
      PROVE  IInv'
  BY <1>4, ChildReportsKeeps
<1>5. CASE Tick
  BY <1>5, TickKeeps
<1>6. CASE UNCHANGED vars
  <2>1. UNCHANGED <<clock, faults, attempts, reserved, records, leases, running, requested, worker>>
    BY <1>6 DEF vars, storeVars
  <2> QED BY <2>1 DEF IInv, TypeOK, Begun, OneClaim, OneOwner, ChildOK, WorkerOK, WorkerHolds,
                      TruthfulAt, KeptAt, inProgress
<1> QED BY <1>1, <1>2, <1>3, <1>4, <1>5, <1>6 DEF Next

LEMMA IInvHolds == Spec => []IInv
  BY InitIInv, NextIInv, PTL DEF Spec

\* The children of one operation never overlap, whatever crashes and whoever
\* takes over, and a child that runs has a quota lease that lasts: for all
\* lease and probe times that newOperationPlanWorker accepts.
THEOREM RequestsAreCovered == Spec => []RequestCovered
<1>1. IInv => RequestCovered
  <2> SUFFICES ASSUME IInv PROVE RequestCovered
    OBVIOUS
  <2>1. ASSUME NEW c \in running PROVE \E l \in liveLeases : l.attempt = c.attempt
    <3>1. PICK l \in leases : l.attempt = c.attempt /\ c.deadline < l.expiresAt
      BY DEF IInv, ChildOK
    <3>2. clock <= c.deadline
      BY DEF IInv, ChildOK
    <3>3. clock \in Nat /\ c.deadline \in Nat /\ l.expiresAt \in Nat
      BY DEF IInv, TypeOK
    <3>4. clock < l.expiresAt
      BY <3>1, <3>2, <3>3
    <3> QED BY <3>1, <3>4 DEF liveLeases
  <2>2. Cardinality(running) <= 1
    <3>1. CASE running = {}
      <4>1. Cardinality({}) = 0
        BY FS_EmptySet
      <4> QED BY <3>1, <4>1
    <3>2. CASE running # {}
      <4>1. PICK c \in running : TRUE
        BY <3>2
      <4>2. running = {c}
        BY <4>1 DEF IInv, ChildOK
      <4>3. Cardinality({c}) = 1
        BY FS_Singleton
      <4> QED BY <4>2, <4>3
    <3> QED BY <3>1, <3>2
  <2> QED BY <2>1, <2>2 DEF RequestCovered
<1> QED BY <1>1, IInvHolds, PTL

\* The ledger never misstates what happened to a request, and what it commits
\* from a receipt has that receipt in the archive (ExecuteOne).
THEOREM EvidenceIsTruthful == Spec => []EvidenceTruthful
<1>1. IInv => EvidenceTruthful
  BY DEF IInv, Begun, TruthfulAt, EvidenceTruthful, Outcomes
<1> QED BY <1>1, IInvHolds, PTL

\* Every early return of ExecuteOne gives back what was taken before it.
THEOREM NothingIsLeaked == Spec => []NothingLeaks
<1>1. IInv => NothingLeaks
  <2> SUFFICES ASSUME IInv, faults = 0
               PROVE  /\ \A g \in reserved : inProgress(g) \/ attempts[g].state = "unknown"
                      /\ \A l \in leases : l.attempt = 0 \/ inProgress(l.attempt)
    BY DEF NothingLeaks
  <2>1. reserved \subseteq Begun /\ \A l \in leases : l.attempt \in {0} \cup Begun
    BY DEF IInv, TypeOK
  <2>2. \A g \in Begun : KeptAt(g)
    BY DEF IInv
  <2> QED BY <2>1, <2>2 DEF KeptAt
<1> QED BY <1>1, IInvHolds, PTL
-----------------------------------------------------------------------------
(* What becomes of a receipt.                                               *)

\* Every receipt a worker carries passed the archive's validation, and the
\* ledger will accept it.
Usable(k) ==
  /\ k.pc # "history_validate"
  /\ k.pc \in {"history_append", "attempt_complete"} => k.accepted

AllUsable == \A w \in Worker : Usable(worker[w])

LEMMA UsableStep ==
  ASSUME TypeOK, AllUsable, NEW w \in Worker, NEW k, Usable(k), worker' = [worker EXCEPT ![w] = k]
  PROVE  AllUsable'
<1>1. worker'[w] = k /\ \A v \in Worker : v # w => worker'[v] = worker[v]
  BY DEF TypeOK
<1>2. \A v \in Worker : worker'[v] = k \/ worker'[v] = worker[v]
  BY <1>1
<1> QED BY <1>2 DEF AllUsable, Usable

LEMMA UsableGoto ==
  ASSUME TypeOK, AllUsable, NEW w \in Worker, worker[w] # Idle, NEW pc, goto(w, pc),
         pc \notin {"history_validate", "history_append"},
         pc = "attempt_complete" => worker[w].pc = "history_append"
  PROVE  AllUsable'
<1>1. PICK x : x = worker[w]
  OBVIOUS
<1>2. x \in Busy /\ Usable(x)
  BY <1>1 DEF TypeOK, AllUsable
<1> DEFINE k == [x EXCEPT !.pc = pc]
<1>3. k.pc = pc
  BY <1>2 DEF Busy
<1>4. pc = "attempt_complete" => k.accepted
  <2> SUFFICES ASSUME pc = "attempt_complete" PROVE k.accepted
    OBVIOUS
  <2>1. x.pc = "history_append" /\ x.accepted
    BY <1>1, <1>2 DEF Usable
  <2>2. k.accepted = x.accepted
    BY <1>2, <2>1 DEF Busy
  <2> QED BY <2>1, <2>2
<1>5. Usable(k)
  BY <1>3, <1>4 DEF Usable
<1>6. worker' = [worker EXCEPT ![w] = k]
  BY <1>1 DEF goto
<1> HIDE DEF k
<1> QED BY <1>5, <1>6, UsableStep

LEMMA UsableReturn ==
  ASSUME TypeOK, AllUsable, NEW w \in Worker, return(w) PROVE AllUsable'
<1>1. Usable(Idle)
  BY DEF Usable, Idle
<1> QED BY <1>1, UsableStep DEF return

LEMMA NextUsable == ASSUME TypeOK, AllUsable, [Next]_vars PROVE AllUsable'
<1>1. ASSUME NEW w \in Worker, WorkerStep(w) PROVE AllUsable'
  <2>1. worker[w] # Idle
    BY <1>1 DEF WorkerStep, Reserve, AcquireQuota, CancelReservation, Defer, ExecutionDeadline,
       StartChild, ArchiveReceipt, CompleteAttempt, FailAttempt, ReleaseQuota, Idle
  <2>2. CASE Reserve(w)
    <3>1. PICK pc \in {"quota_acquire", "defer", "cancel_or_return"} : goto(w, pc)
      BY <2>2 DEF Reserve
    <3> QED BY <2>1, <3>1, UsableGoto
  <2>3. CASE AcquireQuota(w)
    <3>1. \/ goto(w, "quota_acquire_cleanup")
          \/ \E a, e : worker' = [worker EXCEPT ![w] =
               [pc |-> "execution_deadline", attempt |-> a, quotaExpiresAt |-> e]]
      BY <2>3 DEF AcquireQuota
    <3>2. \A a, e : Usable([pc |-> "execution_deadline", attempt |-> a, quotaExpiresAt |-> e])
      BY DEF Usable
    <3> QED BY <2>1, <3>1, <3>2, UsableGoto, UsableStep
  <2>4. CASE CancelReservation(w)
    <3>1. goto(w, "defer") \/ return(w)
      BY <2>4 DEF CancelReservation
    <3> QED BY <2>1, <3>1, UsableGoto, UsableReturn
  <2>5. CASE Defer(w) \/ ReleaseQuota(w)
    BY <2>5, UsableReturn DEF Defer, ReleaseQuota
  <2>6. CASE ExecutionDeadline(w)
    <3>1. \E k : Usable(k) /\ worker' = [worker EXCEPT ![w] = k]
      <4>1. \A a, d : Usable([pc |-> "runner", attempt |-> a, deadline |-> d])
        BY DEF Usable
      <4>2. \A a : Usable(afterInfeasible(a))
        BY DEF Usable, afterInfeasible
      <4> QED BY <2>6, <4>1, <4>2 DEF ExecutionDeadline
    <3> QED BY <3>1, UsableStep
  <2>7. CASE StartChild(w)
    <3>1. PICK pc \in {"child", "fail"} : goto(w, pc)
      BY <2>7 DEF StartChild
    <3> QED BY <2>1, <3>1, UsableGoto
  <2>8. CASE ArchiveReceipt(w)
    <3>1. worker[w].pc = "history_append" /\ (goto(w, "attempt_complete") \/ goto(w, "fail"))
      BY <2>8 DEF ArchiveReceipt
    <3> QED BY <2>1, <3>1, UsableGoto
  <2>9. CASE CompleteAttempt(w) \/ FailAttempt(w)
    <3>1. goto(w, "quota_release")
      BY <2>9 DEF CompleteAttempt, FailAttempt
    <3> QED BY <2>1, <3>1, UsableGoto
  <2> QED BY <1>1, <2>2, <2>3, <2>4, <2>5, <2>6, <2>7, <2>8, <2>9 DEF WorkerStep
<1>2. ASSUME NEW w \in Worker, BeginAttempt(w) PROVE AllUsable'
  <2>1. \A a : Usable([pc |-> "history_reservation", attempt |-> a])
    BY DEF Usable
  <2> QED BY <1>2, <2>1, UsableStep DEF BeginAttempt
<1>3. ASSUME NEW w \in Worker, Crash(w) PROVE AllUsable'
  BY <1>3, UsableReturn DEF Crash
<1>4. ASSUME NEW w \in Worker, NEW c \in running, NEW r \in RunnerReceipts, ChildReports(w, c, r)
      PROVE  AllUsable'
  <2>1. ValidateStoredRecord(r) /\ ledgerAccepts(r)
    BY ReceiptAccepted
  <2> DEFINE k == [pc |-> "history_append", attempt |-> c.attempt,
                   proves |-> committedState(r), accepted |-> ledgerAccepts(r),
                   badTimes |-> badResultTimes(r)]
  <2>2. worker' = [worker EXCEPT ![w] = k]
    BY <1>4, <2>1 DEF ChildReports
  <2>3. Usable(k)
    BY <2>1 DEF Usable
  <2> HIDE DEF k
  <2> QED BY <2>2, <2>3, UsableStep
<1>5. ASSUME NEW c \in running, ChildLost(c) PROVE AllUsable'
  <2>1. \A v \in Worker : worker'[v] = worker[v] \/ worker'[v] = [pc |-> "fail", attempt |-> c.attempt]
    BY <1>5 DEF ChildLost
  <2>2. Usable([pc |-> "fail", attempt |-> c.attempt])
    BY DEF Usable
  <2> QED BY <2>1, <2>2 DEF AllUsable, Usable
<1>6. CASE worker' = worker
  BY <1>6 DEF AllUsable, Usable
<1>7. ASSUME NEW w \in Worker, BeginFindsExpired(w) PROVE worker' = worker
  BY <1>7 DEF BeginFindsExpired
<1>8. ASSUME NEW c \in running, ChildRequests(c) PROVE worker' = worker
  BY <1>8 DEF ChildRequests
<1>9. Tick \/ UNCHANGED vars => worker' = worker
  BY DEF Tick, vars
<1> QED BY <1>1, <1>2, <1>3, <1>4, <1>5, <1>6, <1>7, <1>8, <1>9 DEF Next

\* A worker that moves from the ledger's entry point to the release without a
\* fault has committed what its receipt proves, or left the attempt claimed when
\* the response is not dated within it.
LEMMA CommitStep ==
  ASSUME TypeOK, AllUsable, [Next]_vars, NEW w \in Worker,
         worker[w].pc = "attempt_complete", worker'[w].pc = "quota_release", faults' = faults,
         claimed(worker[w].attempt), clock < attempts[worker[w].attempt].expiresAt
  PROVE  attempts'[worker[w].attempt].state =
           IF worker[w].badTimes THEN "claimed" ELSE worker[w].proves
<1>1. PICK g : g = worker[w].attempt
  OBVIOUS
<1>2. /\ g \in DOMAIN attempts /\ attempts \in Seq([state : States, expiresAt : Nat])
      /\ faults \in Nat /\ clock \in Nat
  BY <1>1 DEF claimed, TypeOK
<1>3. attempts[g] \in [state : States, expiresAt : Nat]
  <2>1. g \in 1..Len(attempts)
    BY <1>2
  <2> QED BY <1>2, <2>1, ElementOfSeq
<1>4. CASE CompleteAttempt(w)
  <2>1. worker[w].accepted /\ ~Fault
    BY <1>2 DEF AllUsable, Usable, Fault
  <2>2. CASE worker[w].badTimes
    <3>1. ~(clock >= attempts[g].expiresAt)
      BY <1>1, <1>3, <1>2
    <3>2. attempts' = attempts
      BY <1>1, <1>4, <2>1, <2>2, <3>1 DEF CompleteAttempt
    <3> QED BY <1>1, <2>2, <3>2 DEF claimed
  <2>3. CASE ~worker[w].badTimes
    <3>1. transition(g, worker[w].proves)
      BY <1>1, <1>4, <2>1, <2>3 DEF CompleteAttempt, withinLease
    <3>2. attempts' = [attempts EXCEPT ![g].state = worker[w].proves]
      BY <1>1, <3>1 DEF transition
    <3> QED BY <1>1, <1>2, <1>3, <2>3, <3>2
  <2> QED BY <2>2, <2>3
<1>5. ASSUME NEW v \in Worker, WorkerStep(v) \/ BeginAttempt(v) \/ BeginFindsExpired(v) \/ Crash(v)
      PROVE  CompleteAttempt(w)
  <2>1. v = w
    <3> SUFFICES ASSUME v # w PROVE worker'[w] = worker[w]
      OBVIOUS
    <3>1. \E k : worker' = [worker EXCEPT ![v] = k]
      <4>1. CASE BeginAttempt(v) \/ BeginFindsExpired(v) \/ Crash(v)
        BY <4>1 DEF BeginAttempt, BeginFindsExpired, Crash, return, TypeOK
      <4>2. CASE WorkerStep(v)
        BY <4>2 DEF WorkerStep, Reserve, AcquireQuota, CancelReservation, Defer, ExecutionDeadline,
           StartChild, ArchiveReceipt, CompleteAttempt, FailAttempt, ReleaseQuota, goto, return
      <4> QED BY <1>5, <4>1, <4>2
    <3> QED BY <3>1 DEF TypeOK
  <2>2. CASE WorkerStep(w)
    BY <2>2 DEF WorkerStep, Reserve, AcquireQuota, CancelReservation, Defer, ExecutionDeadline,
       StartChild, ArchiveReceipt, FailAttempt, ReleaseQuota
  <2>3. CASE BeginAttempt(w) \/ BeginFindsExpired(w)
    BY <2>3 DEF BeginAttempt, BeginFindsExpired
  <2>4. CASE Crash(w)
    <3>1. worker'[w] = Idle
      BY <2>4 DEF Crash, return, TypeOK
    <3> QED BY <3>1 DEF Idle
  <2> QED BY <1>5, <2>1, <2>2, <2>3, <2>4
<1>6. ASSUME NEW v \in Worker, NEW c \in running, NEW r \in RunnerReceipts, ChildReports(v, c, r)
      PROVE  FALSE
  <2>1. v # w
    BY <1>6 DEF ChildReports, waitsFor
  <2>2. worker'[w] = worker[w]
    BY <1>6, <2>1 DEF ChildReports, TypeOK
  <2> QED BY <2>2
<1>7. ASSUME NEW c \in running, ChildLost(c) PROVE FALSE
  <2>1. worker'[w] = worker[w]
    BY <1>7 DEF ChildLost, waitsFor
  <2> QED BY <2>1
<1>8. ASSUME NEW c \in running, ChildRequests(c) PROVE worker' = worker
  BY <1>8 DEF ChildRequests
<1>9. Tick \/ UNCHANGED vars => worker' = worker
  BY DEF Tick, vars
<1> QED BY <1>4, <1>5, <1>6, <1>7, <1>8, <1>9 DEF Next

\* The archive takes every receipt the runner accepts, and without a fault and
\* within the lease the ledger closes the attempt as the receipt proves; only a
\* response dated in the second the runner grants on either side of the attempt
\* leaves it claimed (operation_plan_probe.go:517, operation_attempt_store.go:444).
THEOREM ReceiptsCommit == Spec => ReceiptCommits
<1>1. Init => AllUsable
  BY DEF Init, AllUsable, Usable, Idle
<1>2. IInv /\ AllUsable /\ [Next]_vars => AllUsable'
  BY NextUsable DEF IInv
<1>3. IInv /\ AllUsable /\ AllUsable' /\ [Next]_vars =>
        [\A w \in Worker :
           /\ worker'[w].pc # "history_validate"
           /\ /\ worker[w].pc = "attempt_complete" /\ worker'[w].pc = "quota_release" /\ faults' = faults
              /\ claimed(worker[w].attempt) /\ clock < attempts[worker[w].attempt].expiresAt
              => attempts'[worker[w].attempt].state =
                   IF worker[w].badTimes THEN "claimed" ELSE worker[w].proves]_vars
  <2> SUFFICES ASSUME IInv, AllUsable, AllUsable', [Next]_vars, NEW w \in Worker
               PROVE  /\ worker'[w].pc # "history_validate"
                      /\ /\ worker[w].pc = "attempt_complete" /\ worker'[w].pc = "quota_release"
                         /\ faults' = faults
                         /\ claimed(worker[w].attempt) /\ clock < attempts[worker[w].attempt].expiresAt
                         => attempts'[worker[w].attempt].state =
                              IF worker[w].badTimes THEN "claimed" ELSE worker[w].proves
    OBVIOUS
  <2>1. worker'[w].pc # "history_validate"
    BY DEF AllUsable, Usable
  <2> QED BY <2>1, CommitStep DEF IInv
<1> QED BY <1>1, <1>2, <1>3, IInvHolds, PTL DEF Spec, ReceiptCommits
=============================================================================
