--------------------------- MODULE ReadinessProofs ---------------------------
(***************************************************************************)
(* What an installation reports of itself, from the operation-plan lane to   *)
(* health-public.                                                            *)
(*                                                                           *)
(* The lane: its readiness is earned.  The inductive invariant follows the   *)
(* latched errors, the epoch of the sweep under way and the proofs it has    *)
(* staged, from the failure that demands a proof to the complete sweep that  *)
(* may forget it.                                                            *)
(*                                                                           *)
(* The processes: the lanes are sound, and readiness taken by health-public  *)
(* covers its own canaries, for every set of releases.  What a process runs  *)
(* is a function of its own image's inputs (SchedulerOK, PublicOK), the      *)
(* generated bundle keeps operations apart (OneLaneEach, KeyDeclared), and   *)
(* two processes that agree on the digest of the runtime pin agree on        *)
(* everything that went into it (SamePin).                                   *)
(***************************************************************************)
EXTENDS OperationPlanScheduler, HealthDeployment, FiniteSetTheorems, TLAPS

-----------------------------------------------------------------------------
(* The operation-plan lane.                                                 *)


Held == [claimed : BOOLEAN, observed : BOOLEAN, outbox : Int,
         verified : BOOLEAN, valid : BOOLEAN, stale : BOOLEAN]

Sweeps == [cursor : 0 .. N, staged : [Targets -> {"none", "stale", "new"}], clean : BOOLEAN]

Typed ==
  /\ ledger \in [Targets -> Held]
  /\ sweep \in Sweeps
  /\ needsProof \subseteq Targets
  /\ status \in {"error", "ready", "incomplete"}
  /\ readSince \subseteq Targets
  /\ owed \subseteq Targets

\* A failure that demands a proof is latched until the demand is met, and no
\* proof that the ledger shows or the sweep has staged is newer than it.
DemandsLatched ==
  \A t \in owed : /\ t \in needsProof /\ status = "error"
                  /\ ledger[t].stale
                  /\ sweep.staged[t] # "new"

\* A clean sweep read its operations after the last error, a sweep under way
\* is clean unless an error is latched, and readiness comes from such a sweep.
SweepsCurrent ==
  /\ sweep.clean => 0 .. sweep.cursor - 1 \subseteq readSince
  /\ status # "error" /\ sweep.cursor > 0 => sweep.clean
  /\ status = "ready" => readSince = Targets

IInv == Typed /\ DemandsLatched /\ SweepsCurrent

-----------------------------------------------------------------------------
(* Steps by what they change.                                               *)

LEMMA NoSweepTyped ==
  /\ NoSweep \in Sweeps
  /\ NoSweep.cursor = 0 /\ ~NoSweep.clean
  /\ \A t \in Targets : NoSweep.staged[t] = "none"
BY Configuration DEF NoSweep, Sweeps

\* Steps that leave the errors, the sweep and its outcome alone.
LEMMA LedgerStep ==
  ASSUME IInv, UNCHANGED <<sweep, needsProof, status, readSince>>,
         ledger' \in [Targets -> Held], owed' \subseteq owed,
         \A t \in owed' : ledger'[t].stale
  PROVE  IInv'
<1>1. Typed'
  BY DEF IInv, Typed
<1>2. DemandsLatched'
  BY DEF IInv, DemandsLatched
<1>3. SweepsCurrent'
  BY DEF IInv, SweepsCurrent
<1> QED BY <1>1, <1>2, <1>3 DEF IInv

\* What a sweep keeps when a failure of t overtakes it.
LEMMA OvertakenSweep ==
  ASSUME IInv, NEW t
  PROVE  /\ overtaken(sweep, t) \in Sweeps
         /\ ~overtaken(sweep, t).clean
         /\ \A u \in Targets : overtaken(sweep, t).staged[u] = "new" =>
              sweep.staged[u] = "new" /\ ~(u = t /\ t \in needsProof')
<1>1. sweep \in Sweeps
  BY DEF IInv, Typed
<1>2. PICK e : e = IF sweep.staged[t] = "new" /\ t \in needsProof' THEN "stale" ELSE sweep.staged[t]
  OBVIOUS
<1>3. PICK s : s = [sweep.staged EXCEPT ![t] = e]
  OBVIOUS
<1>4. s \in [Targets -> {"none", "stale", "new"}]
  BY <1>1, <1>2, <1>3 DEF Sweeps
<1>5. \A u \in Targets : s[u] = "new" => sweep.staged[u] = "new" /\ ~(u = t /\ t \in needsProof')
  BY <1>1, <1>2, <1>3 DEF Sweeps
<1>6. overtaken(sweep, t) = [cursor |-> sweep.cursor, staged |-> s, clean |-> FALSE]
  <2>1. overtaken(sweep, t) = [sweep EXCEPT !.clean = FALSE, !.staged[t] = e]
    BY <1>2, Zenon DEF overtaken
  <2>2. [sweep EXCEPT !.clean = FALSE, !.staged[t] = e] = [sweep EXCEPT !.clean = FALSE, !.staged = s]
    BY <1>1, <1>3 DEF Sweeps
  <2> QED BY <1>1, <2>1, <2>2 DEF Sweeps
<1> QED BY <1>1, <1>4, <1>5, <1>6 DEF Sweeps

\* The failure of an operation, whoever reports it.
LEMMA LatchStep ==
  ASSUME IInv, NEW t, NEW requiresNewProof \in BOOLEAN, requiresNewProof => t \in Targets,
         latches(t, requiresNewProof),
         ledger' \in [Targets -> Held],
         \A u \in Targets : ledger[u].stale /\ u # t => ledger'[u].stale,
         t \in Targets /\ t \in needsProof' => ledger'[t].stale,
         sweep' \in Sweeps, ~sweep'.clean,
         \A u \in Targets : sweep'.staged[u] = "new" =>
           sweep.staged[u] = "new" /\ ~(u = t /\ t \in needsProof')
  PROVE  IInv'
<1>1. /\ status' = "error" /\ readSince' = {}
      /\ owed' \in {owed, owed \cup {t}} /\ needsProof' \in {needsProof, needsProof \cup {t}}
      /\ requiresNewProof => t \in needsProof'
      /\ ~requiresNewProof => owed' = owed /\ needsProof' = needsProof
  BY DEF latches, latchError
<1>2. Typed
  BY DEF IInv
<1>3. Typed'
  BY <1>1, <1>2 DEF Typed
<1>4. DemandsLatched'
  <2> SUFFICES ASSUME NEW u \in owed'
               PROVE  u \in needsProof' /\ ledger'[u].stale /\ sweep'.staged[u] # "new"
    BY <1>1 DEF DemandsLatched
  <2>1. u \in Targets /\ (u \in owed \/ (u = t /\ requiresNewProof))
    BY <1>1, <1>2, <1>3 DEF Typed
  <2>2. u \in owed => u \in needsProof /\ ledger[u].stale /\ sweep.staged[u] # "new"
    BY DEF IInv, DemandsLatched
  <2>3. u \in needsProof'
    BY <1>1, <2>1, <2>2
  <2> QED BY <2>1, <2>2, <2>3
<1>5. SweepsCurrent'
  BY <1>1 DEF SweepsCurrent
<1> QED BY <1>3, <1>4, <1>5 DEF IInv

\* What the failure of t makes of a ledger.
LEMMA OutdatedLedger ==
  ASSUME NEW l \in [Targets -> Held], NEW t
  PROVE  /\ outdated(l, t) \in [Targets -> Held]
         /\ \A u \in Targets : u # t => outdated(l, t)[u] = l[u]
         /\ t \in Targets /\ t \in needsProof' => outdated(l, t)[t].stale
<1>1. PICK b : b = (t \in needsProof')
  OBVIOUS
<1>2. outdated(l, t) = [l EXCEPT ![t] = [l[t] EXCEPT !.stale = b]]
  BY <1>1 DEF outdated
<1>3. t \in Targets => [l[t] EXCEPT !.stale = b] \in Held /\ [l[t] EXCEPT !.stale = b].stale = b
  <2>1. b \in BOOLEAN
    BY <1>1
  <2> QED BY <2>1 DEF Held
<1> QED BY <1>1, <1>2, <1>3

\* A task or a scan reports the failure, of a ledger that it changed at t.
LEMMA TaskLatchStep ==
  ASSUME IInv, NEW t, NEW requiresNewProof \in BOOLEAN, requiresNewProof => t \in Targets,
         latches(t, requiresNewProof),
         NEW l \in [Targets -> Held], \A u \in Targets : u # t => l[u] = ledger[u],
         ledger' = outdated(l, t),
         sweep' = overtaken(sweep, t) \/ sweep' = NoSweep
  PROVE  IInv'
<1>1. /\ ledger' \in [Targets -> Held]
      /\ \A u \in Targets : ledger[u].stale /\ u # t => ledger'[u].stale
      /\ t \in Targets /\ t \in needsProof' => ledger'[t].stale
  BY OutdatedLedger
<1>2. /\ sweep' \in Sweeps /\ ~sweep'.clean
      /\ \A u \in Targets : sweep'.staged[u] = "new" =>
           sweep.staged[u] = "new" /\ ~(u = t /\ t \in needsProof')
  BY OvertakenSweep, NoSweepTyped
<1> QED BY <1>1, <1>2, LatchStep

-----------------------------------------------------------------------------
(* The pass.                                                                *)

LEMMA ScanUnreadableKeeps == ASSUME IInv, ScanUnreadable PROVE IInv'
<1>1. PICK t : t = candidate
  OBVIOUS
<1>2. latches(t, FALSE) /\ sweep' = overtaken(sweep, t) /\ ledger' = outdated(ledger, t)
  BY <1>1 DEF ScanUnreadable
<1>3. ledger \in [Targets -> Held]
  BY DEF IInv, Typed
<1> QED BY <1>2, <1>3, TaskLatchStep

LEMMA EvidenceUnreadableKeeps == ASSUME IInv, EvidenceUnreadable PROVE IInv'
<1>1. PICK t : t = sweep.cursor
  OBVIOUS
<1>2. latches(t, FALSE) /\ sweep' = NoSweep /\ ledger' = outdated(ledger, t)
  BY <1>1 DEF EvidenceUnreadable
<1>3. ledger \in [Targets -> Held]
  BY DEF IInv, Typed
<1> QED BY <1>2, <1>3, TaskLatchStep

LEMMA AbortPassKeeps == ASSUME IInv, AbortPass PROVE IInv'
<1>1. /\ status' = "error" /\ readSince' = {}
      /\ UNCHANGED <<ledger, owed, needsProof>>
      /\ sweep' = NoSweep \/ sweep' = [sweep EXCEPT !.clean = FALSE]
  BY DEF AbortPass, latchError, taskVars
<1>2. Typed
  BY DEF IInv
<1>3. /\ sweep' \in Sweeps
      /\ ~sweep'.clean /\ \A t \in Targets : sweep'.staged[t] = "new" => sweep.staged[t] = "new"
  BY <1>1, <1>2, NoSweepTyped DEF Typed, Sweeps
<1>4. Typed'
  BY <1>1, <1>2, <1>3 DEF Typed
<1>5. DemandsLatched'
  BY <1>1, <1>2, <1>3 DEF IInv, DemandsLatched, Typed
<1>6. SweepsCurrent'
  BY <1>1, <1>3 DEF SweepsCurrent
<1> QED BY <1>4, <1>5, <1>6 DEF IInv

LEMMA ReadEvidenceKeeps == ASSUME IInv, ReadEvidence PROVE IInv'
<1>1. PICK c : c = sweep.cursor
  OBVIOUS
<1>2. PICK e : e = operationEvidence(c)
  OBVIOUS
<1>3. PICK begun : begun = IF c = 0 THEN [NoSweep EXCEPT !.clean = TRUE] ELSE sweep
  OBVIOUS
<1>4. /\ sweep' = [begun EXCEPT !.cursor = @ + 1, !.staged[c] = e]
      /\ readSince' = readSince \cup {c} /\ c < N
      /\ UNCHANGED <<ledger, owed, needsProof, status>>
  BY <1>1, <1>2, <1>3 DEF ReadEvidence, sliceLeft, taskVars
<1>5. Typed /\ N \in Nat \ {0}
  BY Configuration DEF IInv
<1>6. c \in 0 .. N - 1 /\ c \in Targets
  BY <1>1, <1>4, <1>5 DEF Typed, Targets, Sweeps
<1>7. /\ begun \in Sweeps
      /\ begun.cursor = c
      /\ \A t \in Targets : begun.staged[t] = "new" => sweep.staged[t] = "new"
      /\ begun.clean <=> c = 0 \/ sweep.clean
  BY <1>1, <1>3, <1>5, NoSweepTyped DEF Typed, Sweeps
<1>8. e \in {"none", "stale", "new"} /\ (e = "new" => ~ledger[c].stale)
  <2>1. PICK proven : proven = ((ledger[c].claimed \/ ledger[c].observed) /\ ledger[c].verified
                                 /\ ledger[c].valid)
    OBVIOUS
  <2>2. e = CASE ~proven -> "none" [] proven /\ ledger[c].stale -> "stale" [] OTHER -> "new"
    BY <1>2, <2>1 DEF operationEvidence
  <2> QED BY <2>2
<1>9. PICK s : s = [begun.staged EXCEPT ![c] = e]
  OBVIOUS
<1>10. /\ s \in [Targets -> {"none", "stale", "new"}]
       /\ s[c] = e /\ \A t \in Targets : t # c => s[t] = begun.staged[t]
  BY <1>6, <1>7, <1>8, <1>9 DEF Sweeps
<1>11. sweep' = [cursor |-> c + 1, staged |-> s, clean |-> begun.clean]
  BY <1>4, <1>7, <1>9 DEF Sweeps
<1>12. Typed'
  <2>1. c + 1 \in 0 .. N
    BY <1>5, <1>6
  <2> QED BY <1>4, <1>5, <1>6, <1>7, <1>10, <1>11, <2>1 DEF Typed, Sweeps
<1>13. DemandsLatched'
  <2>1. \A t \in owed : s[t] # "new"
    BY <1>5, <1>7, <1>8, <1>10 DEF IInv, DemandsLatched, Typed
  <2>2. sweep'.staged = s
    BY <1>11
  <2> QED BY <1>4, <2>1, <2>2 DEF IInv, DemandsLatched
<1>14. SweepsCurrent'
  <2>1. begun.clean => 0 .. (c + 1) - 1 \subseteq readSince'
    <3>1. 0 .. (c + 1) - 1 \subseteq (0 .. c - 1) \cup {c}
      BY <1>6
    <3>2. CASE c = 0
      BY <1>4, <3>2
    <3>3. CASE c # 0
      BY <1>1, <1>4, <1>7, <3>1, <3>3 DEF IInv, SweepsCurrent
    <3> QED BY <3>2, <3>3
  <2>2. status # "error" => begun.clean
    BY <1>1, <1>6, <1>7 DEF IInv, SweepsCurrent
  <2>3. readSince = Targets => readSince' = Targets
    BY <1>4, <1>6
  <2>4. sweep'.cursor = c + 1 /\ sweep'.clean = begun.clean
    BY <1>11
  <2> QED BY <1>4, <2>1, <2>2, <2>3, <2>4 DEF IInv, SweepsCurrent
<1> QED BY <1>12, <1>13, <1>14 DEF IInv

\* A complete sweep is published; errors are forgotten only when it is clean
\* and every demand is met.
LEMMA EndEvidenceKeeps == ASSUME IInv, EndEvidence PROVE IInv'
<1>1. UNCHANGED <<ledger, owed, readSince>> /\ Typed /\ N \in Nat \ {0}
  BY Configuration DEF EndEvidence, taskVars, IInv
<1>2. CASE sweep.cursor < N
  <2>1. UNCHANGED <<sweep, needsProof, status>>
    BY <1>2 DEF EndEvidence
  <2> QED BY <1>1, <2>1, LedgerStep DEF Typed, IInv, DemandsLatched
<1>3. CASE ~(sweep.cursor < N)
  <2>1. /\ status' = (IF recovered \/ (status # "error" /\ allCurrent) THEN "ready"
                      ELSE IF status = "error" THEN "error" ELSE "incomplete")
        /\ needsProof' = (IF recovered THEN {} ELSE needsProof)
        /\ sweep' = NoSweep
    BY <1>3 DEF EndEvidence
  <2>2. sweep.cursor = N
    <3>1. sweep.cursor \in 0..N
      BY <1>1 DEF Typed, Sweeps
    <3> QED BY <1>1, <1>3, <3>1
  <2>3. sweep.clean => readSince = Targets
    BY <1>1, <2>2 DEF IInv, SweepsCurrent, Typed, Targets
  <2>4. recovered => owed = {}
    BY <1>1 DEF recovered, IInv, DemandsLatched, Typed
  <2>5. Typed'
    BY <1>1, <2>1, NoSweepTyped DEF Typed
  <2>6. DemandsLatched'
    BY <1>1, <2>1, <2>4, NoSweepTyped DEF IInv, DemandsLatched, Typed
  <2>7. status' = "ready" => sweep.clean
    <3>1. status # "error" => sweep.clean
      BY <1>1, <2>2 DEF IInv, SweepsCurrent
    <3> QED BY <2>1, <3>1 DEF recovered
  <2>8. SweepsCurrent'
    BY <1>1, <2>1, <2>3, <2>7, NoSweepTyped DEF SweepsCurrent
  <2> QED BY <2>5, <2>6, <2>8 DEF IInv
<1> QED BY <1>2, <1>3

-----------------------------------------------------------------------------
(* Tasks and time.                                                          *)

LEMMA DeliveredHeld ==
  ASSUME NEW l \in Held
  PROVE  /\ delivered(l) \in Held
         /\ l.stale /\ ~(~l.verified /\ l.outbox = 1) => delivered(l).stale
<1>1. PICK b : b = (l.stale /\ (l.verified \/ l.outbox # 1))
  OBVIOUS
<1>2. PICK v : v = (l.verified \/ l.outbox = 1)
  OBVIOUS
<1>3. PICK o : o = l.outbox - 1
  OBVIOUS
<1>4. delivered(l) = [l EXCEPT !.outbox = o, !.stale = b, !.verified = v]
  BY <1>1, <1>2, <1>3 DEF delivered
<1>5. b \in BOOLEAN /\ v \in BOOLEAN /\ o \in Int
  BY <1>1, <1>2, <1>3 DEF Held
<1>6. delivered(l) \in Held /\ delivered(l).stale = b
  BY <1>4, <1>5 DEF Held
<1> QED BY <1>1, <1>6

LEMMA ObservedHeld ==
  ASSUME NEW l \in Held, NEW deliverable \in BOOLEAN
  PROVE  /\ observed(l, deliverable) \in Held
         /\ deliverable /\ l.stale => observed(l, deliverable).stale
<1>1. PICK b : b = (deliverable /\ l.stale)
  OBVIOUS
<1>2. PICK o : o = IF deliverable THEN l.outbox + 1 ELSE l.outbox
  OBVIOUS
<1>3. PICK own : own = ~deliverable
  OBVIOUS
<1>4. b \in BOOLEAN /\ own \in BOOLEAN /\ o \in Int
  BY <1>1, <1>2, <1>3 DEF Held
<1>5. PICK k \in Held : k = [l EXCEPT !.claimed = FALSE, !.observed = TRUE, !.valid = TRUE]
  BY DEF Held
<1>6. observed(l, deliverable) = [k EXCEPT !.outbox = o, !.verified = own, !.stale = b]
  BY <1>1, <1>2, <1>3, <1>5 DEF observed
<1>7. observed(l, deliverable) \in Held /\ observed(l, deliverable).stale = b
  BY <1>4, <1>6 DEF Held
<1> QED BY <1>1, <1>7

LEMMA TaskKeeps == ASSUME IInv, NEW t \in Targets, TaskEnds(t) PROVE IInv'
<1>1. ledger \in [Targets -> Held] /\ ledger[t] \in Held /\ owed \subseteq Targets
  BY DEF IInv, Typed
<1>2. \A u \in owed : ledger[u].stale
  BY DEF IInv, DemandsLatched
<1>3. delivered(ledger[t]) \in Held
  BY <1>1, DeliveredHeld
<1>4. PICK k \in Held : k = unobserved(ledger[t]) /\ (k.stale <=> ledger[t].stale)
  <2>1. unobserved(ledger[t]) \in Held
    BY <1>1 DEF unobserved, Held
  <2>2. unobserved(ledger[t]).stale = ledger[t].stale
    BY <1>1 DEF unobserved, Held
  <2> QED BY <2>1, <2>2
<1>5. CASE ClaimAttempt(t)
  <2>1. /\ ledger' = [ledger EXCEPT ![t].claimed = TRUE]
        /\ UNCHANGED <<sweep, needsProof, status, readSince, owed>>
    BY <1>5 DEF ClaimAttempt
  <2>2. ledger' \in [Targets -> Held] /\ \A u \in Targets : ledger'[u].stale = ledger[u].stale
    BY <1>1, <2>1 DEF Held
  <2> QED BY <1>1, <1>2, <2>1, <2>2, LedgerStep
<1>6. CASE CapacityRefused(t) \/ DeliveryFails(t)
  <2>1. latches(t, TRUE) /\ sweep' = overtaken(sweep, t) /\ ledger' = outdated(ledger, t)
    BY <1>6 DEF CapacityRefused, DeliveryFails
  <2> QED BY <1>1, <2>1, TaskLatchStep
<1>7. CASE ExecutionFails(t)
  <2>1. /\ latches(t, TRUE) /\ sweep' = overtaken(sweep, t)
        /\ ledger' = outdated([ledger EXCEPT ![t] = k], t)
    BY <1>4, <1>7 DEF ExecutionFails
  <2>2. PICK l \in [Targets -> Held] :
          l = [ledger EXCEPT ![t] = k] /\ \A u \in Targets : u # t => l[u] = ledger[u]
    BY <1>1, <1>4
  <2> QED BY <2>1, <2>2, TaskLatchStep
<1>8. CASE DeliveryUnknown(t)
  <2>1. latches(t, FALSE) /\ sweep' = overtaken(sweep, t)
    BY <1>8 DEF DeliveryUnknown
  <2>2. PICK h \in Held : ledger' = outdated([ledger EXCEPT ![t] = h], t)
    BY <1>1, <1>3, <1>8 DEF DeliveryUnknown
  <2>3. PICK l \in [Targets -> Held] :
          l = [ledger EXCEPT ![t] = h] /\ \A u \in Targets : u # t => l[u] = ledger[u]
    BY <1>1, <2>2
  <2> QED BY <2>1, <2>2, <2>3, TaskLatchStep
<1>9. CASE Observed(t)
  <2>1. UNCHANGED <<sweep, needsProof, status, readSince>>
    BY <1>9 DEF Observed
  <2>2. PICK deliverable \in BOOLEAN :
          /\ ledger' = [ledger EXCEPT ![t] = observed(ledger[t], deliverable)]
          /\ owed' = IF deliverable THEN owed ELSE owed \ {t}
    BY <1>9 DEF Observed
  <2>3. PICK h \in Held : /\ deliverable /\ ledger[t].stale => h.stale
                          /\ ledger' = [ledger EXCEPT ![t] = h]
    BY <1>1, <2>2, ObservedHeld
  <2>4. ledger' \in [Targets -> Held] /\ owed' \subseteq owed /\ \A u \in owed' : ledger'[u].stale
    BY <1>1, <1>2, <2>2, <2>3
  <2> QED BY <2>1, <2>4, LedgerStep
<1>10. CASE Deferred(t)
  <2>1. /\ ledger' = [ledger EXCEPT ![t] = k]
        /\ UNCHANGED <<sweep, needsProof, status, readSince, owed>>
    BY <1>4, <1>10 DEF Deferred
  <2>2. ledger' \in [Targets -> Held] /\ \A u \in owed : ledger'[u].stale
    BY <1>1, <1>2, <1>4, <2>1
  <2> QED BY <2>1, <2>2, LedgerStep
<1>11. CASE Delivered(t)
  <2>1. /\ ledger' = [ledger EXCEPT ![t] = delivered(ledger[t])]
        /\ owed' = IF settled(t) THEN owed \ {t} ELSE owed
        /\ UNCHANGED <<sweep, needsProof, status, readSince>>
    BY <1>11 DEF Delivered
  <2>2. ledger[t].stale /\ ~settled(t) => delivered(ledger[t]).stale
    BY <1>1, DeliveredHeld DEF settled
  <2>3. ledger' \in [Targets -> Held] /\ owed' \subseteq owed /\ \A u \in owed' : ledger'[u].stale
    BY <1>1, <1>2, <1>3, <2>1, <2>2
  <2> QED BY <2>1, <2>3, LedgerStep
<1> QED BY <1>5, <1>6, <1>7, <1>8, <1>9, <1>10, <1>11 DEF TaskEnds

LEMMA ExpireKeeps == ASSUME IInv, NEW t \in Targets, Expire(t) PROVE IInv'
<1>1. /\ ledger' = [ledger EXCEPT ![t].valid = FALSE]
      /\ sweep' = [sweep EXCEPT !.staged[t] = "none"]
      /\ status' = IF status = "ready" THEN "incomplete" ELSE status
      /\ UNCHANGED <<needsProof, readSince, owed>>
  BY DEF Expire
<1>2. Typed
  BY DEF IInv
<1>3. ledger' \in [Targets -> Held] /\ \A u \in Targets : ledger'[u].stale = ledger[u].stale
  <2>1. ledger \in [Targets -> Held]
    BY <1>2 DEF Typed
  <2> QED BY <1>1, <2>1 DEF Held
<1>4. PICK s : s = [sweep.staged EXCEPT ![t] = "none"]
  OBVIOUS
<1>5. /\ s \in [Targets -> {"none", "stale", "new"}]
      /\ \A u \in Targets : s[u] = "new" => sweep.staged[u] = "new"
  BY <1>2, <1>4 DEF Typed, Sweeps
<1>6. sweep' = [cursor |-> sweep.cursor, staged |-> s, clean |-> sweep.clean]
  BY <1>1, <1>2, <1>4 DEF Typed, Sweeps
<1>7. Typed'
  BY <1>1, <1>2, <1>3, <1>5, <1>6 DEF Typed, Sweeps
<1>8. DemandsLatched'
  BY <1>1, <1>2, <1>3, <1>5, <1>6 DEF IInv, DemandsLatched, Typed
<1>9. SweepsCurrent'
  BY <1>1, <1>6 DEF IInv, SweepsCurrent
<1> QED BY <1>7, <1>8, <1>9 DEF IInv

-----------------------------------------------------------------------------
(* The theorem.                                                             *)

LEMMA InitIInv == Init => IInv
<1> SUFFICES ASSUME Init PROVE IInv
  OBVIOUS
<1>1. Typed
  BY NoSweepTyped DEF Init, Typed, Held
<1>2. DemandsLatched
  BY NoSweepTyped DEF Init, DemandsLatched
<1>3. SweepsCurrent
  BY NoSweepTyped DEF Init, SweepsCurrent
<1> QED BY <1>1, <1>2, <1>3 DEF IInv

LEMMA NextIInv == IInv /\ [Next]_vars => IInv'
<1> SUFFICES ASSUME IInv, [Next]_vars PROVE IInv'
  OBVIOUS
<1>1. CASE ReadEvidence \/ EndEvidence \/ ScanUnreadable \/ EvidenceUnreadable \/ AbortPass
  BY <1>1, ReadEvidenceKeeps, EndEvidenceKeeps, ScanUnreadableKeeps, EvidenceUnreadableKeeps,
     AbortPassKeeps
<1>2. ASSUME NEW t \in Targets, TaskEnds(t) \/ Expire(t) PROVE IInv'
  BY <1>2, TaskKeeps, ExpireKeeps
<1>3. CASE UNCHANGED <<ledger, sweep, needsProof, status, readSince, owed>>
  BY <1>3 DEF IInv, Typed, DemandsLatched, SweepsCurrent
<1>4. BeginPass \/ ScanDelivery \/ ScanExecution \/ UNCHANGED vars
        => UNCHANGED <<ledger, sweep, needsProof, status, readSince, owed>>
  BY DEF BeginPass, ScanDelivery, ScanExecution, vars, taskVars
<1>5. \A t \in Targets : PeriodElapses(t)
        => UNCHANGED <<ledger, sweep, needsProof, status, readSince, owed>>
  BY DEF PeriodElapses
<1> QED BY <1>1, <1>2, <1>3, <1>4, <1>5 DEF Next, PassStep

\* /ready never says ready on the strength of a sweep that an error overtook:
\* for any number of operations, slots and budgets and any sequence of
\* failures, every operation was read after the last error and every failed
\* one has since been proven (latchIdentityErrorLocked, advanceEvidenceSweep).
THEOREM ReadinessIsEarned == Spec => []ReadyIsEarned
<1>1. IInv => ReadyIsEarned
  <2> SUFFICES ASSUME IInv, Ready PROVE readSince = Targets /\ owed = {}
    BY DEF ReadyIsEarned
  <2>1. readSince = Targets
    BY DEF Ready, IInv, SweepsCurrent
  <2>2. owed = {}
    BY DEF Ready, IInv, DemandsLatched
  <2> QED BY <2>1, <2>2
<1> QED BY <1>1, InitIInv, NextIInv, PTL DEF Spec

-----------------------------------------------------------------------------
(* The processes: the inductive invariant.                                  *)

Mappings == {content["mapping"][r] : r \in Releases} \cup {NoPlan}

Starting ==
  {s \in [phase : {"config", "mapping", "pin", "verified"}, release : inputsVerified, mapping : Mappings] :
     s.phase \in {"pin", "verified"} => s.mapping = content["mapping"][s.release]}

Running ==
  [phase : {"running"}, release : Releases, required : BOOLEAN, verified : BOOLEAN,
   legacy : SUBSET UNION {DOMAIN inputs[r].canaries : r \in Releases},
   targets : SUBSET UNION {DOMAIN content["mapping"][r].operations : r \in Releases},
   mapping : Mappings,
   looped : BOOLEAN]

\* What a scheduler that serves runs, as a function of its release.
Serves(s) ==
  /\ s.required = TRUE /\ s.verified = TRUE =>
       /\ s.release \in inputsVerified
       /\ s.mapping = content["mapping"][s.release]
       /\ s.legacy = filterSuppressedLegacyCanaries(s.release)
       /\ s.targets \in {{}, exactActivePlanTargets(content["mapping"][s.release])}
  /\ s.required = TRUE /\ s.verified = FALSE => s.targets = {}
  /\ s.required = FALSE => s.targets = {}

SchedulerOK ==
  \/ scheduler = Down
  \/ scheduler \in Starting
  \/ scheduler \in Running /\ Serves(scheduler)

PublicOK ==
  \/ public = Down
  \/ /\ public \in [phase : {"config", "mapping", "pin", "running"}, release : Releases,
                    bound : BOOLEAN]
     /\ public.bound = TRUE => public.release \in inputsVerified

DeploymentInv == rollout \in Rollouts /\ SchedulerOK /\ PublicOK /\ ReadyIsCovered

-----------------------------------------------------------------------------
(* The bundle of one release.                                               *)

\* A verified release is one whose bundle can be generated.
LEMMA VerifiedGenerates ==
  ASSUME NEW r \in inputsVerified
  PROVE  /\ r \in Releases
         /\ generates(inputs[r])
         /\ activationGiven(inputs[r])
BY DEF inputsVerified, generable

LEMMA MappingContent ==
  ASSUME NEW r \in Releases
  PROVE  /\ content["mapping"][r] = Mapping(inputs[r])
         /\ content["config"][r] = Config(inputs[r])
         /\ content["pin"][r] = RuntimePin(inputs[r])
BY DEF content, Artifacts

\* The targets of the lane are the selected operations of the plan.
LEMMA ActiveTargets ==
  ASSUME NEW r \in Releases, NEW o
  PROVE  o \in exactActivePlanTargets(content["mapping"][r])
           <=> o \in activationOperations(inputs[r]) /\ o \in planOperations(inputs[r])
<1>1. DOMAIN Mapping(inputs[r]).operations = identityOperations(inputs[r])
  BY DEF Mapping
<1>2. ASSUME o \in identityOperations(inputs[r])
      PROVE  Mapping(inputs[r]).operations[o].planActive
               <=> o \in activationOperations(inputs[r]) /\ o \in planOperations(inputs[r])
  <2>1. Mapping(inputs[r]).operations[o] = identity(inputs[r], o)
    BY <1>2 DEF Mapping
  <2>2. identity(inputs[r], o).planActive
          = (o \in activationOperations(inputs[r]) /\ o \in planOperations(inputs[r]))
    BY DEF identity
  <2> QED BY <2>1, <2>2, Zenon
<1>3. planOperations(inputs[r]) \subseteq identityOperations(inputs[r])
  BY DEF identityOperations
<1> QED BY <1>1, <1>2, <1>3, MappingContent DEF exactActivePlanTargets

\* An operation in the plan lane is not one of a canary that was not suppressed.
LEMMA OneLaneEach ==
  ASSUME NEW r \in Releases, NEW c \in filterSuppressedLegacyCanaries(r)
  PROVE  inputs[r].canaries[c].operation \notin exactActivePlanTargets(content["mapping"][r])
BY ActiveTargets DEF filterSuppressedLegacyCanaries, suppressed

\* Every identity that is active has an endpoint under its key.
LEMMA KeyDeclared ==
  ASSUME NEW r \in Releases, NEW o \in identityOperations(inputs[r]),
         canaryOf(inputs[r], o) # {} \/ o \in exactActivePlanTargets(content["mapping"][r])
  PROVE  \E e \in content["config"][r] : e.key = endpointKey(inputs[r], o)
<1>1. identity(inputs[r], o).active
  BY ActiveTargets DEF identity
<1>2. endpoint(inputs[r], o) \in endpoints(inputs[r])
  BY <1>1 DEF endpoints
<1>3. endpoint(inputs[r], o).key = endpointKey(inputs[r], o)
  BY DEF endpoint, identity
<1> QED BY <1>2, <1>3, MappingContent DEF Config

\* The pin determines the canaries, the plan and the suppressed canaries.
LEMMA SamePin ==
  ASSUME NEW r \in Releases, NEW s \in Releases, bindingOf[r] = bindingOf[s]
  PROVE  /\ content["mapping"][r] = content["mapping"][s]
         /\ inputs[r].canaries = inputs[s].canaries
         /\ suppressed(inputs[r]) = suppressed(inputs[s])
<1>1. bindingOf[r].pin = content["pin"][r] /\ bindingOf[s].pin = content["pin"][s]
  BY DEF bindingOf
<1>2. bindingOf[r].suppressed = suppressed(inputs[r]) /\ bindingOf[s].suppressed = suppressed(inputs[s])
  BY DEF bindingOf
<1>3. Mapping(inputs[r]) = Mapping(inputs[s])
  <2>1. RuntimePin(inputs[r]) = RuntimePin(inputs[s])
    BY <1>1, MappingContent
  <2>2. RuntimePin(inputs[r]).mapping = Mapping(inputs[r]) /\ RuntimePin(inputs[s]).mapping = Mapping(inputs[s])
    BY DEF RuntimePin
  <2> QED BY <2>1, <2>2
<1>4. Mapping(inputs[r]).canaries = inputs[r].canaries /\ Mapping(inputs[s]).canaries = inputs[s].canaries
  BY DEF Mapping
<1> QED BY <1>2, <1>3, <1>4, MappingContent

-----------------------------------------------------------------------------
(* The invariant implies LanesSound.                                        *)

\* The keys under which a verified process pushes.
LEMMA SchedulerIsSound == SchedulerOK => LanesSound
<1> SUFFICES ASSUME SchedulerOK, scheduler.phase = "running", scheduler.required
             PROVE  LanesSound
  BY DEF LanesSound
<1>1. scheduler \in Running /\ Serves(scheduler)
  BY DEF SchedulerOK, Down, Starting
<1> DEFINE r == scheduler.release
<1>2. r \in Releases /\ scheduler.required = TRUE /\ scheduler.verified \in BOOLEAN
  BY <1>1 DEF Running
<1> DEFINE key(o) ==
      IF o \in planLane THEN scheduler.mapping.operations[o].key
      ELSE inputs[r].canaries[CHOOSE c \in canaryOf(inputs[r], o) : TRUE].key
<1>3. CASE scheduler.verified = FALSE
  <2>1. legacyLane = {}
    BY <1>2, <1>3, Zenon DEF legacyLane, preflight
  <2>2. planLane = {}
    BY <1>1, <1>2, <1>3 DEF planLane, Serves
  <2>3. legacyOperations = {}
    BY <2>1 DEF legacyOperations
  <2> QED BY <2>2, <2>3 DEF LanesSound
<1>4. CASE scheduler.verified = TRUE
  <2>1. /\ r \in inputsVerified
        /\ scheduler.mapping = content["mapping"][r]
        /\ scheduler.legacy = filterSuppressedLegacyCanaries(r)
        /\ scheduler.targets \in {{}, exactActivePlanTargets(content["mapping"][r])}
    BY <1>1, <1>2, <1>4 DEF Serves
  <2>2. generates(inputs[r])
    BY <2>1, VerifiedGenerates
  <2>3. \A o \in legacyOperations :
           \E c \in filterSuppressedLegacyCanaries(r) : o = inputs[r].canaries[c].operation
    BY <2>1 DEF legacyOperations, legacyLane
  <2>4. planLane \subseteq exactActivePlanTargets(content["mapping"][r])
    BY <2>1 DEF planLane
  <2>5. \A o \in legacyOperations : canaryOf(inputs[r], o) # {} /\ o \in identityOperations(inputs[r])
    BY <2>3 DEF canaryOf, identityOperations, filterSuppressedLegacyCanaries
  <2>6. \A o \in planLane : o \in identityOperations(inputs[r])
    BY <1>2, <2>4, ActiveTargets DEF identityOperations
  <2>7. \A o \in legacyOperations \cup planLane : key(o) = endpointKey(inputs[r], o)
    <3>1. \A o \in planLane : content["mapping"][r].operations[o].key = endpointKey(inputs[r], o)
      <4>1. \A o \in identityOperations(inputs[r]) :
              Mapping(inputs[r]).operations[o] = identity(inputs[r], o)
        BY DEF Mapping
      <4>2. \A o : identity(inputs[r], o).key = endpointKey(inputs[r], o)
        BY DEF identity
      <4> QED BY <1>2, <2>6, <4>1, <4>2, MappingContent
    <3> QED BY <2>1, <2>5, <3>1 DEF endpointKey
  <2> HIDE DEF key
  <2>8. legacyOperations \cap planLane = {}
    BY <1>2, <2>3, <2>4, OneLaneEach
  <2>9. \A o \in legacyOperations \cup planLane : \E e \in content["config"][r] : e.key = key(o)
    BY <1>2, <2>4, <2>5, <2>6, <2>7, KeyDeclared
  <2>10. \A o, p \in legacyOperations \cup planLane : key(o) = key(p) => o = p
    BY <2>2, <2>5, <2>6, <2>7 DEF generates, registerOperationGatusKey
  <2> QED BY <2>8, <2>9, <2>10 DEF LanesSound, key
<1> QED BY <1>2, <1>3, <1>4

-----------------------------------------------------------------------------
(* Preservation.                                                            *)

\* A process that failed to verify, or was asked for no plan, runs none of it.
LEMMA FailedServes ==
  ASSUME NEW r \in Releases
  PROVE  failed(r) \in Running /\ Serves(failed(r))
BY DEF failed, running, Running, Serves, Mappings

LEMMA DisabledServes ==
  ASSUME NEW r \in Releases
  PROVE  LET s == running(r, FALSE, FALSE, DOMAIN inputs[r].canaries, {}, NoPlan) IN
           s \in Running /\ Serves(s)
BY DEF running, Running, Serves, Mappings

LEMMA VerifiedServes ==
  ASSUME NEW r \in inputsVerified, NEW opened \in BOOLEAN
  PROVE  LET s == running(r, TRUE, TRUE, filterSuppressedLegacyCanaries(r),
                          IF opened THEN exactActivePlanTargets(content["mapping"][r]) ELSE {},
                          content["mapping"][r]) IN
           s \in Running /\ Serves(s)
<1>1. r \in Releases
  BY VerifiedGenerates
<1>2. exactActivePlanTargets(content["mapping"][r]) \subseteq DOMAIN content["mapping"][r].operations
  BY DEF exactActivePlanTargets
<1>3. filterSuppressedLegacyCanaries(r) \subseteq DOMAIN inputs[r].canaries
  BY DEF filterSuppressedLegacyCanaries
<1> DEFINE targets == IF opened THEN exactActivePlanTargets(content["mapping"][r]) ELSE {}
<1>4. /\ targets \in {{}, exactActivePlanTargets(content["mapping"][r])}
      /\ targets \subseteq DOMAIN content["mapping"][r].operations
  BY <1>2
<1> HIDE DEF targets
<1>5. running(r, TRUE, TRUE, filterSuppressedLegacyCanaries(r), targets, content["mapping"][r]) \in Running
  BY <1>1, <1>3, <1>4 DEF running, Running, Mappings
<1>6. Serves(running(r, TRUE, TRUE, filterSuppressedLegacyCanaries(r), targets, content["mapping"][r]))
  BY <1>4 DEF running, Serves
<1> QED BY <1>5, <1>6 DEF targets

LEMMA SchedulerStep == DeploymentInv /\ [DeploymentNext]_deploymentVars => SchedulerOK'
<1> SUFFICES ASSUME DeploymentInv, [DeploymentNext]_deploymentVars PROVE SchedulerOK'
  OBVIOUS
<1>0. SchedulerOK /\ rollout \subseteq Releases
  BY ReleasesAssumption DEF DeploymentInv
<1>1. CASE UNCHANGED scheduler
  BY <1>0, <1>1 DEF SchedulerOK
<1>2. ASSUME NEW r \in rollout, StartScheduler(r)
      PROVE  SchedulerOK'
  <2>1. r \in Releases
    BY <1>0
  <2>2. CASE activationAbsent(inputs[r])
    BY <1>2, <2>1, <2>2, DisabledServes DEF StartScheduler, SchedulerOK
  <2>3. CASE ~activationAbsent(inputs[r]) /\ r \in inputsVerified
    <3>1. scheduler' = [phase |-> "config", release |-> r, mapping |-> NoPlan]
      BY <1>2, <2>3 DEF StartScheduler
    <3> QED BY <2>3, <3>1 DEF SchedulerOK, Starting, Mappings
  <2>4. CASE ~activationAbsent(inputs[r]) /\ r \notin inputsVerified
    BY <1>2, <2>1, <2>4, FailedServes DEF StartScheduler, SchedulerOK
  <2> QED BY <2>2, <2>3, <2>4
<1>3. ASSUME NEW k \in Artifacts, SchedulerReads(k)
      PROVE  SchedulerOK'
  <2>1. scheduler \in Starting
    BY <1>0, <1>3 DEF SchedulerReads, SchedulerOK, Artifacts, Down, Running
  <2>2. scheduler.release \in inputsVerified /\ scheduler.release \in Releases
    BY <2>1, VerifiedGenerates DEF Starting
  <2>3. CASE artifactMatches(k, scheduler.release)
    <3>1. PICK m : m = IF k = "mapping" THEN content[k][files[k]] ELSE scheduler.mapping
      OBVIOUS
    <3>2. scheduler' = [scheduler EXCEPT !.phase = nextPhase[k], !.mapping = m]
      BY <1>3, <2>3, <3>1 DEF SchedulerReads
    <3>3. scheduler.phase = k /\ k \in {"config", "mapping", "pin"}
      BY <1>3 DEF SchedulerReads, Artifacts
    <3>4. /\ nextPhase["config"] = "mapping" /\ nextPhase["mapping"] = "pin"
          /\ nextPhase["pin"] = "verified"
      BY DEF nextPhase
    <3>5. k = "mapping" => m = content["mapping"][scheduler.release]
      BY <2>3, <3>1 DEF artifactMatches
    <3>6. CASE k = "config"
      BY <2>1, <3>1, <3>2, <3>3, <3>4, <3>6 DEF Starting, SchedulerOK
    <3>7. CASE k = "mapping"
      BY <2>1, <2>2, <3>2, <3>3, <3>4, <3>5, <3>7 DEF Starting, SchedulerOK, Mappings
    <3>8. CASE k = "pin"
      BY <2>1, <3>1, <3>2, <3>3, <3>4, <3>8 DEF Starting, SchedulerOK
    <3> QED BY <3>3, <3>6, <3>7, <3>8
  <2>4. CASE ~artifactMatches(k, scheduler.release)
    BY <1>3, <2>2, <2>4, FailedServes DEF SchedulerReads, SchedulerOK
  <2> QED BY <2>3, <2>4
<1>4. CASE OpenLane
  <2>1. scheduler \in Starting
    BY <1>0, <1>4 DEF OpenLane, SchedulerOK, Down, Running
  <2>2. scheduler.release \in inputsVerified /\ scheduler.release \in Releases
    BY <2>1, VerifiedGenerates DEF Starting
  <2> DEFINE r == scheduler.release
  <2>3. PICK opened \in BOOLEAN :
          scheduler' = IF decodes(r, content["mapping"][r])
                       THEN running(r, TRUE, TRUE, filterSuppressedLegacyCanaries(r),
                                    IF opened THEN exactActivePlanTargets(content["mapping"][r]) ELSE {},
                                    content["mapping"][r])
                       ELSE failed(r)
    <3>1. scheduler.mapping = content["mapping"][r]
      BY <1>4, <2>1 DEF OpenLane, Starting
    <3> QED BY <1>4, <3>1 DEF OpenLane
  <2> QED BY <2>2, <2>3, VerifiedServes, FailedServes DEF SchedulerOK
<1>5. CASE StopScheduler
  BY <1>5 DEF StopScheduler, SchedulerOK
<1>6. ASSUME scheduler.phase = "running", scheduler' = [scheduler EXCEPT !.looped = TRUE]
      PROVE  SchedulerOK'
  <2>1. scheduler \in Running /\ Serves(scheduler)
    BY <1>0, <1>6 DEF SchedulerOK, Down, Starting
  <2>2. scheduler' \in Running
    BY <1>6, <2>1 DEF Running
  <2>3. /\ scheduler'.release = scheduler.release
        /\ scheduler'.required = scheduler.required
        /\ scheduler'.verified = scheduler.verified
        /\ scheduler'.legacy = scheduler.legacy
        /\ scheduler'.targets = scheduler.targets
        /\ scheduler'.mapping = scheduler.mapping
    BY <1>6, <2>1 DEF Running
  <2>4. Serves(scheduler')
    BY <2>1, <2>3 DEF Serves
  <2> QED BY <2>2, <2>4 DEF SchedulerOK, Serves, Running, Starting
<1>7. CASE LegacyPass
  BY <1>6, <1>7 DEF LegacyPass, preflight
<1>8. ASSUME NEW c \in legacyLane, LegacyRun(c)
      PROVE  SchedulerOK'
  <2>1. scheduler.phase = "running"
    BY <1>8 DEF legacyLane, preflight
  <2> QED BY <1>6, <1>8, <2>1 DEF LegacyRun
<1>9. CASE UNCHANGED deploymentVars
  BY SMTT(30), <1>1, <1>9 DEF deploymentVars
<1>10. CASE DeploymentNext /\ ~UNCHANGED scheduler
  BY <1>2, <1>3, <1>4, <1>5, <1>7, <1>8, <1>10
    DEF DeploymentNext, Generate, WriteArtifact, GeneratorStops, GatusStart, PlanRun, StartPublic,
        PublicReads, StopPublic, Snapshot
<1> QED BY <1>1, <1>9, <1>10

LEMMA PublicStep == DeploymentInv /\ [DeploymentNext]_deploymentVars => PublicOK'
<1> SUFFICES ASSUME DeploymentInv, [DeploymentNext]_deploymentVars PROVE PublicOK'
  OBVIOUS
<1>0. PublicOK /\ rollout \subseteq Releases
  BY ReleasesAssumption DEF DeploymentInv
<1>1. CASE UNCHANGED public
  BY <1>0, <1>1 DEF PublicOK
<1>2. ASSUME NEW r \in rollout, StartPublic(r)
      PROVE  PublicOK'
  <2>1. r \in Releases
    BY <1>0
  <2>2. CASE activationAbsent(inputs[r])
    <3>1. public' = [phase |-> "running", release |-> r, bound |-> FALSE]
      BY <1>2, <2>2 DEF StartPublic
    <3> QED BY <2>1, <3>1 DEF PublicOK
  <2>3. CASE ~activationAbsent(inputs[r]) /\ r \in inputsVerified
    <3>1. public' = [phase |-> "config", release |-> r, bound |-> TRUE]
      BY <1>2, <2>3 DEF StartPublic
    <3> QED BY <2>1, <2>3, <3>1 DEF PublicOK
  <2>4. CASE ~activationAbsent(inputs[r]) /\ r \notin inputsVerified
    BY <1>2, <2>4 DEF StartPublic, PublicOK
  <2> QED BY <2>2, <2>3, <2>4
<1>3. ASSUME NEW k \in Artifacts, PublicReads(k)
      PROVE  PublicOK'
  <2>1. public # Down
    BY <1>3 DEF PublicReads, Artifacts, Down
  <2>2. nextPhase[k] \in {"mapping", "pin", "verified"} /\ (k # "pin" => nextPhase[k] # "verified")
    BY DEF nextPhase, Artifacts
  <2>3. public' = Down \/ \E p \in {"mapping", "pin", "running"} : public' = [public EXCEPT !.phase = p]
    BY <1>3, <2>2 DEF PublicReads
  <2> QED BY <1>0, <2>1, <2>3 DEF PublicOK
<1>4. CASE StopPublic
  BY <1>4 DEF StopPublic, PublicOK
<1>5. CASE UNCHANGED deploymentVars
  BY SMTT(30), <1>1, <1>5 DEF deploymentVars
<1>6. CASE DeploymentNext /\ ~UNCHANGED public
  BY <1>2, <1>3, <1>4, <1>6
    DEF DeploymentNext, Generate, WriteArtifact, GeneratorStops, GatusStart, StartScheduler, SchedulerReads,
        OpenLane, StopScheduler, LegacyPass, LegacyRun, PlanRun, Snapshot
<1> QED BY <1>1, <1>5, <1>6

-----------------------------------------------------------------------------
(* A report that is taken as ready covers every canary of the reader.       *)

\* A reader without an activation, and a scheduler that is asked for none: the
\* rows are as many as the reader's canaries and among them, so they are all.
LEMMA UnboundCovered ==
  ASSUME SchedulerOK, PublicOK, public.phase = "running", scheduler.phase = "running",
         public.bound = FALSE, validReport(public.release, public.bound, statusReport),
         statusReport.ready
  PROVE  uncovered = {}
<1>1. scheduler \in Running /\ public.release \in Releases
  BY DEF SchedulerOK, PublicOK, Down, Starting
<1> DEFINE D == DOMAIN inputs[public.release].canaries
<1>2. projection = NoProjection /\ scheduler.legacy \subseteq D
      /\ Cardinality(scheduler.legacy) = Cardinality(D) - Cardinality({})
  BY DEF validReport, statusReport
<1>3. scheduler.required = FALSE
  <2>1. scheduler.required \in BOOLEAN
    BY <1>1 DEF Running
  <2>2. ASSUME scheduler.required = TRUE PROVE FALSE
    <3>1. PICK b : projection = [ready |-> planReady, binding |-> b]
      BY <2>2 DEF projection
    <3>2. DOMAIN projection = {"ready", "binding"}
      BY <3>1
    <3>3. DOMAIN NoProjection = {"ready", "admitted"}
      BY DEF NoProjection
    <3> QED BY <1>2, <3>2, <3>3
  <2> QED BY <2>1, <2>2
<1>4. scheduler.legacy = D
  <2>1. IsFiniteSet(D)
    BY <1>1, ReleasesAssumption
  <2>2. Cardinality({}) = 0 /\ Cardinality(D) \in Nat
    BY <2>1, FS_EmptySet, FS_CardinalityType
  <2>3. Cardinality(scheduler.legacy) = Cardinality(D)
    BY <1>2, <2>2
  <2> QED BY <1>2, <2>1, <2>3, FS_Subset
<1>5. legacyLane = scheduler.legacy
  BY <1>3, Zenon DEF legacyLane, preflight
<1>6. scheduler.legacy \subseteq progress
  <2>1. statusReport.ready = (legacyReady /\ preflight /\ (scheduler.required => planReady))
    BY DEF statusReport
  <2>2. legacyReady
    BY <2>1, Zenon
  <2> QED BY <2>2 DEF legacyReady
<1> QED BY <1>4, <1>5, <1>6 DEF uncovered

\* A reader with an activation: both processes made the same bundle, so the
\* canaries the reader does not find in the report are those whose operations
\* the plan lane runs, and the lane is ready.
LEMMA BoundCovered ==
  ASSUME SchedulerOK, PublicOK, public.phase = "running", scheduler.phase = "running",
         public.bound = TRUE, validReport(public.release, public.bound, statusReport),
         statusReport.ready
  PROVE  uncovered = {}
<1> DEFINE p == public.release
           s == scheduler.release
<1>1. scheduler \in Running /\ Serves(scheduler) /\ p \in Releases /\ p \in inputsVerified
  BY DEF SchedulerOK, PublicOK, Down, Starting
<1>2. s \in Releases /\ scheduler.required \in BOOLEAN /\ scheduler.verified \in BOOLEAN
  BY <1>1 DEF Running
<1>3. projection # NoProjection /\ projection.binding = bindingOf[p]
  BY DEF validReport, statusReport, validProjection
<1>4. scheduler.required = TRUE
  BY <1>2, <1>3, Zenon DEF projection
<1>5. projection.binding = IF scheduler.verified THEN bindingOf[s] ELSE NoBinding
  BY <1>4 DEF projection
<1>6. scheduler.verified = TRUE
  <2>1. ASSUME scheduler.verified = FALSE PROVE FALSE
    <3>1. bindingOf[p] = NoBinding
      BY <1>3, <1>5, <2>1
    <3>2. DOMAIN bindingOf[p] = {"pin", "suppressed", "admitted"}
      BY <1>1 DEF bindingOf
    <3>3. DOMAIN NoBinding = {"admitted"}
      BY DEF NoBinding
    <3> QED BY <3>1, <3>2, <3>3
  <2> QED BY <1>2, <2>1
<1>7. bindingOf[s] = bindingOf[p]
  BY <1>3, <1>5, <1>6
<1>8. /\ content["mapping"][s] = content["mapping"][p]
      /\ inputs[s].canaries = inputs[p].canaries
      /\ suppressed(inputs[s]) = suppressed(inputs[p])
  BY <1>1, <1>2, <1>7, SamePin
<1>9. legacyReady /\ preflight /\ planReady
  <2>1. statusReport.ready = (legacyReady /\ preflight /\ (scheduler.required => planReady))
    BY DEF statusReport
  <2> QED BY <1>4, <2>1, Zenon
<1>10. ASSUME NEW c \in DOMAIN inputs[p].canaries, c \notin suppressed(inputs[p])
       PROVE  c \in legacyLane \cap progress
  <2>1. c \in scheduler.legacy
    BY <1>1, <1>4, <1>6, <1>8, <1>10 DEF Serves, filterSuppressedLegacyCanaries
  <2> QED BY <1>9, <2>1 DEF legacyLane, legacyReady
<1>11. ASSUME NEW c \in DOMAIN inputs[p].canaries, c \in suppressed(inputs[p])
       PROVE  LET o == inputs[p].canaries[c].operation IN
                o \in planLane /\ evidence[o] = inputs[s].plan
  <2> DEFINE o == inputs[p].canaries[c].operation
  <2>1. o \in activationOperations(inputs[p])
    BY <1>11 DEF suppressed
  <2>2. o \in planOperations(inputs[p])
    BY <1>1, <2>1, VerifiedGenerates DEF generates
  <2>3. o \in exactActivePlanTargets(content["mapping"][s])
    BY <1>1, <1>8, <2>1, <2>2, ActiveTargets
  <2>4. planLane = exactActivePlanTargets(content["mapping"][s])
    BY <1>1, <1>4, <1>6, <1>9 DEF Serves, planLane, planReady
  <2> QED BY <1>9, <2>3, <2>4 DEF planReady
<1> QED BY <1>10, <1>11 DEF uncovered

\* Only Snapshot judges a report; the other steps keep or forget what was judged.
LEMMA ReadyStep == DeploymentInv /\ [DeploymentNext]_deploymentVars => ReadyIsCovered'
<1> SUFFICES ASSUME DeploymentInv, [DeploymentNext]_deploymentVars PROVE ReadyIsCovered'
  OBVIOUS
<1>1. CASE UNCHANGED served
  BY <1>1 DEF DeploymentInv, ReadyIsCovered
<1>2. CASE served' = NotServed
  BY <1>2 DEF ReadyIsCovered, NotServed
<1>3. CASE Snapshot
  <2>1. CASE /\ scheduler.phase = "running"
             /\ validReport(public.release, public.bound, statusReport)
             /\ statusReport.ready
    <3>1. public.phase = "running" /\ SchedulerOK /\ PublicOK
      BY <1>3 DEF Snapshot, DeploymentInv
    <3>2. public.bound \in BOOLEAN
      BY <3>1 DEF PublicOK, Down
    <3>3. uncovered = {}
      BY <2>1, <3>1, <3>2, UnboundCovered, BoundCovered
    <3>4. served' = [result |-> "ready", uncovered |-> uncovered]
      BY <1>3, <2>1 DEF Snapshot
    <3> QED BY <3>3, <3>4 DEF ReadyIsCovered
  <2>2. CASE ~(/\ scheduler.phase = "running"
               /\ validReport(public.release, public.bound, statusReport)
               /\ statusReport.ready)
    <3>1. served'.result # "ready"
      BY <1>3, <2>2 DEF Snapshot
    <3> QED BY <3>1 DEF ReadyIsCovered
  <2> QED BY <2>1, <2>2
<1>4. CASE UNCHANGED deploymentVars
  BY <1>1, <1>4 DEF deploymentVars
<1>5. CASE DeploymentNext
  BY <1>1, <1>2, <1>3, <1>5
    DEF DeploymentNext, Generate, WriteArtifact, GeneratorStops, GatusStart, StartScheduler, SchedulerReads,
        OpenLane, StopScheduler, LegacyPass, LegacyRun, PlanRun, StartPublic, PublicReads, StopPublic
<1> QED BY <1>4, <1>5

-----------------------------------------------------------------------------
LEMMA DeploymentInvHolds == DeploymentSpec => []DeploymentInv
<1>1. DeploymentInit => DeploymentInv
  BY DEF DeploymentInit, DeploymentInv, SchedulerOK, PublicOK, ReadyIsCovered, NotServed
<1>2. DeploymentInv /\ [DeploymentNext]_deploymentVars => DeploymentInv'
  <2>1. DeploymentInv /\ [DeploymentNext]_deploymentVars => (rollout \in Rollouts)'
    BY DEF DeploymentInv, DeploymentNext, deploymentVars, Generate, WriteArtifact, GeneratorStops, GatusStart, StartScheduler,
           SchedulerReads, OpenLane, StopScheduler, LegacyPass, LegacyRun, PlanRun, StartPublic,
           PublicReads, StopPublic, Snapshot
  <2> QED BY SMTT(30), <2>1, SchedulerStep, PublicStep, ReadyStep DEF DeploymentInv
<1> QED BY <1>1, <1>2, PTL DEF DeploymentSpec

(***************************************************************************)
(* For every set of releases: a health-scheduler that runs under an         *)
(* activation runs no operation in both lanes and pushes different          *)
(* operations under different declared keys, however the generator and the  *)
(* processes are interleaved (LanesSound).                                  *)
(***************************************************************************)
THEOREM LanesAreSound == DeploymentSpec => []LanesSound
<1>1. DeploymentInv => LanesSound
  BY SchedulerIsSound DEF DeploymentInv
<1> QED BY <1>1, DeploymentInvHolds, PTL

(***************************************************************************)
(* For every set of releases: a report that health-public takes as ready    *)
(* covers every canary of its own release, whichever release the scheduler  *)
(* runs (ReadyIsCovered).                                                   *)
(***************************************************************************)
THEOREM ReadyCoversReader == DeploymentSpec => []ReadyIsCovered
<1>1. DeploymentInv => ReadyIsCovered
  BY DEF DeploymentInv
<1> QED BY <1>1, DeploymentInvHolds, PTL
=============================================================================
