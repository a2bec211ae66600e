----------------------- MODULE OperationReadModelProofs -----------------------
(***************************************************************************)
(* What health-public shows of the ledger, for every number of operations,   *)
(* batch size, page size and period, and every ledger that the validators of *)
(* operation_attempt_store.go accept.                                        *)
(*                                                                           *)
(* The reader takes no lock, so the proof follows a file through the three   *)
(* places where the reader remembers it: the attempts and versions of the    *)
(* batch under way, the rows and versions of the sweep, and the snapshot     *)
(* with its committed stamps.  At each place a version that is still the     *)
(* file's own vouches for what was read with it (BatchOK, SweepOK,           *)
(* StampHidesNothing), and an operation without a staged version still has   *)
(* the row of the snapshot.  Rows are valid at every instant, not only at    *)
(* the one they were projected for (RefreshValid).                           *)
(***************************************************************************)
EXTENDS OperationReadModelRuntime, FiniteSetTheorems, SequenceTheorems, TLAPS

-----------------------------------------------------------------------------
(* The inductive invariant.                                                 *)

Current == {"current_pass", "current_fail", "current_indeterminate"}

Row == [state : States \cup {"none"}, started : Started, attempted : BOOLEAN,
        category : Categories \cup {"none"}, observed : Nat, received : Nat,
        delivery : Deliveries, ack : Nat, readback : Nat,
        missing : {"none", "no_validated_observation", "future_observation"},
        observation : Current \cup {"stale", "unobserved"}]

\* What ValidatePublicProjection asks of a row whatever the time is.
Timeless(row) ==
  /\ row.state = "deferred" => row.started = "false"
  /\ (row.category = "none") = (row.observed = 0)
  /\ (row.category = "none") = (row.received = 0)
  /\ row.observed <= row.received
  /\ row.category = "response_semantics_unestablished" => row.attempted
  /\ row.delivery = "not_applicable" => row.category = "response_semantics_unestablished"
  /\ row.ack # 0 => row.received # 0 /\ row.received <= row.ack
  /\ row.readback # 0 => row.ack # 0 /\ row.ack <= row.readback

\* The result that a row shows was received under the reader's plan.
real(o, row) ==
  row.observed # 0 =>
    [op |-> o, plan |-> Plan, category |-> row.category, observed |-> row.observed]
      \in observations

goodRows(rows) ==
  /\ rows \in [Operations -> Row]
  /\ \A o \in Operations : Timeless(rows[o]) /\ real(o, rows[o])

Attempt == [plan : Plans, state : States, started : Started, ever : BOOLEAN,
            obs : Observation \cup {NoObservation}]

\* A projection that a valid ledger file gives.
goodAttempt(a) ==
  /\ a \in Attempt
  /\ validOperationReadModelAttempt(a)
  /\ ~Rollback => /\ a.obs.plan <= a.plan
                  /\ a.obs.plan = a.plan => a.ever

held(o, a) == hasObservation(a) => observation(o, a.obs) \in observations

\* The row says what the file says of this plan.
shows(row, f) ==
  LET a == selectedAttempt(operationReadModelAttemptFromState(f))
  IN  /\ row.state = a.state /\ row.started = a.started
      /\ a.ever => row.attempted
      /\ row.category = a.obs.category
      /\ row.observed = a.obs.observed /\ row.received = a.obs.received

LedgerOK ==
  /\ clock \in Nat \ {0}
  /\ DOMAIN files = Operations /\ files = [o \in Operations |-> files[o]]
  /\ \A o \in Operations :
       \/ files[o] = NoFile
       \/ validLedgerFile(files[o], clock) /\ held(o, files[o])

StampsOK ==
  /\ stamps \in [Operations -> Nat \cup {Unknown}]
  /\ \A o \in Operations : stamps[o] <= files[o].version
  /\ current = NoSnapshot => \A o \in Operations : stamps[o] = Unknown

SnapshotOK ==
  \/ current = NoSnapshot
  \/ /\ current = [rows |-> current.rows, at |-> current.at]
     /\ current.at \in Nat
     /\ goodRows(current.rows)

\* The rows a sweep starts from.
baseRow(o) == IF current = NoSnapshot THEN staticRow ELSE current.rows[o]

SweepOK ==
  \/ staging = NoSweep
  \/ /\ staging = [rows |-> staging.rows, offset |-> staging.offset, at |-> staging.at,
                   updates |-> staging.updates]
     /\ staging.offset \in 0 .. N - 1
     /\ staging.at \in Nat
     /\ goodRows(staging.rows)
     /\ DOMAIN staging.updates \subseteq 1 .. staging.offset
     /\ \A o \in DOMAIN staging.updates :
          LET v == staging.updates[o]
          IN  /\ v \in Nat /\ v <= files[o].version
              /\ v > 0 /\ v = files[o].version /\ files[o].plan = Plan
                   => shows(staging.rows[o], files[o])
     /\ \A o \in Operations \ DOMAIN staging.updates : staging.rows[o] = baseRow(o)

BatchOK ==
  \/ batch = NoBatch
  \/ /\ staging # NoSweep
     /\ batch = [at |-> batch.at, next |-> batch.next, stat |-> batch.stat,
                 attempts |-> batch.attempts, updates |-> batch.updates]
     /\ batch.at \in Nat
     /\ batch.next \in staging.offset + 1 .. batchEnd + 1
     /\ batch.stat \in (Nat \ {0}) \cup {Unknown}
     /\ DOMAIN batch.updates \subseteq staging.offset + 1 .. batch.next - 1
     /\ DOMAIN batch.attempts \subseteq DOMAIN batch.updates
     /\ \A o \in DOMAIN batch.updates :
          /\ batch.updates[o] \in Nat /\ batch.updates[o] <= files[o].version
          /\ o \notin DOMAIN batch.attempts => batch.updates[o] = 0
     /\ \A o \in DOMAIN batch.attempts :
          /\ goodAttempt(batch.attempts[o]) /\ held(o, batch.attempts[o])
          /\ batch.updates[o] = files[o].version =>
               batch.attempts[o] = operationReadModelAttemptFromState(files[o])

WalkOK ==
  /\ walk = [seen |-> walk.seen, more |-> walk.more]
  /\ walk.seen \in Seq(Nat)
  /\ walk.seen = [i \in 1 .. Len(walk.seen) |-> i]
  /\ walk.more \in BOOLEAN
  /\ walk.more => Len(walk.seen) < N
  /\ ~walk.more => Len(walk.seen) = N

IInv == LedgerOK /\ StampsOK /\ SnapshotOK /\ SweepOK /\ BatchOK /\ WalkOK /\ StampHidesNothing

\* The file holds this result or one that came after it.
covers(f, observed) ==
  observed # 0 => \/ f.obs.plan > Plan
                  \/ f.obs.plan = Plan /\ f.obs.observed >= observed

\* The result that a projection shows.
shown(a) == selectedAttempt(a).obs.observed

\* Under plans that do not come back, results only become newer on their way
\* from the file to the snapshot.
Newer ==
  /\ current # NoSnapshot =>
       \A o \in Operations : covers(files[o], current.rows[o].observed)
  /\ staging # NoSweep =>
       \A o \in Operations :
         /\ covers(files[o], staging.rows[o].observed)
         /\ baseRow(o).observed <= staging.rows[o].observed
  /\ batch # NoBatch =>
       \A o \in DOMAIN batch.attempts :
         batch.attempts[o].plan = Plan =>
           /\ covers(files[o], shown(batch.attempts[o]))
           /\ staging.rows[o].observed <= shown(batch.attempts[o])

\* No batch that a sweep has read is refused.
BatchAccepted == batchRead => accepted

-----------------------------------------------------------------------------
(* Rows and projections.                                                    *)

LEMMA StaticRowGood ==
  staticRow \in Row /\ Timeless(staticRow)
BY DEF staticRow, Row, Timeless, States, Started, Categories, Deliveries, Current

\* The delivery of a row at an instant.
LEMMA DeliveryAtCases ==
  ASSUME NEW row \in Row, NEW at \in Nat
  PROVE  \/ /\ row.ack > at
            /\ deliveryAt(row, at) = [row EXCEPT !.delivery = "pending", !.ack = 0, !.readback = 0]
         \/ /\ row.ack <= at /\ row.readback > at
            /\ deliveryAt(row, at) = [row EXCEPT !.delivery = "acknowledged", !.readback = 0]
         \/ /\ row.ack <= at /\ row.readback <= at
            /\ deliveryAt(row, at) = row
<1>1. row.ack \in Nat /\ row.readback \in Nat
  BY DEF Row
<1>2. CASE row.ack > at
  BY <1>1, <1>2 DEF deliveryAt
<1>3. CASE row.ack <= at /\ row.readback > at
  BY <1>1, <1>3 DEF deliveryAt
<1>4. CASE row.ack <= at /\ row.readback <= at
  BY <1>1, <1>4 DEF deliveryAt
<1> QED BY <1>1, <1>2, <1>3, <1>4

\* It touches nothing but the delivery, and no stage of it lies ahead.
LEMMA DeliveryAtGood ==
  ASSUME NEW row \in Row, NEW at \in Nat
  PROVE  LET r == deliveryAt(row, at)
         IN  /\ r \in Row
             /\ r.state = row.state /\ r.started = row.started /\ r.attempted = row.attempted
             /\ r.category = row.category /\ r.observed = row.observed
             /\ r.received = row.received
             /\ Timeless(row) => Timeless(r)
             /\ r.ack <= at /\ r.readback <= at
<1> DEFINE r == deliveryAt(row, at)
<1>0. "pending" \in Deliveries /\ "acknowledged" \in Deliveries
  BY SMTT(30) DEF Deliveries
<1>d. \/ row.ack > at /\ r = [row EXCEPT !.delivery = "pending", !.ack = 0, !.readback = 0]
      \/ /\ row.ack <= at /\ row.readback > at
         /\ r = [row EXCEPT !.delivery = "acknowledged", !.readback = 0]
      \/ row.ack <= at /\ row.readback <= at /\ r = row
  BY DeliveryAtCases
<1> HIDE DEF r
<1>1. CASE row.ack > at /\ r = [row EXCEPT !.delivery = "pending", !.ack = 0, !.readback = 0]
  <2>1. r \in Row
    BY <1>0, <1>1 DEF Row
  <2>2. /\ r.state = row.state /\ r.started = row.started /\ r.attempted = row.attempted
        /\ r.category = row.category /\ r.observed = row.observed
        /\ r.received = row.received
        /\ r.delivery = "pending" /\ r.ack = 0 /\ r.readback = 0
    BY <1>1 DEF Row
  <2>3. Timeless(row) => Timeless(r)
    BY <2>2 DEF Timeless
  <2> QED BY <2>1, <2>2, <2>3 DEF r
<1>2. CASE /\ row.ack <= at /\ row.readback > at
           /\ r = [row EXCEPT !.delivery = "acknowledged", !.readback = 0]
  <2>1. r \in Row
    BY <1>0, <1>2 DEF Row
  <2>2. /\ r.state = row.state /\ r.started = row.started /\ r.attempted = row.attempted
        /\ r.category = row.category /\ r.observed = row.observed
        /\ r.received = row.received
        /\ r.delivery = "acknowledged" /\ r.ack = row.ack /\ r.readback = 0
    BY <1>2 DEF Row
  <2>3. Timeless(row) => Timeless(r)
    BY <2>2 DEF Timeless
  <2> QED BY <1>2, <2>1, <2>2, <2>3 DEF r
<1>3. CASE row.ack <= at /\ row.readback <= at /\ r = row
  BY <1>3 DEF Row, r
<1> QED BY <1>d, <1>1, <1>2, <1>3

\* The observation that a row shows at an instant.
observationAt(row, at) ==
  IF row.observed > at \/ row.received > at \/ row.observed = 0 THEN "unobserved"
  ELSE IF ~isCurrent(row, at) THEN "stale"
  ELSE CASE ResultState(row.category) = "healthy" -> "current_pass"
         [] ResultState(row.category) = "unhealthy" -> "current_fail"
         [] OTHER -> "current_indeterminate"

LEMMA ObservationAtTyped ==
  ASSUME NEW row, NEW at
  PROVE  observationAt(row, at) \in Current \cup {"stale", "unobserved"}
BY DEF observationAt, Current, ResultState

\* Freshness touches nothing but the delivery, the observation and the reason
\* for its absence.
LEMMA RefreshGood ==
  ASSUME NEW row \in Row, NEW at \in Nat
  PROVE  LET r == refreshOperationReadModelFreshness(row, at)
             d == deliveryAt(row, at)
         IN  /\ r \in Row
             /\ r.state = row.state /\ r.started = row.started /\ r.attempted = row.attempted
             /\ r.category = row.category /\ r.observed = row.observed
             /\ r.received = row.received
             /\ r.delivery = d.delivery /\ r.ack = d.ack /\ r.readback = d.readback
             /\ r.observation = observationAt(row, at)
             /\ r.observed > at \/ r.received > at => r.missing = "future_observation"
<1> DEFINE d == deliveryAt(row, at)
           r == refreshOperationReadModelFreshness(row, at)
<1>1. /\ d \in Row
      /\ d.state = row.state /\ d.started = row.started /\ d.attempted = row.attempted
      /\ d.category = row.category /\ d.observed = row.observed
      /\ d.received = row.received
  BY DeliveryAtGood
<1>2. d.observed \in Nat /\ d.received \in Nat
  BY <1>1 DEF Row
<1>3. observationAt(row, at) \in Current \cup {"stale", "unobserved"}
  BY ObservationAtTyped
<1>4. \/ /\ d.observed > at \/ d.received > at
         /\ r = [d EXCEPT !.observation = observationAt(row, at), !.missing = "future_observation"]
      \/ /\ ~(d.observed > at \/ d.received > at)
         /\ r = [d EXCEPT !.observation = observationAt(row, at)]
  <2>1. CASE d.observed > at \/ d.received > at
    BY <1>1, <2>1 DEF refreshOperationReadModelFreshness, observationAt
  <2>2. CASE ~(d.observed > at \/ d.received > at)
    <3>1. observationAt(row, at) =
            IF d.observed = 0 THEN "unobserved"
            ELSE IF ~isCurrent(d, at) THEN "stale"
            ELSE CASE ResultState(d.category) = "healthy" -> "current_pass"
                   [] ResultState(d.category) = "unhealthy" -> "current_fail"
                   [] OTHER -> "current_indeterminate"
      BY <1>1, <2>2 DEF observationAt, isCurrent
    <3> QED BY <2>2, <3>1 DEF refreshOperationReadModelFreshness
  <2> QED BY <2>1, <2>2
<1> DEFINE seen == observationAt(row, at)
<1> HIDE DEF d, r, seen
<1>5. CASE /\ d.observed > at \/ d.received > at
           /\ r = [d EXCEPT !.observation = seen, !.missing = "future_observation"]
  <2>1. /\ r \in Row
        /\ r.state = d.state /\ r.started = d.started /\ r.attempted = d.attempted
        /\ r.category = d.category /\ r.observed = d.observed /\ r.received = d.received
        /\ r.delivery = d.delivery /\ r.ack = d.ack /\ r.readback = d.readback
        /\ r.observation = seen /\ r.missing = "future_observation"
    <3>1. r \in Row
      BY <1>1, <1>3, <1>5 DEF Row, seen
    <3> QED BY <1>1, <1>5, <3>1 DEF Row
  <2> QED BY <1>1, <2>1 DEF d, r, seen
<1>6. CASE /\ ~(d.observed > at \/ d.received > at)
           /\ r = [d EXCEPT !.observation = seen]
  <2>1. /\ r \in Row
        /\ r.state = d.state /\ r.started = d.started /\ r.attempted = d.attempted
        /\ r.category = d.category /\ r.observed = d.observed /\ r.received = d.received
        /\ r.delivery = d.delivery /\ r.ack = d.ack /\ r.readback = d.readback
        /\ r.observation = seen
    <3>1. r \in Row
      BY <1>1, <1>3, <1>6 DEF Row, seen
    <3> QED BY <1>1, <1>6, <3>1 DEF Row
  <2> QED BY <1>1, <1>6, <2>1 DEF d, r, seen
<1> QED BY <1>4, <1>5, <1>6 DEF d, r, seen

\* A row that is valid at all is valid at every instant it is refreshed for,
\* so a snapshot that is served answers every page.
LEMMA RefreshValid ==
  ASSUME NEW row \in Row, NEW at \in Nat, Timeless(row)
  PROVE  ValidatePublicProjection(refreshOperationReadModelFreshness(row, at), at)
<1> DEFINE d == deliveryAt(row, at)
           r == refreshOperationReadModelFreshness(row, at)
           again == refreshOperationReadModelFreshness(r, at)
<1>1. /\ d \in Row /\ Timeless(d)
      /\ d.state = row.state /\ d.started = row.started /\ d.attempted = row.attempted
      /\ d.category = row.category /\ d.observed = row.observed
      /\ d.received = row.received
      /\ d.ack <= at /\ d.readback <= at
  BY DeliveryAtGood
<1>2. /\ r \in Row
      /\ r.state = row.state /\ r.started = row.started /\ r.attempted = row.attempted
      /\ r.category = row.category /\ r.observed = row.observed
      /\ r.received = row.received
      /\ r.delivery = d.delivery /\ r.ack = d.ack /\ r.readback = d.readback
      /\ r.observation = observationAt(row, at)
      /\ r.observed > at \/ r.received > at => r.missing = "future_observation"
  BY RefreshGood
<1> HIDE DEF d, r
<1>3. Timeless(r)
  BY SMTT(30), <1>1, <1>2 DEF Timeless
<1>4. deliveryAt(r, at) = r
  <2>1. r.ack <= at /\ r.readback <= at /\ r.ack \in Nat /\ r.readback \in Nat
    BY <1>1, <1>2 DEF Row
  <2>2. ~(r.ack > at) /\ ~(r.readback > at)
    BY <2>1
  <2> QED BY <1>2, <2>2, DeliveryAtCases
<1>5. /\ again.delivery = r.delivery /\ again.ack = r.ack /\ again.readback = r.readback
      /\ again.observation = observationAt(r, at)
  BY <1>2, <1>3, <1>4, RefreshGood
<1>6. observationAt(r, at) = observationAt(row, at)
  BY <1>2 DEF observationAt, isCurrent
<1> HIDE DEF again
<1>7. r.received > at \/ r.observed > at =>
        r.observation = "unobserved" /\ r.missing = "future_observation"
  BY <1>2 DEF observationAt
<1>8. /\ r.ack # 0 => r.received # 0 /\ r.received <= r.ack /\ r.ack <= at
      /\ r.readback # 0 => r.ack # 0 /\ r.ack <= r.readback /\ r.readback <= at
  BY <1>1, <1>2, <1>3 DEF Timeless
<1>9. ValidatePublicProjection(r, at)
  BY <1>2, <1>3, <1>5, <1>6, <1>7, <1>8 DEF ValidatePublicProjection, Timeless, again
<1> QED BY <1>9 DEF r

\* What acceptance says of a row outlasts the instant of the acceptance.
LEMMA ValidIsTimeless ==
  ASSUME NEW row, NEW at, ValidatePublicProjection(row, at)
  PROVE  Timeless(row)
BY DEF ValidatePublicProjection, Timeless

\* The observation that the reader selects: this plan's or none.
LEMMA SelectedGood ==
  ASSUME NEW a \in Attempt, validOperationReadModelAttempt(a)
  PROVE  LET s == selectedAttempt(a)
         IN  /\ s \in Attempt
             /\ s.plan = a.plan /\ s.state = a.state /\ s.started = a.started
             /\ s.ever = a.ever
             /\ s.obs = a.obs \/ s.obs = NoObservation
             /\ hasObservation(s) => s.obs = a.obs /\ s.obs.plan = Plan
             /\ a.obs.plan = Plan => s.obs = a.obs
             /\ s.obs # NoObservation => s.obs \in Observation /\ 0 < s.obs.observed
<1> DEFINE s == selectedAttempt(a)
<1>1. CASE hasObservation(a) /\ ~bindingMatches(a.obs.plan)
  <2>1. s = [a EXCEPT !.obs = NoObservation]
    BY <1>1 DEF selectedAttempt, withoutOperationReadModelObservation
  <2> HIDE DEF s
  <2>2. s \in Attempt
    BY <2>1 DEF Attempt
  <2>3. /\ s.plan = a.plan /\ s.state = a.state /\ s.started = a.started
        /\ s.ever = a.ever /\ s.obs = NoObservation
    BY <2>1 DEF Attempt
  <2> QED BY <1>1, <2>2, <2>3 DEF hasObservation, bindingMatches, s
<1>2. CASE ~(hasObservation(a) /\ ~bindingMatches(a.obs.plan))
  <2>1. s = a
    BY <1>2 DEF selectedAttempt
  <2>2. hasObservation(a) => a.obs.plan = Plan
    BY <1>2 DEF bindingMatches
  <2>3. hasObservation(a) => a.obs \in Observation /\ 0 < a.obs.observed
    BY DEF Attempt, hasObservation, validOperationReadModelAttempt
  <2> QED BY <2>1, <2>2, <2>3 DEF hasObservation
<1> QED BY <1>1, <1>2

\* What a projection of this plan makes of a row, before its freshness.
LEMMA ApplyGood ==
  ASSUME NEW row \in Row, NEW a \in Attempt, validOperationReadModelAttempt(a)
  PROVE  LET p == applyOperationReadModelAttempt(row, selectedAttempt(a))
             s == selectedAttempt(a)
         IN  /\ p \in Row
             /\ p.state = s.state /\ p.started = s.started
             /\ p.attempted = (row.attempted \/ s.ever \/ s.started = "true")
             /\ p.category = s.obs.category
             /\ p.observed = s.obs.observed /\ p.received = s.obs.received
             /\ p.delivery = s.obs.delivery /\ p.ack = s.obs.ack /\ p.readback = s.obs.readback
<1> DEFINE s == selectedAttempt(a)
           o == s.obs
<1>1. s \in Attempt
  BY SelectedGood
<1>2. /\ s.obs.category \in Categories \cup {"none"}
      /\ s.obs.observed \in Nat /\ s.obs.received \in Nat /\ s.obs.delivery \in Deliveries
      /\ s.obs.ack \in Nat /\ s.obs.readback \in Nat
  BY <1>1 DEF Attempt, Observation, NoObservation, Deliveries
<1>3. /\ s.state \in States /\ s.started \in Started /\ s.ever \in BOOLEAN
      /\ row.attempted \in BOOLEAN
  BY <1>1 DEF Attempt, Row
<1>4. (IF hasObservation(s) THEN "none" ELSE staticRow.missing)
        \in {"none", "no_validated_observation", "future_observation"}
  BY DEF staticRow
<1> HIDE DEF s
<1>5. applyOperationReadModelAttempt(row, s) \in Row
  BY <1>2, <1>3, <1>4 DEF applyOperationReadModelAttempt, Row
<1>6. LET p == applyOperationReadModelAttempt(row, s)
      IN  /\ p.state = s.state /\ p.started = s.started
          /\ p.attempted = (row.attempted \/ s.ever \/ s.started = "true")
          /\ p.category = s.obs.category
          /\ p.observed = s.obs.observed /\ p.received = s.obs.received
          /\ p.delivery = s.obs.delivery /\ p.ack = s.obs.ack /\ p.readback = s.obs.readback
  BY DEF applyOperationReadModelAttempt
<1> QED BY <1>5, <1>6 DEF s

\* The row that applyAttempts stores shows what was selected.
LEMMA AppliedShows ==
  ASSUME NEW row \in Row, NEW a \in Attempt, validOperationReadModelAttempt(a), NEW at \in Nat
  PROVE  LET r == appliedRow(row, a, at)
             s == selectedAttempt(a)
         IN  /\ r \in Row
             /\ r.state = s.state /\ r.started = s.started
             /\ s.ever => r.attempted
             /\ r.category = s.obs.category
             /\ r.observed = s.obs.observed /\ r.received = s.obs.received
<1> DEFINE s == selectedAttempt(a)
           p == applyOperationReadModelAttempt(row, s)
           r == refreshOperationReadModelFreshness(p, at)
<1>1. /\ p \in Row
      /\ p.state = s.state /\ p.started = s.started
      /\ p.attempted = (row.attempted \/ s.ever \/ s.started = "true")
      /\ p.category = s.obs.category
      /\ p.observed = s.obs.observed /\ p.received = s.obs.received
  BY ApplyGood
<1> HIDE DEF p
<1>2. /\ r \in Row
      /\ r.state = p.state /\ r.started = p.started /\ r.attempted = p.attempted
      /\ r.category = p.category /\ r.observed = p.observed /\ r.received = p.received
  BY <1>1, RefreshGood
<1>3. s.ever => p.attempted
  BY <1>1
<1>4. appliedRow(row, a, at) = r
  BY DEF appliedRow, p
<1> HIDE DEF r, s
<1>5. /\ r \in Row
      /\ r.state = s.state /\ r.started = s.started
      /\ s.ever => r.attempted
      /\ r.category = s.obs.category
      /\ r.observed = s.obs.observed /\ r.received = s.obs.received
  BY <1>1, <1>2, <1>3
<1> QED BY <1>4, <1>5 DEF s

\* Under plans that do not come back every valid projection is accepted, by
\* every row and at every instant: the sticky bit of a file knows the request
\* behind each result of the file's own plan.
LEMMA AcceptsGood ==
  ASSUME ~Rollback, NEW row \in Row, NEW a, goodAttempt(a), NEW at \in Nat
  PROVE  acceptsAttempt(row, a, at)
<1> USE DEF goodAttempt
<1> DEFINE s == selectedAttempt(a)
           p == applyOperationReadModelAttempt(row, s)
<1> SUFFICES ASSUME bindingMatches(a.plan)
             PROVE  ValidatePublicProjection(appliedRow(row, a, at), at)
  BY DEF acceptsAttempt
<1>1. /\ s \in Attempt
      /\ s.plan = a.plan /\ s.state = a.state /\ s.started = a.started
      /\ s.ever = a.ever
      /\ hasObservation(s) => s.obs = a.obs /\ s.obs.plan = Plan
  BY SelectedGood
<1>2. /\ p \in Row
      /\ p.state = s.state /\ p.started = s.started
      /\ p.attempted = (row.attempted \/ s.ever \/ s.started = "true")
      /\ p.category = s.obs.category
      /\ p.observed = s.obs.observed /\ p.received = s.obs.received
      /\ p.delivery = s.obs.delivery /\ p.ack = s.obs.ack /\ p.readback = s.obs.readback
  BY ApplyGood
<1>3. s.state = "deferred" => s.started = "false"
  BY <1>1 DEF validOperationReadModelAttempt, validRequestEvidence
<1> HIDE DEF s, p
<1>4. CASE ~hasObservation(s)
  <2>1. /\ p.category = "none" /\ p.observed = 0 /\ p.received = 0 /\ p.delivery = "not_ready"
        /\ p.ack = 0 /\ p.readback = 0
    BY <1>2, <1>4 DEF hasObservation, NoObservation
  <2>2. Timeless(p)
    BY <1>2, <1>3, <2>1 DEF Timeless
  <2> QED BY <1>2, <2>2, RefreshValid DEF appliedRow, p, s
<1>5. CASE hasObservation(s)
  <2>1. s.obs = a.obs /\ s.obs.plan = Plan /\ hasObservation(a)
    BY <1>1, <1>5 DEF hasObservation
  <2>2. p.attempted
    <3>1. s.ever
      BY <1>1, <2>1 DEF bindingMatches
    <3> QED BY <1>2, <3>1
  <2>3. /\ a.obs.category \in Categories
        /\ 0 < a.obs.observed /\ a.obs.observed <= a.obs.received
        /\ a.obs.ack # 0 => a.obs.ack >= a.obs.received
        /\ validGatusReadback(a.obs)
    BY <2>1 DEF validOperationReadModelAttempt
  <2>4. a.obs \in Observation
    BY <2>1 DEF Attempt, hasObservation
  <2>5. /\ a.obs.delivery = "not_applicable" => a.obs.category = "response_semantics_unestablished"
        /\ a.obs.readback # 0 => a.obs.ack # 0 /\ a.obs.ack <= a.obs.readback
    BY <2>3, <2>4 DEF validGatusReadback, Observation, Deliveries
  <2>6. a.obs.category # "none"
    BY <2>3 DEF Categories
  <2>7. /\ a.obs.observed \in Nat /\ a.obs.received \in Nat
        /\ a.obs.ack \in Nat /\ a.obs.readback \in Nat
    BY <2>4 DEF Observation
  <2>8. Timeless(p)
    BY <1>2, <1>3, <2>1, <2>2, <2>3, <2>5, <2>6, <2>7 DEF Timeless
  <2> QED BY <1>2, <2>8, RefreshValid DEF appliedRow, p, s
<1> QED BY <1>4, <1>5

-----------------------------------------------------------------------------
(* The scheduler's process.                                                 *)

AnyFile ==
  [version : Nat, plan : Plans \cup {0}, state : States \cup {"none"}, started : Started,
   ever : BOOLEAN, begun : Nat, obs : Observation \cup {NoObservation}]

\* The projection changes nothing but the name of an unclaimed delivery.
LEMMA FromStateFields ==
  ASSUME NEW f, f.obs \in Observation \cup {NoObservation}
  PROVE  LET a == operationReadModelAttemptFromState(f)
         IN  /\ a.plan = f.plan /\ a.state = f.state /\ a.started = f.started
             /\ a.ever = f.ever
             /\ a.obs \in Observation \cup {NoObservation}
             /\ a.obs.plan = f.obs.plan /\ a.obs.category = f.obs.category
             /\ a.obs.observed = f.obs.observed /\ a.obs.received = f.obs.received
             /\ hasObservation(a) <=> hasObservation(f)
             /\ validOperationReadModelAttempt(a) <=> validOperationReadModelAttempt(f)
<1> DEFINE a == operationReadModelAttemptFromState(f)
           renamed == hasObservation(f) /\ f.obs.delivery = "not_ready"
<1>1. /\ a.plan = f.plan /\ a.state = f.state /\ a.started = f.started
      /\ a.ever = f.ever
      /\ a.obs = IF renamed THEN [f.obs EXCEPT !.delivery = "pending"] ELSE f.obs
  BY DEF operationReadModelAttemptFromState
<1> HIDE DEF a
<1>2. validRequestEvidence(a) <=> validRequestEvidence(f)
  BY <1>1 DEF validRequestEvidence
<1>3. CASE ~renamed
  <2>1. a.obs = f.obs
    BY <1>1, <1>3
  <2>2. hasObservation(a) <=> hasObservation(f)
    BY <2>1 DEF hasObservation
  <2>3. validOperationReadModelAttempt(a) <=> validOperationReadModelAttempt(f)
    BY <1>1, <1>2, <2>1, <2>2 DEF validOperationReadModelAttempt
  <2> HIDE DEF renamed
  <2> QED BY <1>1, <2>1, <2>2, <2>3 DEF a
<1>4. CASE renamed
  <2>1. f.obs \in Observation
    BY <1>4 DEF hasObservation
  <2>2. a.obs = [f.obs EXCEPT !.delivery = "pending"]
    BY <1>1, <1>4
  <2>3. /\ a.obs \in Observation
        /\ a.obs.plan = f.obs.plan /\ a.obs.category = f.obs.category
        /\ a.obs.observed = f.obs.observed /\ a.obs.received = f.obs.received
        /\ a.obs.delivery = "pending" /\ a.obs.ack = f.obs.ack /\ a.obs.readback = f.obs.readback
    BY <2>1, <2>2 DEF Observation, Deliveries
  <2>4. hasObservation(a) /\ hasObservation(f)
    BY <1>4, <2>3 DEF hasObservation, NoObservation
  <2>5. validGatusReadback(a.obs) <=> validGatusReadback(f.obs)
    BY <1>4, <2>3 DEF validGatusReadback
  <2>6. validOperationReadModelAttempt(a) <=> validOperationReadModelAttempt(f)
    BY <1>1, <1>2, <2>3, <2>4, <2>5 DEF validOperationReadModelAttempt
  <2> HIDE DEF renamed
  <2> QED BY <1>1, <2>3, <2>4, <2>6 DEF a
<1> QED BY <1>3, <1>4

\* What the reader projects from a valid file.
LEMMA ValidFileGood ==
  ASSUME NEW f, NEW at, validLedgerFile(f, at)
  PROVE  /\ goodAttempt(operationReadModelAttemptFromState(f))
         /\ f.version \in Nat \ {0}
<1> DEFINE a == operationReadModelAttemptFromState(f)
<1>2. f \in LedgerFile
  BY DEF validLedgerFile
<1>1. /\ a.plan = f.plan /\ a.state = f.state /\ a.started = f.started
      /\ a.ever = f.ever
      /\ a.obs \in Observation \cup {NoObservation} /\ a.obs.plan = f.obs.plan
  BY <1>2, FromStateFields DEF LedgerFile
<1>3. a \in Attempt
  BY <1>1, <1>2 DEF LedgerFile, Attempt, operationReadModelAttemptFromState
<1>4. validOperationReadModelAttempt(a)
  BY DEF validLedgerFile
<1> HIDE DEF a
<1>5. ~Rollback => /\ a.obs.plan <= a.plan
                   /\ a.obs.plan = a.plan => a.ever
  BY <1>1 DEF validLedgerFile
<1> QED BY <1>2, <1>3, <1>4, <1>5 DEF goodAttempt, a, LedgerFile

LEMMA NoFileTyped == NoFile \in AnyFile /\ ~hasObservation(NoFile)
BY DEF NoFile, AnyFile, States, Started, hasObservation

LEMMA FilesTyped ==
  ASSUME LedgerOK, NEW o \in Operations
  PROVE  /\ files[o] \in AnyFile
         /\ files[o].state # "none" => validLedgerFile(files[o], clock) /\ held(o, files[o])
         /\ files[o].version > 0 => validLedgerFile(files[o], clock) /\ held(o, files[o])
         /\ hasObservation(files[o]) => validLedgerFile(files[o], clock) /\ held(o, files[o])
         /\ files[o].begun <= clock /\ files[o].obs.observed <= clock
         /\ files[o].state = "claimed" => files[o].obs.observed <= files[o].begun
         /\ ~Rollback => files[o].obs.plan <= files[o].plan
<1>1. CASE files[o] = NoFile
  <2>1. files[o] \in AnyFile /\ ~hasObservation(files[o])
    BY <1>1, NoFileTyped
  <2>2. /\ files[o].state = "none" /\ files[o].version = 0 /\ files[o].begun = 0
        /\ files[o].plan = 0 /\ files[o].obs = NoObservation
    BY <1>1 DEF NoFile
  <2>3. files[o].obs.plan = 0 /\ files[o].obs.observed = 0
    BY <2>2 DEF NoObservation
  <2> QED BY <2>1, <2>2, <2>3 DEF LedgerOK
<1>2. CASE validLedgerFile(files[o], clock) /\ held(o, files[o])
  <2>1. files[o] \in LedgerFile
    BY <1>2 DEF validLedgerFile
  <2>2. files[o] \in AnyFile
    BY <2>1 DEF LedgerFile, AnyFile
  <2>3. /\ files[o].begun <= clock
        /\ files[o].state = "claimed" => files[o].obs.observed <= files[o].begun
        /\ ~Rollback => files[o].obs.plan <= files[o].plan
    BY <1>2 DEF validLedgerFile
  <2>4. files[o].obs.observed <= clock
    <3>1. /\ files[o].obs.received <= clock
          /\ files[o].obs.observed \in Nat /\ files[o].obs.received \in Nat
      BY <1>2, <2>1 DEF validLedgerFile, LedgerFile, Observation, NoObservation
    <3>2. CASE hasObservation(files[o])
      <4>1. files[o].obs.observed <= files[o].obs.received
        BY <1>2, <2>2, <3>2, FromStateFields DEF validLedgerFile, AnyFile, validOperationReadModelAttempt
      <4> QED BY <3>1, <4>1 DEF LedgerOK
    <3>3. CASE ~hasObservation(files[o])
      BY <3>3 DEF hasObservation, NoObservation, LedgerOK
    <3> QED BY <3>2, <3>3
  <2> QED BY <1>2, <2>2, <2>3, <2>4
<1> QED BY <1>1, <1>2 DEF LedgerOK

\* The replacement of a file: a valid one, one version on, that holds the
\* result of the file before or a newer one.
written(o) ==
  /\ files' = [files EXCEPT ![o] = files'[o]]
  /\ files'[o].version = files[o].version + 1
  /\ validLedgerFile(files'[o], clock)
  /\ held(o, files[o])'
  /\ observations \subseteq observations'
  /\ ~Rollback => \A t \in Nat : covers(files[o], t) => covers(files'[o], t)
  /\ UNCHANGED <<readerVars, clock>>

\* Fields of a file that is replaced.
LEMMA Replaced ==
  ASSUME LedgerOK, NEW o \in Operations, NEW f \in AnyFile, f.version = files[o].version,
         replace(o, f)
  PROVE  /\ files' = [files EXCEPT ![o] = files'[o]]
         /\ files'[o].version = files[o].version + 1
         /\ files'[o] \in AnyFile /\ files'[o].version # 0
         /\ files'[o].plan = f.plan /\ files'[o].state = f.state
         /\ files'[o].started = f.started /\ files'[o].ever = f.ever
         /\ files'[o].begun = f.begun /\ files'[o].obs = f.obs
         /\ UNCHANGED <<readerVars, clock>>
<1> DEFINE g == [f EXCEPT !.version = @ + 1]
<1>1. /\ files' = [files EXCEPT ![o] = g]
      /\ UNCHANGED <<readerVars, clock>>
  BY DEF replace
<1>2. files'[o] = g
  BY <1>1 DEF LedgerOK
<1>3. f.version \in Nat
  BY DEF AnyFile
<1>4. g \in AnyFile
  BY <1>3 DEF AnyFile
<1>5. /\ g.version = f.version + 1
      /\ g.plan = f.plan /\ g.state = f.state /\ g.started = f.started
      /\ g.ever = f.ever /\ g.begun = f.begun /\ g.obs = f.obs
  BY DEF AnyFile
<1> HIDE DEF g
<1>6. files' = [files EXCEPT ![o] = files'[o]]
  BY <1>1, <1>2, Zenon
<1>7. g.version # 0
  BY <1>3, <1>5
<1>8. /\ files'[o].version = files[o].version + 1
      /\ files'[o] \in AnyFile /\ files'[o].version # 0
      /\ files'[o].plan = f.plan /\ files'[o].state = f.state
      /\ files'[o].started = f.started /\ files'[o].ever = f.ever
      /\ files'[o].begun = f.begun /\ files'[o].obs = f.obs
  BY <1>2, <1>4, <1>5, <1>7, Zenon
<1> QED BY <1>1, <1>6, <1>8, Zenon

\* A file is valid if its parts are.
LEMMA FileValid ==
  ASSUME NEW f \in AnyFile, f.version # 0, f.plan \in Plans, f.state \in States,
         validOperationReadModelAttempt(f),
         0 < f.begun, f.begun <= clock,
         f.obs.received <= clock, f.obs.ack <= clock, f.obs.readback <= clock,
         f.state = "claimed" => f.obs.observed <= f.begun,
         ~Rollback => f.obs.plan <= f.plan /\ (f.obs.plan = f.plan => f.ever)
  PROVE  validLedgerFile(f, clock)
<1>1. f \in LedgerFile
  BY DEF AnyFile, LedgerFile
<1>2. validOperationReadModelAttempt(operationReadModelAttemptFromState(f))
  BY FromStateFields DEF AnyFile
<1> QED BY <1>1, <1>2 DEF validLedgerFile

LEMMA BeginWrites ==
  ASSUME LedgerOK, NEW o \in Operations, NEW plan \in Plans, Begin(o, plan)
  PROVE  written(o)
<1> DEFINE f == [files[o] EXCEPT !.plan = plan, !.state = "claimed", !.started = "nil",
                                 !.begun = clock,
                                 !.ever = @ /\ plan = files[o].plan]
           g == files'[o]
<1>0. /\ files[o] \in AnyFile /\ clock \in Nat \ {0}
      /\ hasObservation(files[o]) => validLedgerFile(files[o], clock) /\ held(o, files[o])
      /\ files[o].begun <= clock /\ files[o].obs.observed <= clock
      /\ ~Rollback => files[o].obs.plan <= files[o].plan
  BY FilesTyped DEF LedgerOK
<1>1. replace(o, f) /\ observations' = observations /\ (Rollback \/ plan >= files[o].plan)
  BY DEF Begin
<1>2. f \in AnyFile
  BY <1>0 DEF AnyFile, States, Started
<1>3. /\ f.version = files[o].version /\ f.plan = plan /\ f.state = "claimed"
      /\ f.started = "nil" /\ f.begun = clock /\ f.obs = files[o].obs
      /\ f.ever = (files[o].ever /\ plan = files[o].plan)
  BY <1>0 DEF AnyFile
<1> HIDE DEF f
<1>4. /\ files' = [files EXCEPT ![o] = g]
      /\ g.version = files[o].version + 1
      /\ g \in AnyFile /\ g.version # 0
      /\ g.plan = plan /\ g.state = "claimed" /\ g.started = "nil" /\ g.ever = f.ever
      /\ g.begun = clock /\ g.obs = files[o].obs
      /\ UNCHANGED <<readerVars, clock>>
  BY <1>1, <1>2, <1>3, Replaced
<1> HIDE DEF g
<1>5. hasObservation(g) <=> hasObservation(files[o])
  BY <1>4 DEF hasObservation
<1>6. /\ files[o].obs.received <= clock /\ files[o].obs.ack <= clock
      /\ files[o].obs.readback <= clock
  <2>1. CASE hasObservation(files[o])
    BY <1>0, <2>1 DEF validLedgerFile
  <2>2. CASE ~hasObservation(files[o])
    BY <1>0, <2>2 DEF hasObservation, NoObservation
  <2> QED BY <2>1, <2>2
<1>7. validOperationReadModelAttempt(g)
  <2>1. hasObservation(files[o]) => validOperationReadModelAttempt(files[o])
    BY <1>0, FromStateFields DEF validLedgerFile, AnyFile
  <2>2. validRequestEvidence(g)
    BY <1>4 DEF validRequestEvidence
  <2> QED BY <1>4, <1>5, <2>1, <2>2 DEF validOperationReadModelAttempt
<1>8. ~Rollback => g.obs.plan <= g.plan /\ (g.obs.plan = g.plan => g.ever)
  <2> SUFFICES ASSUME ~Rollback
               PROVE  g.obs.plan <= g.plan /\ (g.obs.plan = g.plan => g.ever)
    OBVIOUS
  <2>1. files[o].obs.plan \in Nat /\ files[o].plan \in Nat /\ plan \in Nat \ {0}
    <3>1. \A p \in Plans : p \in Nat \ {0}
      BY Configuration
    <3>2. files[o].plan \in Plans \cup {0} /\ files[o].obs \in Observation \cup {NoObservation}
      BY <1>0 DEF AnyFile
    <3>3. files[o].obs.plan \in Plans \cup {0}
      BY <3>2 DEF Observation, NoObservation
    <3> QED BY <3>1, <3>2, <3>3
  <2>2. files[o].obs.plan <= files[o].plan /\ files[o].plan <= plan
    BY <1>0, <1>1, <2>1
  <2>3. files[o].obs.plan = plan => files[o].plan = plan /\ files[o].ever
    <3>1. files[o].obs.plan = plan => hasObservation(files[o])
      BY <2>1 DEF hasObservation, NoObservation
    <3> QED BY <1>0, <2>1, <2>2, <3>1 DEF validLedgerFile
  <2>4. g.obs.plan = g.plan => g.ever
    <3> SUFFICES ASSUME g.obs.plan = g.plan PROVE g.ever
      OBVIOUS
    <3>1. files[o].plan = plan /\ files[o].ever
      BY <1>4, <2>3
    <3> QED BY <1>3, <1>4, <3>1
  <2> QED BY <1>4, <2>1, <2>2, <2>4
<1>9. validLedgerFile(g, clock)
  <2>1. g.obs.observed <= g.begun
    BY <1>0, <1>4
  <2> QED BY <1>0, <1>4, <1>6, <1>7, <1>8, <2>1, FileValid DEF States
<1>10. held(o, files[o])'
  BY <1>0, <1>1, <1>4, <1>5 DEF held, g, hasObservation, observation
<1>11. \A t \in Nat : covers(files[o], t) => covers(g, t)
  BY <1>4 DEF covers
<1> QED BY <1>1, <1>4, <1>9, <1>10, <1>11 DEF written, g

LEMMA EndWrites ==
  ASSUME LedgerOK, NEW o \in Operations, NEW e \in Endings, End(o, e)
  PROVE  written(o)
<1> DEFINE f == [files[o] EXCEPT !.state = e.state, !.started = e.started,
                                 !.ever = @ \/ e.started = "true"]
           g == files'[o]
<1>1. /\ replace(o, f) /\ observations' = observations
      /\ files[o].state = "claimed"
  BY DEF End
<1>0. /\ files[o] \in AnyFile /\ clock \in Nat \ {0}
      /\ validLedgerFile(files[o], clock) /\ held(o, files[o])
  BY <1>1, FilesTyped DEF LedgerOK
<1>e. /\ e.state \in States \ {"claimed", "observed"} /\ e.started \in Started
      /\ validRequestEvidence(e)
  BY Configuration DEF States, Started
<1>2. f \in AnyFile
  BY <1>0, <1>e DEF AnyFile
<1>3. /\ f.version = files[o].version /\ f.plan = files[o].plan /\ f.state = e.state
      /\ f.started = e.started /\ f.begun = files[o].begun /\ f.obs = files[o].obs
      /\ f.ever = (files[o].ever \/ e.started = "true")
  BY <1>0 DEF AnyFile
<1> HIDE DEF f
<1>4. /\ files' = [files EXCEPT ![o] = g]
      /\ g.version = files[o].version + 1
      /\ g \in AnyFile /\ g.version # 0
      /\ g.plan = files[o].plan /\ g.state = e.state /\ g.started = e.started
      /\ g.ever = f.ever
      /\ g.begun = files[o].begun /\ g.obs = files[o].obs
      /\ UNCHANGED <<readerVars, clock>>
  BY <1>1, <1>2, <1>3, Replaced
<1> HIDE DEF g
<1>5. hasObservation(g) <=> hasObservation(files[o])
  BY <1>4 DEF hasObservation
<1>7. validOperationReadModelAttempt(g)
  <2>1. validOperationReadModelAttempt(files[o])
    BY <1>0, FromStateFields DEF validLedgerFile, AnyFile
  <2>2. validRequestEvidence(g)
    BY <1>4, <1>e DEF validRequestEvidence
  <2> QED BY <1>e, <1>4, <1>5, <2>1, <2>2 DEF validOperationReadModelAttempt
<1>8. ~Rollback => g.obs.plan <= g.plan /\ (g.obs.plan = g.plan => g.ever)
  BY <1>0, <1>3, <1>4 DEF validLedgerFile
<1>9. validLedgerFile(g, clock)
  <2>1. files[o].plan \in Plans
    BY <1>0 DEF validLedgerFile, LedgerFile
  <2> QED BY <1>0, <1>e, <1>4, <1>7, <1>8, <2>1, FileValid DEF validLedgerFile
<1>10. held(o, files[o])'
  BY <1>0, <1>1, <1>4, <1>5 DEF held, g, hasObservation, observation
<1>11. \A t \in Nat : covers(files[o], t) => covers(g, t)
  BY <1>4 DEF covers
<1> QED BY <1>1, <1>4, <1>9, <1>10, <1>11 DEF written, g

LEMMA CompleteWrites ==
  ASSUME LedgerOK, NEW o \in Operations, NEW category \in Results,
         NEW observed \in files[o].begun .. clock, NEW received \in observed .. clock,
         Complete(o, category, observed, received)
  PROVE  written(o)
<1> DEFINE obs == [plan |-> files[o].plan, category |-> category, observed |-> observed,
                   received |-> received, ack |-> 0, readback |-> 0,
                   delivery |-> IF category = "response_semantics_unestablished"
                                THEN "not_applicable" ELSE "not_ready"]
           f == [files[o] EXCEPT !.state = "observed", !.started = "true",
                                 !.ever = TRUE, !.obs = obs]
           g == files'[o]
<1>1. /\ replace(o, f) /\ observations' = observations \cup {observation(o, obs)}
      /\ files[o].state = "claimed"
  BY DEF Complete
<1>0. /\ files[o] \in AnyFile /\ clock \in Nat \ {0}
      /\ validLedgerFile(files[o], clock)
  BY <1>1, FilesTyped DEF LedgerOK
<1>f. /\ files[o].plan \in Plans /\ files[o].begun \in Nat
      /\ 0 < files[o].begun /\ files[o].begun <= clock
      /\ files[o].obs.observed <= files[o].begun
      /\ ~Rollback => files[o].obs.plan <= files[o].plan
      /\ files[o].obs.observed \in Nat
  BY <1>0, <1>1 DEF validLedgerFile, LedgerFile, Observation, NoObservation
<1>r. /\ observed \in Nat /\ received \in Nat
      /\ files[o].begun <= observed /\ observed <= received /\ received <= clock
  BY <1>0, <1>f
<1>o. obs \in Observation
  <2>1. category \in Categories
    BY Configuration
  <2> QED BY <1>0, <1>f, <1>r, <2>1 DEF Observation, Deliveries
<1>p. /\ obs.plan = files[o].plan /\ obs.category = category
      /\ obs.observed = observed /\ obs.received = received /\ obs.ack = 0
      /\ obs.readback = 0
      /\ obs.delivery = IF category = "response_semantics_unestablished"
                        THEN "not_applicable" ELSE "not_ready"
  OBVIOUS
<1> HIDE DEF obs
<1>2. f \in AnyFile
  BY <1>0, <1>o DEF AnyFile, States, Started
<1>3. /\ f.version = files[o].version /\ f.plan = files[o].plan /\ f.state = "observed"
      /\ f.started = "true" /\ f.begun = files[o].begun /\ f.obs = obs
      /\ f.ever = TRUE
  BY <1>0 DEF AnyFile
<1> HIDE DEF f
<1>4. /\ files' = [files EXCEPT ![o] = g]
      /\ g.version = files[o].version + 1
      /\ g \in AnyFile /\ g.version # 0
      /\ g.plan = files[o].plan /\ g.state = "observed" /\ g.started = "true"
      /\ g.ever = TRUE
      /\ g.begun = files[o].begun /\ g.obs = obs
      /\ UNCHANGED <<readerVars, clock>>
  BY <1>1, <1>2, <1>3, Replaced
<1> HIDE DEF g
<1>5. hasObservation(g)
  BY <1>4, <1>p, <1>f, <1>r DEF hasObservation, NoObservation
<1>7. validOperationReadModelAttempt(g)
  <2>1. validRequestEvidence(g)
    BY <1>4 DEF validRequestEvidence
  <2>2. validGatusReadback(obs)
    BY <1>p DEF validGatusReadback
  <2>3. obs.category \in Categories
    BY <1>o DEF Observation
  <2> QED BY <1>0, <1>f, <1>r, <1>p, <1>4, <1>5, <2>1, <2>2, <2>3 DEF validOperationReadModelAttempt
<1>9. validLedgerFile(g, clock)
  <2>1. files[o].plan \in Nat
    BY <1>f, Configuration
  <2>2. ~Rollback => g.obs.plan <= g.plan /\ (g.obs.plan = g.plan => g.ever)
    BY <1>p, <1>4, <2>1
  <2>3. g.obs.received <= clock /\ g.obs.ack <= clock /\ g.obs.readback <= clock
    BY <1>0, <1>r, <1>p, <1>4
  <2> QED BY <1>0, <1>f, <1>4, <1>7, <2>2, <2>3, FileValid DEF States
<1>10. held(o, files[o])'
  BY <1>1, <1>4 DEF held, g, observation
<1>11. ~Rollback => \A t \in Nat : covers(files[o], t) => covers(g, t)
  <2>1. files[o].plan \in Nat /\ files[o].obs.plan \in Nat /\ Plan \in Nat
    <3>1. \A p \in Plans : p \in Nat
      BY Configuration
    <3>2. files[o].obs.plan \in Plans \cup {0}
      BY <1>0 DEF AnyFile, Observation, NoObservation
    <3>3. Plan \in Plans
      BY Configuration
    <3> QED BY <1>f, <3>1, <3>2, <3>3
  <2>2. g.obs.plan = files[o].plan /\ g.obs.observed = observed
    BY <1>p, <1>4
  <2> QED BY <1>f, <1>r, <2>1, <2>2 DEF covers
<1>12. observations \subseteq observations'
  BY <1>1
<1> QED BY <1>4, <1>9, <1>10, <1>11, <1>12 DEF written, g

\* A step that only moves the delivery of the selected result on.
LEMMA DeliveryWrites ==
  ASSUME LedgerOK, NEW o \in Operations, NEW f \in AnyFile, hasObservation(files[o]),
         replace(o, f), observations' = observations,
         f.version = files[o].version, f.plan = files[o].plan, f.state = files[o].state,
         f.started = files[o].started, f.ever = files[o].ever, f.begun = files[o].begun,
         f.obs.plan = files[o].obs.plan, f.obs.category = files[o].obs.category,
         f.obs.observed = files[o].obs.observed, f.obs.received = files[o].obs.received,
         f.obs.ack \in Nat, f.obs.ack <= clock, f.obs.readback \in Nat, f.obs.readback <= clock,
         f.obs.ack # 0 => f.obs.ack >= f.obs.received,
         f.obs.readback # 0 => f.obs.readback >= f.obs.received,
         validGatusReadback(f.obs)
  PROVE  written(o)
<1> DEFINE g == files'[o]
<1>0. /\ files[o] \in AnyFile /\ clock \in Nat \ {0}
      /\ validLedgerFile(files[o], clock) /\ held(o, files[o])
  BY FilesTyped DEF LedgerOK
<1>1. validOperationReadModelAttempt(files[o])
  BY <1>0, FromStateFields DEF validLedgerFile, AnyFile
<1>4. /\ files' = [files EXCEPT ![o] = g]
      /\ g.version = files[o].version + 1
      /\ g \in AnyFile /\ g.version # 0
      /\ g.plan = f.plan /\ g.state = f.state /\ g.started = f.started
      /\ g.ever = f.ever /\ g.begun = f.begun /\ g.obs = f.obs
      /\ UNCHANGED <<readerVars, clock>>
  BY Replaced
<1> HIDE DEF g
<1>5. hasObservation(g)
  <2>1. files[o].obs.category \in Categories
    BY <1>1 DEF validOperationReadModelAttempt
  <2> QED BY <1>4, <2>1 DEF hasObservation, NoObservation, Categories
<1>6. validOperationReadModelAttempt(g)
  <2>1. validRequestEvidence(g)
    BY <1>1, <1>4 DEF validOperationReadModelAttempt, validRequestEvidence
  <2> QED BY <1>1, <1>4, <1>5, <2>1 DEF validOperationReadModelAttempt
<1>9. validLedgerFile(g, clock)
  <2>1. g.plan \in Plans /\ g.state \in States
    BY <1>0, <1>4 DEF validLedgerFile, LedgerFile
  <2>2. /\ 0 < g.begun /\ g.begun <= clock
        /\ g.obs.received <= clock /\ g.obs.ack <= clock /\ g.obs.readback <= clock
        /\ g.state = "claimed" => g.obs.observed <= g.begun
    BY <1>0, <1>4 DEF validLedgerFile
  <2>3. ~Rollback => g.obs.plan <= g.plan /\ (g.obs.plan = g.plan => g.ever)
    BY <1>0, <1>4 DEF validLedgerFile
  <2> QED BY <1>4, <1>6, <2>1, <2>2, <2>3, FileValid
<1>10. held(o, files[o])'
  BY <1>0, <1>4 DEF held, g, observation
<1>11. \A t \in Nat : covers(files[o], t) => covers(g, t)
  BY <1>4 DEF covers
<1> QED BY <1>4, <1>9, <1>10, <1>11 DEF written, g

LEMMA ClaimDeliveryWrites ==
  ASSUME LedgerOK, NEW o \in Operations, ClaimDelivery(o)
  PROVE  written(o)
<1> DEFINE f == [files[o] EXCEPT !.obs.delivery = "pending"]
<1>1. /\ replace(o, f) /\ observations' = observations /\ hasObservation(files[o])
      /\ files[o].obs.delivery \in {"not_ready", "pending"}
  BY DEF ClaimDelivery
<1>3. /\ files[o] \in AnyFile /\ clock \in Nat \ {0}
      /\ validLedgerFile(files[o], clock)
  BY <1>1, FilesTyped DEF LedgerOK
<1>4. files[o].obs \in Observation
  BY <1>1, <1>3 DEF AnyFile, hasObservation
<1>5. files[o].obs.ack = 0 /\ files[o].obs.readback = 0
  <2>1. validGatusReadback(files[o].obs)
    BY <1>1, <1>3, FromStateFields DEF validLedgerFile, AnyFile, validOperationReadModelAttempt
  <2> QED BY <1>1, <2>1 DEF validGatusReadback
<1>7. f \in AnyFile
  BY <1>3, <1>4 DEF AnyFile, Observation, Deliveries
<1>8. /\ f.version = files[o].version /\ f.plan = files[o].plan /\ f.state = files[o].state
      /\ f.started = files[o].started /\ f.ever = files[o].ever /\ f.begun = files[o].begun
      /\ f.obs.plan = files[o].obs.plan /\ f.obs.category = files[o].obs.category
      /\ f.obs.observed = files[o].obs.observed /\ f.obs.received = files[o].obs.received
      /\ f.obs.ack = files[o].obs.ack /\ f.obs.readback = files[o].obs.readback
      /\ f.obs.delivery = "pending"
  BY <1>3, <1>4 DEF AnyFile, Observation
<1> HIDE DEF f
<1>9. validGatusReadback(f.obs)
  BY <1>5, <1>8 DEF validGatusReadback
<1> QED BY <1>1, <1>3, <1>5, <1>7, <1>8, <1>9, DeliveryWrites

LEMMA AcknowledgeWrites ==
  ASSUME LedgerOK, NEW o \in Operations, NEW responseAt \in files[o].obs.received .. clock,
         Acknowledge(o, responseAt)
  PROVE  written(o)
<1> DEFINE f == [files[o] EXCEPT !.obs.delivery = "acknowledged", !.obs.ack = responseAt]
<1>1. replace(o, f) /\ observations' = observations /\ files[o].obs.delivery = "pending"
  BY DEF Acknowledge
<1>2. hasObservation(files[o])
  BY <1>1 DEF hasObservation, NoObservation
<1>3. /\ files[o] \in AnyFile /\ clock \in Nat \ {0}
      /\ validLedgerFile(files[o], clock)
  BY <1>2, FilesTyped DEF LedgerOK
<1>4. files[o].obs \in Observation
  BY <1>2, <1>3 DEF AnyFile, hasObservation
<1>5. files[o].obs.readback = 0
  <2>1. validGatusReadback(files[o].obs)
    BY <1>2, <1>3, FromStateFields DEF validLedgerFile, AnyFile, validOperationReadModelAttempt
  <2> QED BY <1>1, <2>1 DEF validGatusReadback
<1>6. /\ 0 < files[o].obs.received /\ files[o].obs.received \in Nat
      /\ responseAt \in Nat \ {0}
      /\ files[o].obs.received <= responseAt /\ responseAt <= clock
  <2>1. 0 < files[o].obs.observed /\ files[o].obs.observed <= files[o].obs.received
    BY <1>2, <1>3, FromStateFields DEF validLedgerFile, AnyFile, validOperationReadModelAttempt
  <2>2. files[o].obs.received \in Nat /\ files[o].obs.observed \in Nat
    BY <1>4 DEF Observation
  <2> QED BY <1>3, <2>1, <2>2
<1>7. f \in AnyFile
  BY <1>3, <1>4, <1>6 DEF AnyFile, Observation, Deliveries
<1>8. /\ f.version = files[o].version /\ f.plan = files[o].plan /\ f.state = files[o].state
      /\ f.started = files[o].started /\ f.ever = files[o].ever /\ f.begun = files[o].begun
      /\ f.obs.plan = files[o].obs.plan /\ f.obs.category = files[o].obs.category
      /\ f.obs.observed = files[o].obs.observed /\ f.obs.received = files[o].obs.received
      /\ f.obs.ack = responseAt /\ f.obs.readback = files[o].obs.readback
      /\ f.obs.delivery = "acknowledged"
  BY <1>3, <1>4 DEF AnyFile, Observation
<1> HIDE DEF f
<1>9. validGatusReadback(f.obs)
  BY <1>5, <1>6, <1>8 DEF validGatusReadback
<1> QED BY <1>1, <1>2, <1>3, <1>5, <1>6, <1>7, <1>8, <1>9, DeliveryWrites

LEMMA ReadbackWrites ==
  ASSUME LedgerOK, NEW o \in Operations, NEW receivedAt \in files[o].obs.ack .. clock,
         Readback(o, receivedAt)
  PROVE  written(o)
<1> DEFINE f == [files[o] EXCEPT !.obs.delivery = "readback_verified",
                                 !.obs.readback = receivedAt]
<1>1. replace(o, f) /\ observations' = observations /\ files[o].obs.delivery = "acknowledged"
  BY DEF Readback
<1>2. hasObservation(files[o])
  BY <1>1 DEF hasObservation, NoObservation
<1>3. /\ files[o] \in AnyFile /\ clock \in Nat \ {0}
      /\ validLedgerFile(files[o], clock)
  BY <1>2, FilesTyped DEF LedgerOK
<1>4. files[o].obs \in Observation
  BY <1>2, <1>3 DEF AnyFile, hasObservation
<1>5. /\ files[o].obs.ack # 0 /\ files[o].obs.ack <= clock /\ files[o].obs.ack \in Nat
      /\ files[o].obs.ack >= files[o].obs.received
  <2>1. /\ validGatusReadback(files[o].obs)
        /\ files[o].obs.ack # 0 => files[o].obs.ack >= files[o].obs.received
    BY <1>2, <1>3, FromStateFields DEF validLedgerFile, AnyFile, validOperationReadModelAttempt
  <2> QED BY <1>1, <1>3, <1>4, <2>1 DEF validGatusReadback, validLedgerFile, Observation
<1>6. /\ files[o].obs.received \in Nat /\ receivedAt \in Nat
      /\ files[o].obs.ack <= receivedAt /\ files[o].obs.received <= receivedAt
      /\ receivedAt <= clock
  <2>1. files[o].obs.received \in Nat
    BY <1>4 DEF Observation
  <2> QED BY <1>3, <1>5, <2>1
<1>7. f \in AnyFile
  BY <1>3, <1>4, <1>6 DEF AnyFile, Observation, Deliveries
<1>8. /\ f.version = files[o].version /\ f.plan = files[o].plan /\ f.state = files[o].state
      /\ f.started = files[o].started /\ f.ever = files[o].ever /\ f.begun = files[o].begun
      /\ f.obs.plan = files[o].obs.plan /\ f.obs.category = files[o].obs.category
      /\ f.obs.observed = files[o].obs.observed /\ f.obs.received = files[o].obs.received
      /\ f.obs.ack = files[o].obs.ack /\ f.obs.readback = receivedAt
      /\ f.obs.delivery = "readback_verified"
  BY <1>3, <1>4 DEF AnyFile, Observation
<1> HIDE DEF f
<1>9. validGatusReadback(f.obs)
  BY <1>5, <1>6, <1>8 DEF validGatusReadback
<1> QED BY <1>1, <1>2, <1>3, <1>5, <1>6, <1>7, <1>8, <1>9, DeliveryWrites

LEMMA WriteWrites ==
  ASSUME LedgerOK, Write
  PROVE  \E o \in Operations : written(o)
<1>1. PICK o \in Operations :
        \/ \E plan \in Plans : Begin(o, plan)
        \/ \E e \in Endings : End(o, e)
        \/ \E category \in Results, observed \in files[o].begun .. clock :
             \E received \in observed .. clock : Complete(o, category, observed, received)
        \/ ClaimDelivery(o)
        \/ \E responseAt \in files[o].obs.received .. clock : Acknowledge(o, responseAt)
        \/ \E receivedAt \in files[o].obs.ack .. clock : Readback(o, receivedAt)
  BY DEF Write
<1> QED BY <1>1, BeginWrites, EndWrites, CompleteWrites, ClaimDeliveryWrites, AcknowledgeWrites, ReadbackWrites

-----------------------------------------------------------------------------
(* Steps of the scheduler's process, seen from the reader.                  *)

LEMMA ConfigNat ==
  /\ N \in Nat \ {0} /\ BatchSize \in Nat \ {0} /\ PageLimit \in Nat \ {0}
  /\ Plan \in Nat \ {0}
BY Configuration

\* Rows stay real while observations are only added.
LEMMA RealStays ==
  ASSUME observations \subseteq observations', NEW rows, goodRows(rows)
  PROVE  /\ rows \in [Operations -> Row]
         /\ \A o \in Operations :
              /\ Timeless(rows[o])
              /\ rows[o].observed # 0 =>
                   [op |-> o, plan |-> Plan, category |-> rows[o].category,
                    observed |-> rows[o].observed] \in observations'
BY DEF goodRows, real

LEMMA FileVersions ==
  ASSUME LedgerOK, NEW o \in Operations, written(o), NEW p \in Operations
  PROVE  /\ files[p].version \in Nat /\ files'[p].version \in Nat
         /\ files[p].version <= files'[p].version
         /\ files'[p].version = files[p].version => files'[p] = files[p]
<1>1. files[o].version \in Nat /\ files[p].version \in Nat
  BY FilesTyped DEF AnyFile
<1>2. CASE p = o
  BY <1>1, <1>2 DEF written
<1>3. CASE p # o
  <2>1. files'[p] = files[p]
    BY <1>3 DEF written, LedgerOK
  <2> QED BY <1>1, <2>1
<1> QED BY <1>2, <1>3

LEMMA WriteKeepsInv ==
  ASSUME IInv, NEW o \in Operations, written(o)
  PROVE  IInv'
<1> USE DEF IInv
<1>u. /\ stamps' = stamps /\ current' = current /\ staging' = staging /\ batch' = batch
      /\ walk' = walk /\ clock' = clock /\ observations \subseteq observations'
  BY DEF written, readerVars
<1>v. \A p \in Operations : /\ files[p].version \in Nat /\ files'[p].version \in Nat
                            /\ files[p].version <= files'[p].version
                            /\ files'[p].version = files[p].version => files'[p] = files[p]
  BY FileVersions
<1>1. LedgerOK'
  <2>1. files' = [files EXCEPT ![o] = files'[o]]
    BY DEF written
  <2>2. DOMAIN files' = Operations /\ files' = [p \in Operations |-> files'[p]]
    BY <2>1 DEF LedgerOK
  <2>3. ASSUME NEW p \in Operations
        PROVE  files'[p] = NoFile \/ (validLedgerFile(files[p], clock) /\ held(p, files[p]))'
    <3>1. CASE p = o
      <4>1. validLedgerFile(files'[p], clock)
        BY <3>1 DEF written
      <4>2. held(p, files[p])'
        BY <3>1 DEF written
      <4> QED BY <1>u, <4>1, <4>2 DEF validLedgerFile
    <3>2. CASE p # o
      <4>1. files'[p] = files[p]
        BY <2>1, <3>2 DEF LedgerOK
      <4>2. CASE files[p] = NoFile
        BY <4>1, <4>2
      <4>3. CASE validLedgerFile(files[p], clock) /\ held(p, files[p])
        BY <1>u, <4>1, <4>3 DEF validLedgerFile, held
      <4> QED BY <4>2, <4>3 DEF LedgerOK
    <3> QED BY <3>1, <3>2
  <2> QED BY <1>u, <2>2, <2>3 DEF LedgerOK
<1>2. StampsOK'
  <2>1. ASSUME NEW p \in Operations
        PROVE  stamps[p] <= files'[p].version
    <3>1. stamps[p] \in Int /\ stamps[p] <= files[p].version
      BY DEF StampsOK, Unknown
    <3> QED BY <1>v, <3>1
  <2> QED BY <1>u, <2>1 DEF StampsOK
<1>3. SnapshotOK'
  <2>1. CASE current = NoSnapshot
    BY <1>u, <2>1 DEF SnapshotOK
  <2>2. CASE current # NoSnapshot
    <3>1. goodRows(current.rows)
      BY <2>2 DEF SnapshotOK
    <3>2. goodRows(current.rows)'
      BY <1>u, <3>1, RealStays DEF goodRows, real
    <3> QED BY <1>u, <2>2, <3>2 DEF SnapshotOK
  <2> QED BY <2>1, <2>2
<1>4. SweepOK'
  <2>1. CASE staging = NoSweep
    BY <1>u, <2>1 DEF SweepOK
  <2>2. CASE staging # NoSweep
    <3>1. goodRows(staging.rows)'
      <4>1. goodRows(staging.rows)
        BY <2>2 DEF SweepOK
      <4> QED BY <1>u, <4>1, RealStays DEF goodRows, real
    <3>2. ASSUME NEW p \in DOMAIN staging.updates
          PROVE  LET v == staging.updates[p]
                 IN  /\ v \in Nat /\ v <= files'[p].version
                     /\ v > 0 /\ v = files'[p].version /\ files'[p].plan = Plan
                          => shows(staging.rows[p], files'[p])
      <4>1. p \in Operations
        BY <2>2, ConfigNat DEF SweepOK, Operations
      <4>2. /\ staging.updates[p] \in Nat /\ staging.updates[p] <= files[p].version
            /\ staging.updates[p] > 0 /\ staging.updates[p] = files[p].version
                 /\ files[p].plan = Plan => shows(staging.rows[p], files[p])
        BY <2>2 DEF SweepOK
      <4>3. CASE staging.updates[p] = files'[p].version
        <5>1. files'[p] = files[p]
          BY <1>v, <4>1, <4>2, <4>3
        <5> QED BY <4>2, <5>1
      <4>4. CASE staging.updates[p] # files'[p].version
        BY <1>v, <4>1, <4>2, <4>4
      <4> QED BY <4>3, <4>4
    <3> QED BY <1>u, <2>2, <3>1, <3>2 DEF SweepOK, baseRow, shows
  <2> QED BY <2>1, <2>2
<1>5. BatchOK'
  <2>1. CASE batch = NoBatch
    BY SMTT(30), <1>u, <2>1 DEF BatchOK
  <2>2. CASE batch # NoBatch
    <3>0. \A p \in DOMAIN batch.updates : p \in Operations
      <4>1. /\ DOMAIN batch.updates \subseteq staging.offset + 1 .. batch.next - 1
            /\ batch.next \in staging.offset + 1 .. batchEnd + 1
            /\ staging # NoSweep
        BY <2>2 DEF BatchOK
      <4>2. staging.offset \in 0 .. N - 1
        BY <4>1 DEF SweepOK
      <4>3. batchEnd <= N /\ batchEnd \in Nat
        BY <4>2, ConfigNat DEF batchEnd
      <4> QED BY <4>1, <4>2, <4>3, ConfigNat DEF Operations
    <3>1. ASSUME NEW p \in DOMAIN batch.updates
          PROVE  batch.updates[p] \in Nat /\ batch.updates[p] <= files'[p].version
      <4>1. batch.updates[p] \in Nat /\ batch.updates[p] <= files[p].version
        BY <2>2 DEF BatchOK
      <4> QED BY <1>v, <3>0, <4>1
    <3>2. ASSUME NEW p \in DOMAIN batch.attempts
          PROVE  /\ goodAttempt(batch.attempts[p])
                 /\ held(p, batch.attempts[p])'
                 /\ batch.updates[p] = files'[p].version =>
                      batch.attempts[p] = operationReadModelAttemptFromState(files'[p])
      <4>1. /\ goodAttempt(batch.attempts[p]) /\ held(p, batch.attempts[p])
            /\ batch.updates[p] = files[p].version =>
                 batch.attempts[p] = operationReadModelAttemptFromState(files[p])
            /\ p \in DOMAIN batch.updates
            /\ batch.updates[p] \in Nat /\ batch.updates[p] <= files[p].version
        BY <2>2 DEF BatchOK
      <4>2. held(p, batch.attempts[p])'
        BY <1>u, <4>1 DEF held
      <4>3. batch.updates[p] = files'[p].version => files'[p] = files[p]
        BY <1>v, <3>0, <4>1
      <4> QED BY <4>1, <4>2, <4>3
    <3> QED BY <1>u, <2>2, <3>1, <3>2 DEF BatchOK, batchEnd, goodAttempt, validOperationReadModelAttempt
  <2> QED BY <2>1, <2>2
<1>6. WalkOK'
  BY <1>u DEF WalkOK
<1>7. StampHidesNothing'
  <2> SUFFICES ASSUME NEW p \in Operations,
                      stamps[p] > 0, stamps[p] = files'[p].version, files'[p].plan = Plan
               PROVE  /\ current # NoSnapshot
                      /\ shows(current.rows[p], files'[p])
    BY <1>u DEF StampHidesNothing, shows, unchanged
  <2>1. stamps[p] \in Int /\ stamps[p] <= files[p].version
    BY DEF StampsOK, Unknown
  <2>2. files'[p] = files[p]
    BY <1>v, <2>1
  <2> QED BY <2>2 DEF StampHidesNothing, shows, unchanged
<1> QED BY <1>1, <1>2, <1>3, <1>4, <1>5, <1>6, <1>7

-----------------------------------------------------------------------------
(* Steps of the reader.                                                     *)

\* Time does not invalidate a file.
LEMMA TickKeepsInv ==
  ASSUME IInv, Tick
  PROVE  IInv'
<1> USE DEF IInv
<1>u. /\ stamps' = stamps /\ current' = current /\ staging' = staging /\ batch' = batch
      /\ walk' = walk /\ clock' = clock + 1 /\ observations' = observations
      /\ files' = files
  BY DEF Tick, writerVars, readerVars
<1>1. LedgerOK'
  <2>1. clock' \in Nat \ {0}
    BY <1>u DEF LedgerOK
  <2>2. ASSUME NEW o \in Operations
        PROVE  files[o] = NoFile \/ (validLedgerFile(files[o], clock) /\ held(o, files[o]))'
    <3>1. CASE files[o] = NoFile
      BY <3>1
    <3>2. CASE files[o] # NoFile
      <4>1. validLedgerFile(files[o], clock) /\ held(o, files[o]) /\ clock \in Nat
        BY <3>2 DEF LedgerOK
      <4>2. files[o] \in LedgerFile
        BY <4>1 DEF validLedgerFile
      <4>3. /\ files[o].begun \in Nat /\ files[o].obs.received \in Nat
            /\ files[o].obs.ack \in Nat /\ files[o].obs.readback \in Nat
        BY <4>2 DEF LedgerFile, Observation, NoObservation
      <4>4. /\ files[o].begun <= clock' /\ files[o].obs.received <= clock'
            /\ files[o].obs.ack <= clock' /\ files[o].obs.readback <= clock'
        BY <1>u, <4>1, <4>3 DEF validLedgerFile
      <4>5. validLedgerFile(files[o], clock')
        BY <4>1, <4>4 DEF validLedgerFile
      <4> QED BY <1>u, <4>1, <4>5 DEF held, validLedgerFile
    <3> QED BY <3>1, <3>2
  <2> QED BY <1>u, <2>1, <2>2 DEF LedgerOK
<1>2. StampsOK' /\ SnapshotOK' /\ WalkOK'
  BY <1>u DEF StampsOK, SnapshotOK, WalkOK, goodRows, real
<1>3. SweepOK'
  BY <1>u DEF SweepOK, goodRows, real, baseRow, shows
<1>4. BatchOK'
  BY <1>u DEF BatchOK, batchEnd, goodAttempt, held
<1>5. StampHidesNothing'
  BY <1>u DEF StampHidesNothing, unchanged
<1> QED BY <1>1, <1>2, <1>3, <1>4, <1>5

\* Steps that leave the ledger, the snapshot and the client alone.
sweepStep ==
  UNCHANGED <<files, observations, clock, stamps, current, walk>>

LEMMA SweepStepKeeps ==
  ASSUME IInv, sweepStep
  PROVE  /\ LedgerOK' /\ StampsOK' /\ SnapshotOK' /\ WalkOK' /\ StampHidesNothing'
<1> USE DEF IInv, sweepStep
<1>1. LedgerOK'
  BY DEF LedgerOK, held, validLedgerFile
<1>2. StampsOK' /\ SnapshotOK' /\ WalkOK'
  BY DEF StampsOK, SnapshotOK, WalkOK, goodRows, real
<1>3. StampHidesNothing'
  BY DEF StampHidesNothing, unchanged
<1> QED BY <1>1, <1>2, <1>3

LEMMA AbortKeepsInv ==
  ASSUME IInv, abortRefresh
  PROVE  IInv'
<1>1. sweepStep /\ staging' = NoSweep /\ batch' = NoBatch
  BY DEF abortRefresh, sweepStep, writerVars
<1> QED BY <1>1, SweepStepKeeps DEF IInv, SweepOK, BatchOK

\* The sentinels are told apart by the instant.
LEMMA Sentinels ==
  /\ NoSnapshot.at = -1 /\ NoSweep.at = -1 /\ NoBatch.at = -1
  /\ NoSweep.updates = <<>> /\ NoBatch.updates = <<>> /\ NoBatch.attempts = <<>>
  /\ DOMAIN NoBatch.updates = {} /\ DOMAIN NoBatch.attempts = {}
  /\ NoBatch.stat = Unknown
BY DEF NoSnapshot, NoSweep, NoBatch

LEMMA SweepFacts ==
  ASSUME IInv, staging # NoSweep
  PROVE  /\ staging.offset \in 0 .. N - 1 /\ staging.at \in Nat
         /\ batchEnd \in 1 .. N /\ staging.offset < batchEnd
         /\ goodRows(staging.rows)
         /\ DOMAIN staging.updates \subseteq 1 .. staging.offset
         /\ DOMAIN staging.updates \subseteq Operations
<1>1. staging.offset \in 0 .. N - 1 /\ staging.at \in Nat /\ goodRows(staging.rows)
      /\ DOMAIN staging.updates \subseteq 1 .. staging.offset
  BY DEF IInv, SweepOK
<1>2. batchEnd \in 1 .. N /\ staging.offset < batchEnd
  BY <1>1, ConfigNat DEF batchEnd
<1>3. DOMAIN staging.updates \subseteq Operations
  BY <1>1, ConfigNat DEF Operations
<1> QED BY <1>1, <1>2, <1>3

LEMMA BatchFacts ==
  ASSUME IInv, batch # NoBatch
  PROVE  /\ staging # NoSweep
         /\ batch.at \in Nat /\ batch.next \in Nat
         /\ staging.offset + 1 <= batch.next /\ batch.next <= batchEnd + 1
         /\ batch.stat \in (Nat \ {0}) \cup {Unknown}
         /\ DOMAIN batch.updates \subseteq staging.offset + 1 .. batch.next - 1
         /\ DOMAIN batch.updates \subseteq Operations
         /\ DOMAIN batch.attempts \subseteq DOMAIN batch.updates
         /\ \A o \in DOMAIN batch.updates :
              /\ batch.updates[o] \in Nat /\ batch.updates[o] <= files[o].version
              /\ o \notin DOMAIN batch.attempts => batch.updates[o] = 0
         /\ \A o \in DOMAIN batch.attempts :
              /\ goodAttempt(batch.attempts[o]) /\ held(o, batch.attempts[o])
              /\ batch.updates[o] = files[o].version =>
                   batch.attempts[o] = operationReadModelAttemptFromState(files[o])
         /\ \A o \in DOMAIN batch.updates : o \notin DOMAIN staging.updates
<1>1. /\ staging # NoSweep
      /\ batch.next \in staging.offset + 1 .. batchEnd + 1
      /\ DOMAIN batch.updates \subseteq staging.offset + 1 .. batch.next - 1
  BY DEF IInv, BatchOK
<1>2. /\ staging.offset \in 0 .. N - 1
      /\ batchEnd \in 1 .. N /\ staging.offset < batchEnd
      /\ DOMAIN staging.updates \subseteq 1 .. staging.offset
  BY <1>1, SweepFacts
<1>3. /\ batch.next \in Nat
      /\ staging.offset + 1 <= batch.next /\ batch.next <= batchEnd + 1
      /\ DOMAIN batch.updates \subseteq Operations
  BY <1>1, <1>2, ConfigNat DEF Operations
<1>4. \A o \in DOMAIN batch.updates : o \notin DOMAIN staging.updates
  BY <1>1, <1>2, <1>3
<1> QED BY <1>1, <1>3, <1>4 DEF IInv, BatchOK

\* The rows that applyAttempts leaves after an accepted batch.
LEMMA AppliedRows ==
  ASSUME IInv, batch # NoBatch
  PROVE  /\ DOMAIN appliedRows = Operations
         /\ appliedRows = [o \in Operations |-> appliedRows[o]]
         /\ \A o \in Operations :
              appliedRows[o] =
                IF o \in DOMAIN batch.attempts
                THEN applyAttempt(staging.rows[o], batch.attempts[o], batch.at)
                ELSE staging.rows[o]
<1>1. staging # NoSweep /\ DOMAIN batch.attempts \subseteq Operations
  BY BatchFacts
<1>2. DOMAIN staging.rows = Operations
  BY <1>1, SweepFacts DEF goodRows
<1> QED BY <1>1, <1>2 DEF appliedRows, over

LEMMA AppliedRowsGood ==
  ASSUME IInv, batch # NoBatch, accepted
  PROVE  goodRows(appliedRows)
<1>1. staging # NoSweep /\ DOMAIN batch.attempts \subseteq Operations /\ batch.at \in Nat
  BY BatchFacts
<1>2. goodRows(staging.rows)
  BY <1>1, SweepFacts
<1>3. ASSUME NEW o \in Operations
      PROVE  appliedRows[o] \in Row /\ Timeless(appliedRows[o]) /\ real(o, appliedRows[o])
  <2>0. staging.rows[o] \in Row /\ Timeless(staging.rows[o]) /\ real(o, staging.rows[o])
    BY <1>2 DEF goodRows
  <2>1. CASE o \notin DOMAIN batch.attempts \/ ~bindingMatches(batch.attempts[o].plan)
    <3>1. appliedRows[o] = staging.rows[o]
      BY <2>1, AppliedRows DEF applyAttempt
    <3> QED BY <2>0, <3>1
  <2>2. CASE o \in DOMAIN batch.attempts /\ bindingMatches(batch.attempts[o].plan)
    <3> DEFINE a == batch.attempts[o]
               s == selectedAttempt(a)
               r == appliedRow(staging.rows[o], a, batch.at)
    <3>1. appliedRows[o] = r
      BY <2>2, AppliedRows DEF applyAttempt
    <3>2. ValidatePublicProjection(r, batch.at)
      BY <2>2 DEF accepted, acceptsAttempt
    <3>3. a \in Attempt /\ validOperationReadModelAttempt(a) /\ held(o, a)
      BY <2>2, BatchFacts DEF goodAttempt
    <3>4. /\ r \in Row
          /\ r.category = s.obs.category /\ r.observed = s.obs.observed
      BY <1>1, <2>0, <3>3, AppliedShows
    <3>5. hasObservation(s) => s.obs = a.obs /\ s.obs.plan = Plan
      BY <3>3, SelectedGood
    <3>6. Timeless(r)
      BY <3>2, ValidIsTimeless
    <3>7. real(o, r)
      <4> SUFFICES ASSUME r.observed # 0
                   PROVE  [op |-> o, plan |-> Plan, category |-> r.category,
                           observed |-> r.observed] \in observations
        BY DEF real
      <4>1. hasObservation(s)
        BY <3>4 DEF hasObservation, NoObservation
      <4>2. s.obs = a.obs /\ a.obs.plan = Plan /\ hasObservation(a)
        BY <3>5, <4>1 DEF hasObservation
      <4>3. observation(o, a.obs) \in observations
        BY <3>3, <4>2 DEF held
      <4> QED BY <3>4, <4>2, <4>3 DEF observation
    <3> QED BY <3>1, <3>4, <3>6, <3>7
  <2> QED BY <2>1, <2>2
<1>4. appliedRows \in [Operations -> Row]
  BY <1>3, AppliedRows
<1> QED BY <1>3, <1>4 DEF goodRows

\* A version that is still the file's vouches for the applied row.
LEMMA AppliedRowsShow ==
  ASSUME IInv, batch # NoBatch, NEW o \in DOMAIN batch.updates,
         batch.updates[o] > 0, batch.updates[o] = files[o].version, files[o].plan = Plan
  PROVE  shows(appliedRows[o], files[o])
<1> DEFINE a == batch.attempts[o]
<1>1. /\ o \in DOMAIN batch.attempts /\ o \in Operations
      /\ a = operationReadModelAttemptFromState(files[o])
      /\ goodAttempt(a) /\ batch.at \in Nat /\ staging # NoSweep
  BY BatchFacts
<1>2. staging.rows[o] \in Row
  BY <1>1, SweepFacts DEF goodRows
<1>3. bindingMatches(a.plan)
  BY <1>1 DEF operationReadModelAttemptFromState, bindingMatches
<1>4. appliedRows[o] = appliedRow(staging.rows[o], a, batch.at)
  BY <1>1, <1>3, AppliedRows DEF applyAttempt
<1>5. LET r == appliedRow(staging.rows[o], a, batch.at)
          s == selectedAttempt(a)
      IN  /\ r.state = s.state /\ r.started = s.started
          /\ s.ever => r.attempted
          /\ r.category = s.obs.category
          /\ r.observed = s.obs.observed /\ r.received = s.obs.received
  BY <1>1, <1>2, AppliedShows DEF goodAttempt
<1> QED BY <1>1, <1>4, <1>5 DEF shows

LEMMA BaseRowsGood ==
  ASSUME IInv
  PROVE  /\ newSweep.rows = [o \in Operations |-> baseRow(o)]
         /\ goodRows(newSweep.rows)
<1>1. CASE current = NoSnapshot
  <2>1. newSweep.rows = [o \in Operations |-> staticRow]
    BY <1>1 DEF newSweep
  <2>2. staticRow.observed = 0
    BY DEF staticRow
  <2>3. goodRows(newSweep.rows)
    BY <2>1, <2>2, StaticRowGood DEF goodRows, real
  <2> QED BY <1>1, <2>1, <2>3 DEF baseRow
<1>2. CASE current # NoSnapshot
  <2>1. newSweep.rows = current.rows
    BY <1>2 DEF newSweep
  <2>2. goodRows(current.rows)
    BY <1>2 DEF IInv, SnapshotOK
  <2>3. current.rows = [o \in Operations |-> current.rows[o]]
    BY <2>2 DEF goodRows
  <2> QED BY <1>2, <2>1, <2>2, <2>3 DEF baseRow
<1> QED BY <1>1, <1>2

LEMMA BeginBatchKeepsInv ==
  ASSUME IInv, BeginBatch
  PROVE  IInv'
<1>1. /\ sweepStep /\ batch = NoBatch
      /\ staging' = IF staging # NoSweep THEN staging ELSE newSweep
      /\ batch' = [NoBatch EXCEPT !.at = clock, !.next = staging'.offset + 1]
  BY DEF BeginBatch, sweepStep, writerVars, sweeping
<1>2. clock \in Nat \ {0}
  BY DEF IInv, LedgerOK
<1>3. /\ LedgerOK' /\ StampsOK' /\ SnapshotOK' /\ WalkOK' /\ StampHidesNothing'
  BY <1>1, SweepStepKeeps
<1>4. SweepOK' /\ staging' # NoSweep
  <2>1. CASE staging # NoSweep
    <3>1. UNCHANGED <<staging, files, observations, current>>
      BY <1>1, <2>1 DEF sweepStep
    <3> QED BY <2>1, <3>1 DEF IInv, SweepOK, goodRows, real, baseRow, shows
  <2>2. CASE staging = NoSweep
    <3>1. staging' = newSweep
      BY <1>1, <2>2
    <3>2. /\ newSweep = [rows |-> newSweep.rows, offset |-> 0, at |-> clock, updates |-> <<>>]
          /\ newSweep.offset = 0 /\ newSweep.at = clock /\ newSweep.updates = <<>>
      BY DEF newSweep
    <3>3. goodRows(newSweep.rows) /\ \A o \in Operations : newSweep.rows[o] = baseRow(o)
      BY BaseRowsGood
    <3>4. goodRows(staging.rows)' /\ \A o \in Operations : staging'.rows[o] = baseRow(o)'
      BY <1>1, <3>1, <3>3 DEF goodRows, real, baseRow, sweepStep
    <3>5. staging'.offset \in 0 .. N - 1 /\ staging'.at \in Nat /\ staging'.updates = <<>>
      BY <1>2, <3>1, <3>2, ConfigNat
    <3>6. staging' # NoSweep
      BY <3>5, Sentinels
    <3>7. DOMAIN staging'.updates = {}
      BY <3>5
    <3>8. staging' = [rows |-> staging'.rows, offset |-> staging'.offset, at |-> staging'.at,
                      updates |-> staging'.updates]
      BY <3>1, <3>2
    <3> QED BY <3>4, <3>5, <3>6, <3>7, <3>8 DEF SweepOK
  <2> QED BY <2>1, <2>2
<1>5. BatchOK'
  <2>1. staging'.offset \in 0 .. N - 1
    BY <1>4 DEF SweepOK
  <2>2. batchEnd' \in 1 .. N /\ staging'.offset < batchEnd'
    BY <2>1, ConfigNat DEF batchEnd
  <2>3. batch' = [at |-> clock, next |-> staging'.offset + 1, stat |-> Unknown,
                  attempts |-> <<>>, updates |-> <<>>]
    BY <1>1 DEF NoBatch
  <2>4. /\ batch'.at = clock /\ batch'.next = staging'.offset + 1 /\ batch'.stat = Unknown
        /\ DOMAIN batch'.attempts = {} /\ DOMAIN batch'.updates = {}
    BY <2>3
  <2>5. batch'.next \in staging'.offset + 1 .. batchEnd' + 1
    BY <2>1, <2>2, <2>4
  <2>6. batch' = [at |-> batch'.at, next |-> batch'.next, stat |-> batch'.stat,
                  attempts |-> batch'.attempts, updates |-> batch'.updates]
    BY <2>3
  <2> QED BY <1>2, <1>4, <2>4, <2>5, <2>6 DEF BatchOK
<1> QED BY <1>3, <1>4, <1>5 DEF IInv

\* Steps that only read on.
readStep == sweepStep /\ staging' = staging

LEMMA ReadStepKeeps ==
  ASSUME IInv, readStep
  PROVE  /\ LedgerOK' /\ StampsOK' /\ SnapshotOK' /\ WalkOK' /\ StampHidesNothing'
         /\ SweepOK' /\ batchEnd' = batchEnd
<1>1. /\ LedgerOK' /\ StampsOK' /\ SnapshotOK' /\ WalkOK' /\ StampHidesNothing'
  BY SweepStepKeeps DEF readStep
<1>2. SweepOK'
  BY DEF readStep, sweepStep, IInv, SweepOK, goodRows, real, baseRow, shows
<1>3. batchEnd' = batchEnd
  BY DEF readStep, batchEnd
<1> QED BY <1>1, <1>2, <1>3

LEMMA ReadingFacts ==
  ASSUME IInv, reading
  PROVE  /\ batch # NoBatch /\ batch.next \in Operations /\ batch.next <= batchEnd
         /\ batch.next \notin DOMAIN batch.updates
         /\ files[batch.next].version \in Nat
         /\ batch = [at |-> batch.at, next |-> batch.next, stat |-> batch.stat,
                     attempts |-> batch.attempts, updates |-> batch.updates]
<1>1. batch # NoBatch /\ batch.next <= batchEnd
  BY DEF reading
<1>2. /\ staging # NoSweep /\ batch.next \in Nat /\ staging.offset + 1 <= batch.next
      /\ DOMAIN batch.updates \subseteq staging.offset + 1 .. batch.next - 1
  BY <1>1, BatchFacts
<1>3. staging.offset \in 0 .. N - 1 /\ batchEnd \in 1 .. N
  BY <1>2, SweepFacts
<1>4. batch.next \in Operations
  BY <1>1, <1>2, <1>3, ConfigNat DEF Operations
<1>5. batch.next \notin DOMAIN batch.updates
  BY <1>2, <1>3
<1>6. files[batch.next].version \in Nat
  BY <1>4, FilesTyped DEF IInv, AnyFile
<1>7. batch = [at |-> batch.at, next |-> batch.next, stat |-> batch.stat,
               attempts |-> batch.attempts, updates |-> batch.updates]
  BY <1>1 DEF IInv, BatchOK
<1> QED BY <1>1, <1>4, <1>5, <1>6, <1>7

\* The next batch keeps its shape when it moves past a file, with or without
\* what it read of it.
LEMMA BatchMoves ==
  ASSUME IInv, reading, readStep, NEW next, NEW stat, NEW attempts, NEW updates,
         batch' = [at |-> batch.at, next |-> next, stat |-> stat,
                   attempts |-> attempts, updates |-> updates],
         next = batch.next \/ next = batch.next + 1,
         stat \in (Nat \ {0}) \cup {Unknown},
         DOMAIN updates \subseteq staging.offset + 1 .. next - 1,
         DOMAIN attempts \subseteq DOMAIN updates,
         \A o \in DOMAIN updates :
           /\ updates[o] \in Nat /\ updates[o] <= files[o].version
           /\ o \notin DOMAIN attempts => updates[o] = 0,
         \A o \in DOMAIN attempts :
           /\ goodAttempt(attempts[o]) /\ held(o, attempts[o])
           /\ updates[o] = files[o].version =>
                attempts[o] = operationReadModelAttemptFromState(files[o])
  PROVE  IInv'
<1>1. /\ staging # NoSweep /\ batch.at \in Nat /\ batch.next \in Nat
      /\ staging.offset + 1 <= batch.next /\ batch.next <= batchEnd
      /\ staging.offset \in 0 .. N - 1 /\ batchEnd \in 1 .. N
  BY ReadingFacts, BatchFacts, SweepFacts
<1>2. next \in staging.offset + 1 .. batchEnd + 1
  BY <1>1
<1>3. /\ batch'.at = batch.at /\ batch'.next = next /\ batch'.stat = stat
      /\ batch'.attempts = attempts /\ batch'.updates = updates
  OBVIOUS
<1>4. /\ staging' = staging /\ files' = files /\ observations' = observations
      /\ batchEnd' = batchEnd
  BY ReadStepKeeps DEF readStep, sweepStep
<1>5. BatchOK'
  BY <1>1, <1>2, <1>3, <1>4 DEF BatchOK, goodAttempt, held
<1> QED BY <1>5, ReadStepKeeps DEF IInv

LEMMA StatFileKeepsInv ==
  ASSUME IInv, StatFile
  PROVE  IInv'
<1> DEFINE o == batch.next
           v == files[o].version
<1>1. /\ reading /\ readStep /\ batch.stat = Unknown
      /\ batch' = IF unchanged(o) THEN [batch EXCEPT !.next = @ + 1]
                  ELSE IF v = 0 THEN [batch EXCEPT !.next = @ + 1, !.updates = with(@, o, 0)]
                  ELSE [batch EXCEPT !.stat = v]
  BY DEF StatFile, readStep, sweepStep, writerVars
<1>2. /\ batch # NoBatch /\ o \in Operations /\ o \notin DOMAIN batch.updates /\ v \in Nat
      /\ batch = [at |-> batch.at, next |-> batch.next, stat |-> batch.stat,
                  attempts |-> batch.attempts, updates |-> batch.updates]
  BY <1>1, ReadingFacts
<1>3. /\ staging # NoSweep /\ o \in Nat /\ staging.offset + 1 <= o
      /\ DOMAIN batch.updates \subseteq staging.offset + 1 .. o - 1
      /\ DOMAIN batch.attempts \subseteq DOMAIN batch.updates
      /\ \A p \in DOMAIN batch.updates :
           /\ batch.updates[p] \in Nat /\ batch.updates[p] <= files[p].version
           /\ p \notin DOMAIN batch.attempts => batch.updates[p] = 0
      /\ \A p \in DOMAIN batch.attempts :
           /\ goodAttempt(batch.attempts[p]) /\ held(p, batch.attempts[p])
           /\ batch.updates[p] = files[p].version =>
                batch.attempts[p] = operationReadModelAttemptFromState(files[p])
  BY <1>2, BatchFacts
<1>4. staging.offset \in Nat
  BY <1>3, SweepFacts
<1>5. CASE unchanged(o)
  <2>1. batch' = [at |-> batch.at, next |-> o + 1, stat |-> Unknown,
                  attempts |-> batch.attempts, updates |-> batch.updates]
    BY <1>1, <1>2, <1>5
  <2>2. DOMAIN batch.updates \subseteq staging.offset + 1 .. (o + 1) - 1
    BY <1>3, <1>4
  <2> QED BY <1>1, <1>3, <2>1, <2>2, BatchMoves
<1>6. CASE ~unchanged(o) /\ v = 0
  <2> DEFINE u == with(batch.updates, o, 0)
  <2>1. batch' = [at |-> batch.at, next |-> o + 1, stat |-> Unknown,
                  attempts |-> batch.attempts, updates |-> u]
    BY <1>1, <1>2, <1>6
  <2>2. /\ DOMAIN u = DOMAIN batch.updates \cup {o} /\ u[o] = 0
        /\ \A p \in DOMAIN batch.updates : u[p] = batch.updates[p]
    BY <1>2 DEF with
  <2> HIDE DEF u
  <2>3. DOMAIN u \subseteq staging.offset + 1 .. (o + 1) - 1
    BY <1>3, <1>4, <2>2
  <2>4. ASSUME NEW p \in DOMAIN u
        PROVE  /\ u[p] \in Nat /\ u[p] <= files[p].version
               /\ p \notin DOMAIN batch.attempts => u[p] = 0
    BY <1>3, <1>6, <2>2
  <2>5. \A p \in DOMAIN batch.attempts :
          /\ goodAttempt(batch.attempts[p]) /\ held(p, batch.attempts[p])
          /\ u[p] = files[p].version =>
               batch.attempts[p] = operationReadModelAttemptFromState(files[p])
    BY <1>3, <2>2
  <2>6. DOMAIN batch.attempts \subseteq DOMAIN u
    BY <1>3, <2>2
  <2> QED BY <1>1, <2>1, <2>3, <2>4, <2>5, <2>6, BatchMoves
<1>7. CASE ~unchanged(o) /\ v # 0
  <2>1. batch' = [at |-> batch.at, next |-> o, stat |-> v,
                  attempts |-> batch.attempts, updates |-> batch.updates]
    BY <1>1, <1>2, <1>7
  <2> HIDE DEF v
  <2> QED BY <1>1, <1>2, <1>3, <1>7, <2>1, BatchMoves
<1> QED BY <1>5, <1>6, <1>7

LEMMA ReadFileKeepsInv ==
  ASSUME IInv, ReadFile
  PROVE  IInv'
<1> DEFINE o == batch.next
           f == files[o]
           past == [batch EXCEPT !.next = @ + 1, !.stat = Unknown]
           read == operationReadModelAttemptFromState(f)
<1>1. /\ reading /\ readStep /\ batch.stat # Unknown
      /\ batch' = IF f.version # batch.stat THEN past
                  ELSE [past EXCEPT !.updates = with(@, o, f.version),
                                    !.attempts = with(@, o, read)]
  BY DEF ReadFile, readStep, sweepStep, writerVars
<1>2. /\ batch # NoBatch /\ o \in Operations /\ o \notin DOMAIN batch.updates
      /\ f.version \in Nat
      /\ batch = [at |-> batch.at, next |-> batch.next, stat |-> batch.stat,
                  attempts |-> batch.attempts, updates |-> batch.updates]
  BY <1>1, ReadingFacts
<1>3. /\ staging # NoSweep /\ o \in Nat /\ staging.offset + 1 <= o
      /\ batch.stat \in (Nat \ {0}) \cup {Unknown}
      /\ DOMAIN batch.updates \subseteq staging.offset + 1 .. o - 1
      /\ DOMAIN batch.attempts \subseteq DOMAIN batch.updates
      /\ \A p \in DOMAIN batch.updates :
           /\ batch.updates[p] \in Nat /\ batch.updates[p] <= files[p].version
           /\ p \notin DOMAIN batch.attempts => batch.updates[p] = 0
      /\ \A p \in DOMAIN batch.attempts :
           /\ goodAttempt(batch.attempts[p]) /\ held(p, batch.attempts[p])
           /\ batch.updates[p] = files[p].version =>
                batch.attempts[p] = operationReadModelAttemptFromState(files[p])
  BY <1>2, BatchFacts
<1>4. staging.offset \in Nat
  BY <1>3, SweepFacts
<1>5. CASE f.version # batch.stat
  <2>1. batch' = [at |-> batch.at, next |-> o + 1, stat |-> Unknown,
                  attempts |-> batch.attempts, updates |-> batch.updates]
    BY <1>1, <1>2, <1>5
  <2>2. DOMAIN batch.updates \subseteq staging.offset + 1 .. (o + 1) - 1
    BY <1>3, <1>4
  <2> QED BY <1>1, <1>3, <2>1, <2>2, BatchMoves
<1>6. CASE f.version = batch.stat
  <2> DEFINE u == with(batch.updates, o, f.version)
             r == with(batch.attempts, o, read)
  <2>1. batch' = [at |-> batch.at, next |-> o + 1, stat |-> Unknown,
                  attempts |-> r, updates |-> u]
    BY <1>1, <1>2, <1>6
  <2>2. /\ DOMAIN u = DOMAIN batch.updates \cup {o} /\ u[o] = f.version
        /\ \A p \in DOMAIN batch.updates : u[p] = batch.updates[p]
    BY <1>2 DEF with
  <2>3. /\ DOMAIN r = DOMAIN batch.attempts \cup {o} /\ r[o] = read
        /\ \A p \in DOMAIN batch.attempts : r[p] = batch.attempts[p]
    BY <1>2, <1>3 DEF with
  <2>4. goodAttempt(read) /\ held(o, read)
    <3>1. f.version > 0
      BY <1>1, <1>2, <1>3, <1>6
    <3>2. validLedgerFile(f, clock) /\ held(o, f)
      BY <1>2, <3>1, FilesTyped DEF IInv
    <3>3. goodAttempt(read)
      BY <3>2, ValidFileGood
    <3>4. f.obs \in Observation \cup {NoObservation}
      BY <3>2 DEF validLedgerFile, LedgerFile
    <3> QED BY <3>2, <3>3, <3>4, FromStateFields DEF held, observation
  <2> HIDE DEF u, r
  <2>5. DOMAIN u \subseteq staging.offset + 1 .. (o + 1) - 1
    BY <1>3, <1>4, <2>2
  <2>6. ASSUME NEW p \in DOMAIN u
        PROVE  /\ u[p] \in Nat /\ u[p] <= files[p].version
               /\ p \notin DOMAIN r => u[p] = 0
    <3>1. CASE p = o
      BY <1>2, <2>2, <2>3, <3>1
    <3>2. CASE p # o
      BY <1>3, <2>2, <2>3, <3>2
    <3> QED BY <3>1, <3>2
  <2>7. ASSUME NEW p \in DOMAIN r
        PROVE  /\ goodAttempt(r[p]) /\ held(p, r[p])
               /\ u[p] = files[p].version =>
                    r[p] = operationReadModelAttemptFromState(files[p])
    <3>1. CASE p = o
      BY <2>3, <2>4, <3>1
    <3>2. CASE p # o
      BY <1>3, <2>2, <2>3, <3>2
    <3> QED BY <3>1, <3>2
  <2>8. DOMAIN r \subseteq DOMAIN u
    BY <1>3, <2>2, <2>3
  <2> QED BY <1>1, <2>1, <2>5, <2>6, <2>7, <2>8, BatchMoves
<1> QED BY <1>5, <1>6

\* What a sweep holds once an accepted batch is added to it.
LEMMA StagedFacts ==
  ASSUME IInv, batchRead, accepted
  PROVE  /\ batch # NoBatch /\ staging # NoSweep
         /\ goodRows(appliedRows)
         /\ DOMAIN stagedUpdates \subseteq 1 .. batchEnd
         /\ DOMAIN stagedUpdates \subseteq Operations
         /\ \A o \in DOMAIN stagedUpdates :
              /\ stagedUpdates[o] \in Nat /\ stagedUpdates[o] <= files[o].version
              /\ stagedUpdates[o] > 0 /\ stagedUpdates[o] = files[o].version
                   /\ files[o].plan = Plan => shows(appliedRows[o], files[o])
         /\ \A o \in Operations \ DOMAIN stagedUpdates : appliedRows[o] = baseRow(o)
<1>1. batch # NoBatch /\ batch.next > batchEnd
  BY DEF batchRead
<1>2. /\ staging # NoSweep /\ batch.next \in Nat
      /\ staging.offset + 1 <= batch.next /\ batch.next <= batchEnd + 1
      /\ DOMAIN batch.updates \subseteq staging.offset + 1 .. batch.next - 1
      /\ DOMAIN batch.updates \subseteq Operations
      /\ DOMAIN batch.attempts \subseteq DOMAIN batch.updates
      /\ \A o \in DOMAIN batch.updates :
           batch.updates[o] \in Nat /\ batch.updates[o] <= files[o].version
      /\ \A o \in DOMAIN batch.updates : o \notin DOMAIN staging.updates
  BY <1>1, BatchFacts
<1>3. /\ staging.offset \in 0 .. N - 1 /\ batchEnd \in 1 .. N /\ staging.offset < batchEnd
      /\ DOMAIN staging.updates \subseteq 1 .. staging.offset
      /\ DOMAIN staging.updates \subseteq Operations
  BY <1>2, SweepFacts
<1>4. /\ \A o \in DOMAIN staging.updates :
           /\ staging.updates[o] \in Nat /\ staging.updates[o] <= files[o].version
           /\ staging.updates[o] > 0 /\ staging.updates[o] = files[o].version
                /\ files[o].plan = Plan => shows(staging.rows[o], files[o])
      /\ \A o \in Operations \ DOMAIN staging.updates : staging.rows[o] = baseRow(o)
  BY <1>2 DEF IInv, SweepOK
<1>5. /\ DOMAIN stagedUpdates = DOMAIN staging.updates \cup DOMAIN batch.updates
      /\ \A o \in DOMAIN staging.updates : stagedUpdates[o] = staging.updates[o]
      /\ \A o \in DOMAIN batch.updates : stagedUpdates[o] = batch.updates[o]
  BY <1>2 DEF stagedUpdates, over
<1>6. \A o \in Operations : o \notin DOMAIN batch.attempts => appliedRows[o] = staging.rows[o]
  BY <1>1, AppliedRows
<1>7. goodRows(appliedRows)
  BY <1>1, AppliedRowsGood
<1>8. DOMAIN stagedUpdates \subseteq 1 .. batchEnd
  BY <1>1, <1>2, <1>3, <1>5
<1>9. DOMAIN stagedUpdates \subseteq Operations
  BY <1>2, <1>3, <1>5
<1>10. ASSUME NEW o \in DOMAIN stagedUpdates
       PROVE  /\ stagedUpdates[o] \in Nat /\ stagedUpdates[o] <= files[o].version
              /\ stagedUpdates[o] > 0 /\ stagedUpdates[o] = files[o].version
                   /\ files[o].plan = Plan => shows(appliedRows[o], files[o])
  <2>1. CASE o \in DOMAIN staging.updates
    <3>1. appliedRows[o] = staging.rows[o]
      BY <1>2, <1>3, <1>6, <2>1
    <3> QED BY <1>4, <1>5, <2>1, <3>1
  <2>2. CASE o \in DOMAIN batch.updates
    BY <1>1, <1>2, <1>5, <2>2, AppliedRowsShow
  <2> QED BY <1>5, <2>1, <2>2
<1>11. ASSUME NEW o \in Operations \ DOMAIN stagedUpdates
       PROVE  appliedRows[o] = baseRow(o)
  <2>1. o \notin DOMAIN staging.updates /\ o \notin DOMAIN batch.attempts
    BY <1>2, <1>5
  <2> QED BY <1>4, <1>6, <2>1
<1> QED BY <1>1, <1>2, <1>7, <1>8, <1>9, <1>10, <1>11

LEMMA StageBatchKeepsInv ==
  ASSUME IInv, StageBatch
  PROVE  IInv'
<1>1. /\ sweepStep /\ batchRead /\ accepted /\ batchEnd < N /\ batch' = NoBatch
      /\ staging' = [staging EXCEPT !.rows = appliedRows, !.offset = batchEnd,
                                    !.updates = stagedUpdates]
  BY DEF StageBatch, sweepStep, writerVars
<1>2. /\ batch # NoBatch /\ staging # NoSweep
      /\ goodRows(appliedRows)
      /\ DOMAIN stagedUpdates \subseteq 1 .. batchEnd
      /\ \A o \in DOMAIN stagedUpdates :
           /\ stagedUpdates[o] \in Nat /\ stagedUpdates[o] <= files[o].version
           /\ stagedUpdates[o] > 0 /\ stagedUpdates[o] = files[o].version
                /\ files[o].plan = Plan => shows(appliedRows[o], files[o])
      /\ \A o \in Operations \ DOMAIN stagedUpdates : appliedRows[o] = baseRow(o)
  BY <1>1, StagedFacts
<1>3. staging.at \in Nat /\ batchEnd \in 1 .. N
  BY <1>2, SweepFacts
<1>4. staging = [rows |-> staging.rows, offset |-> staging.offset, at |-> staging.at,
                 updates |-> staging.updates]
  BY <1>2 DEF IInv, SweepOK
<1>5. staging' = [rows |-> appliedRows, offset |-> batchEnd, at |-> staging.at,
                  updates |-> stagedUpdates]
  BY <1>1, <1>4
<1>6. /\ staging'.rows = appliedRows /\ staging'.offset = batchEnd /\ staging'.at = staging.at
      /\ staging'.updates = stagedUpdates
  BY <1>5
<1>7. batchEnd \in 0 .. N - 1
  BY <1>1, <1>3, ConfigNat
<1>8. files' = files /\ observations' = observations /\ current' = current
  BY <1>1 DEF sweepStep
<1>9. SweepOK'
  <2>1. goodRows(staging.rows)'
    BY <1>2, <1>6, <1>8 DEF goodRows, real
  <2>2. staging' = [rows |-> staging'.rows, offset |-> staging'.offset, at |-> staging'.at,
                    updates |-> staging'.updates]
    BY <1>5, <1>6
  <2>3. \A o \in Operations \ DOMAIN staging'.updates : staging'.rows[o] = baseRow(o)'
    BY <1>2, <1>6, <1>8 DEF baseRow
  <2>4. \A o \in DOMAIN staging'.updates :
          LET v == staging'.updates[o]
          IN  /\ v \in Nat /\ v <= files'[o].version
              /\ v > 0 /\ v = files'[o].version /\ files'[o].plan = Plan
                   => shows(staging'.rows[o], files'[o])
    BY <1>2, <1>6, <1>8
  <2>5. /\ staging'.offset \in 0 .. N - 1 /\ staging'.at \in Nat
        /\ DOMAIN staging'.updates \subseteq 1 .. staging'.offset
    BY <1>2, <1>3, <1>6, <1>7
  <2> QED BY <2>1, <2>2, <2>3, <2>4, <2>5 DEF SweepOK, shows
<1> QED BY <1>1, <1>9, SweepStepKeeps DEF IInv, BatchOK

LEMMA PublishSweepKeepsInv ==
  ASSUME IInv, PublishSweep
  PROVE  IInv'
<1>1. /\ batchRead /\ accepted
      /\ stamps' = committed(stagedUpdates)
      /\ current' = [rows |-> appliedRows, at |-> batch.at]
      /\ staging' = NoSweep /\ batch' = NoBatch
      /\ UNCHANGED <<files, observations, walk, clock>>
  BY DEF PublishSweep, writerVars
<1>2. /\ batch # NoBatch /\ staging # NoSweep
      /\ goodRows(appliedRows)
      /\ DOMAIN stagedUpdates \subseteq Operations
      /\ \A o \in DOMAIN stagedUpdates :
           /\ stagedUpdates[o] \in Nat /\ stagedUpdates[o] <= files[o].version
           /\ stagedUpdates[o] > 0 /\ stagedUpdates[o] = files[o].version
                /\ files[o].plan = Plan => shows(appliedRows[o], files[o])
      /\ \A o \in Operations \ DOMAIN stagedUpdates : appliedRows[o] = baseRow(o)
  BY <1>1, StagedFacts
<1>3. batch.at \in Nat
  BY <1>2, BatchFacts
<1>4. current'.rows = appliedRows /\ current'.at = batch.at /\ current' # NoSnapshot
  BY <1>1, <1>3, Sentinels
<1>5. /\ stamps \in [Operations -> Nat \cup {Unknown}]
      /\ \A o \in Operations : stamps[o] <= files[o].version
      /\ current = NoSnapshot => \A o \in Operations : stamps[o] = Unknown
  BY DEF IInv, StampsOK
<1>6. /\ stamps' = [o \in Operations |-> stamps'[o]]
      /\ \A o \in Operations :
           stamps'[o] = IF o \in DOMAIN stagedUpdates THEN stagedUpdates[o] ELSE stamps[o]
  BY <1>1, <1>2, <1>5 DEF committed, over
<1>7. LedgerOK' /\ WalkOK'
  BY <1>1 DEF IInv, LedgerOK, held, validLedgerFile, WalkOK
<1>8. StampsOK'
  <2>1. ASSUME NEW o \in Operations
        PROVE  stamps'[o] \in Nat \cup {Unknown} /\ stamps'[o] <= files[o].version
    BY <1>2, <1>5, <1>6
  <2> QED BY <1>1, <1>4, <1>6, <2>1 DEF StampsOK
<1>9. SnapshotOK'
  BY <1>1, <1>2, <1>3, <1>4 DEF SnapshotOK, goodRows, real
<1>10. StampHidesNothing'
  <2> SUFFICES ASSUME NEW o \in Operations,
                      stamps'[o] > 0, stamps'[o] = files[o].version, files[o].plan = Plan
               PROVE  shows(appliedRows[o], files[o])
    BY <1>1, <1>4 DEF StampHidesNothing, shows, unchanged
  <2>1. CASE o \in DOMAIN stagedUpdates
    BY <1>2, <1>6, <2>1
  <2>2. CASE o \notin DOMAIN stagedUpdates
    <3>1. stamps[o] > 0 /\ stamps[o] = files[o].version
      BY <1>6, <2>2
    <3>2. current # NoSnapshot
      BY <1>5, <3>1 DEF Unknown
    <3>3. appliedRows[o] = current.rows[o]
      BY <1>2, <2>2, <3>2 DEF baseRow
    <3> QED BY <3>1, <3>3 DEF IInv, StampHidesNothing, shows, unchanged
  <2> QED BY <2>1, <2>2
<1> QED BY <1>1, <1>7, <1>8, <1>9, <1>10 DEF IInv, SweepOK, BatchOK

LEMMA RestartKeepsInv ==
  ASSUME IInv, Restart
  PROVE  IInv'
<1>1. /\ stamps' = [o \in Operations |-> Unknown] /\ current' = NoSnapshot
      /\ staging' = NoSweep /\ batch' = NoBatch
      /\ UNCHANGED <<files, observations, walk, clock>>
  BY DEF Restart, writerVars
<1>2. LedgerOK' /\ WalkOK'
  BY <1>1 DEF IInv, LedgerOK, held, validLedgerFile, WalkOK
<1>3. StampsOK'
  <2>1. \A o \in Operations : Unknown <= files[o].version
    BY FilesTyped DEF IInv, AnyFile, Unknown
  <2> QED BY <1>1, <2>1 DEF StampsOK
<1>4. StampHidesNothing'
  BY <1>1 DEF StampHidesNothing, unchanged, Unknown
<1> QED BY <1>1, <1>2, <1>3, <1>4 DEF IInv, SnapshotOK, SweepOK, BatchOK

\* A page continues where the client's cursor is, whatever was published since
\* the page before.
LEMMA NextPageWalks ==
  ASSUME WalkOK, NextPage
  PROVE  WalkOK'
<1> DEFINE n == Len(walk.seen)
           m == pageEnd - afterCursor + 1
           page == [i \in 1 .. m |-> afterCursor + i - 1]
<1>1. /\ walk.more
      /\ walk' = [seen |-> walk.seen \o page, more |-> pageEnd < N]
  BY DEF NextPage
<1>2. /\ walk.seen \in Seq(Nat) /\ n \in Nat /\ n < N
      /\ walk.seen = [i \in 1 .. n |-> i]
  BY <1>1, LenProperties DEF WalkOK
<1>3. afterCursor = n + 1
  <2>1. CASE walk.seen = <<>>
    <3>1. n = 0
      BY <2>1
    <3> QED BY <2>1, <3>1 DEF afterCursor
  <2>2. CASE walk.seen # <<>>
    <3>1. n \in 1 .. n
      BY <1>2, <2>2, EmptySeq
    <3>2. walk.seen[n] = n
      BY <1>2, <3>1
    <3> QED BY <2>2, <3>2 DEF afterCursor
  <2> QED BY <2>1, <2>2
<1>4. /\ pageEnd \in Nat /\ n < pageEnd /\ pageEnd <= N
  BY <1>2, <1>3, ConfigNat DEF pageEnd
<1>5. m = pageEnd - n /\ m \in Nat
  BY <1>2, <1>3, <1>4
<1>6. page \in Seq(Nat) /\ Len(page) = m
  <2>1. \A i \in 1 .. m : afterCursor + i - 1 \in Nat
    BY <1>2, <1>3, <1>5
  <2>2. page \in [1 .. m -> Nat]
    BY <2>1
  <2>3. page \in Seq(Nat)
    BY <1>5, <2>2, SeqDef
  <2> QED BY <1>5, <2>2, <2>3, LenProperties
<1>7. \A i \in 1 .. m : page[i] = n + i
  BY <1>2, <1>3, <1>5
<1> HIDE DEF page, m
<1> DEFINE all == walk.seen \o page
<1>8. /\ all \in Seq(Nat) /\ Len(all) = pageEnd
      /\ \A i \in 1 .. n + m : all[i] = IF i <= n THEN walk.seen[i] ELSE page[i - n]
  <2>1. /\ all \in Seq(Nat) /\ Len(all) = n + m
        /\ \A i \in 1 .. n + m : all[i] = IF i <= n THEN walk.seen[i] ELSE page[i - n]
    <3>1. /\ all \in Seq(Nat) /\ Len(all) = Len(walk.seen) + Len(page)
          /\ \A i \in 1 .. Len(walk.seen) + Len(page) :
               all[i] = IF i <= Len(walk.seen) THEN walk.seen[i] ELSE page[i - Len(walk.seen)]
      <4>1. \A s1, s2 \in Seq(Nat) :
              /\ s1 \o s2 \in Seq(Nat)
              /\ Len(s1 \o s2) = Len(s1) + Len(s2)
              /\ \A i \in 1 .. Len(s1) + Len(s2) :
                   (s1 \o s2)[i] = IF i <= Len(s1) THEN s1[i] ELSE s2[i - Len(s1)]
        BY ConcatProperties
      <4> QED BY <1>2, <1>6, <4>1, Zenon
    <3> QED BY <1>6, <3>1, Zenon
  <2> QED BY <1>2, <1>4, <1>5, <2>1
<1>9. all = [i \in 1 .. Len(all) |-> i]
  <2>1. ASSUME NEW i \in 1 .. pageEnd
        PROVE  all[i] = i
    <3>0. i \in 1 .. n + m /\ i \in Nat
      BY <1>2, <1>4, <1>5
    <3>1. CASE i <= n
      BY <1>2, <1>8, <3>0, <3>1
    <3>2. CASE ~(i <= n)
      <4>1. i - n \in 1 .. m
        BY <1>2, <1>4, <1>5, <3>0, <3>2
      <4>2. page[i - n] = n + (i - n)
        BY <1>7, <4>1
      <4> QED BY <1>2, <1>8, <3>0, <3>2, <4>2
    <3> QED BY <3>1, <3>2
  <2>2. all = [i \in 1 .. Len(all) |-> all[i]]
    BY <1>8, LenProperties
  <2> QED BY <1>8, <2>1, <2>2
<1>10. walk'.seen = all /\ walk'.more = (pageEnd < N)
  BY <1>1
<1>11. walk' = [seen |-> walk'.seen, more |-> walk'.more]
  BY <1>1, <1>10
<1>12. /\ walk'.more \in BOOLEAN
       /\ walk'.more => Len(walk'.seen) < N
       /\ ~walk'.more => Len(walk'.seen) = N
  <2>1. Len(walk'.seen) = pageEnd
    BY <1>8, <1>10
  <2>2. CASE pageEnd < N
    <3>1. walk'.more = TRUE
      BY <1>10, <2>2, Zenon
    <3> QED BY <2>1, <2>2, <3>1
  <2>3. CASE ~(pageEnd < N)
    <3>1. walk'.more \in BOOLEAN /\ ~walk'.more
      <4>1. (pageEnd < N) = FALSE
        BY <2>3
      <4> QED BY <1>10, <4>1, Zenon
    <3>2. pageEnd = N
      <4>1. N \in Nat
        BY ConfigNat
      <4> QED BY <1>4, <2>3, <4>1
    <3> QED BY <2>1, <3>1, <3>2
  <2> QED BY <2>2, <2>3
<1> HIDE DEF all
<1> QED BY <1>8, <1>9, <1>10, <1>11, <1>12 DEF WalkOK

LEMMA NextPageKeepsInv ==
  ASSUME IInv, NextPage
  PROVE  IInv'
<1>1. UNCHANGED <<files, observations, stamps, current, staging, batch, clock>>
  BY DEF NextPage, writerVars
<1>2. WalkOK'
  BY NextPageWalks DEF IInv
<1>3. LedgerOK' /\ StampsOK' /\ SnapshotOK'
  BY <1>1 DEF IInv, LedgerOK, held, validLedgerFile, StampsOK, SnapshotOK, goodRows, real
<1>4. SweepOK'
  BY <1>1 DEF IInv, SweepOK, goodRows, real, baseRow, shows
<1>5. BatchOK'
  BY <1>1 DEF IInv, BatchOK, batchEnd, goodAttempt, held
<1>6. StampHidesNothing'
  BY <1>1 DEF IInv, StampHidesNothing, unchanged
<1> QED BY <1>2, <1>3, <1>4, <1>5, <1>6 DEF IInv

LEMMA InitInv ==
  ASSUME Init
  PROVE  IInv
<1>1. LedgerOK
  <2>1. clock \in Nat \ {0}
    BY Configuration DEF Init
  <2>2. PICK ledger \in InitialLedgers :
          files = [o \in Operations |-> IF o \in DOMAIN ledger THEN ledger[o] ELSE NoFile]
    BY DEF Init
  <2>3. ASSUME NEW o \in Operations
        PROVE  files[o] = NoFile \/ (validLedgerFile(files[o], clock) /\ held(o, files[o]))
    <3>1. CASE o \in DOMAIN ledger
      <4>1. files[o] = ledger[o] /\ clock = StartTime
        BY <2>2, <3>1 DEF Init
      <4>2. validLedgerFile(ledger[o], StartTime)
        BY <3>1, LedgerAssumption
      <4>3. held(o, files[o])
        BY DEF Init, held
      <4> QED BY <4>1, <4>2, <4>3
    <3>2. CASE o \notin DOMAIN ledger
      BY <2>2, <3>2
    <3> QED BY <3>1, <3>2
  <2> QED BY <2>1, <2>2, <2>3 DEF LedgerOK
<1>2. StampsOK
  <2>1. \A o \in Operations : Unknown <= files[o].version
    BY <1>1, FilesTyped DEF AnyFile, Unknown
  <2> QED BY <2>1 DEF StampsOK, Init
<1>3. SnapshotOK /\ SweepOK /\ BatchOK
  BY DEF Init, SnapshotOK, SweepOK, BatchOK
<1>4. WalkOK
  <2>1. walk = [seen |-> <<>>, more |-> TRUE]
    BY DEF Init, NoWalk
  <2>2. walk.seen = <<>> /\ walk.more = TRUE
    BY <2>1
  <2>3. Len(walk.seen) = 0
    BY <2>2
  <2>4. walk.seen = [i \in 1 .. Len(walk.seen) |-> i]
    <3>1. 1 .. Len(walk.seen) = {}
      BY <2>3
    <3> QED BY <2>2, <3>1
  <2>5. walk.seen \in Seq(Nat)
    BY <2>2
  <2> QED BY <2>1, <2>2, <2>3, <2>4, <2>5, ConfigNat DEF WalkOK
<1>5. StampHidesNothing
  BY DEF Init, StampHidesNothing, Unknown
<1> QED BY <1>1, <1>2, <1>3, <1>4, <1>5 DEF IInv

LEMMA NextKeepsInv ==
  ASSUME IInv, Next
  PROVE  IInv'
<1>1. CASE BeginBatch
  BY <1>1, BeginBatchKeepsInv
<1>2. CASE ExpireBatch \/ RejectBatch \/ ReadFails
  BY <1>2, AbortKeepsInv DEF ExpireBatch, RejectBatch, ReadFails
<1>3. CASE StatFile
  BY <1>3, StatFileKeepsInv
<1>4. CASE ReadFile
  BY <1>4, ReadFileKeepsInv
<1>5. CASE StageBatch
  BY <1>5, StageBatchKeepsInv
<1>6. CASE PublishSweep
  BY <1>6, PublishSweepKeepsInv
<1>7. CASE Restart
  BY <1>7, RestartKeepsInv
<1>8. CASE NextPage
  BY <1>8, NextPageKeepsInv
<1>9. CASE Write
  <2>1. PICK o \in Operations : written(o)
    BY <1>9, WriteWrites DEF IInv
  <2> QED BY <2>1, WriteKeepsInv
<1>10. CASE Tick
  BY <1>10, TickKeepsInv
<1> QED BY <1>1, <1>2, <1>3, <1>4, <1>5, <1>6, <1>7, <1>8, <1>9, <1>10 DEF Next, ReaderStep

LEMMA StutterKeepsInv ==
  ASSUME IInv, UNCHANGED vars
  PROVE  IInv'
<1>1. UNCHANGED <<files, observations, stamps, current, staging, batch, walk, clock>>
  BY DEF vars
<1>2. sweepStep /\ readStep
  BY <1>1 DEF readStep, sweepStep
<1>3. BatchOK'
  BY <1>1 DEF IInv, BatchOK, batchEnd, goodAttempt, held
<1> QED BY <1>2, <1>3, ReadStepKeeps DEF IInv

\* The inductive invariant holds of the reader, the scheduler's process and
\* the clients together.
THEOREM IInvHolds == Spec => []IInv
<1>1. Init => IInv
  BY InitInv
<1>2. IInv /\ [Next]_vars => IInv'
  BY NextKeepsInv, StutterKeepsInv
<1> QED BY <1>1, <1>2, PTL DEF Spec

\* A file that has not changed since its stamp was committed is not read
\* again, and what it says of this plan is published
\* (commitReadModelAttemptBatches), for every plan order, batch size and
\* interleaving of the scheduler's writes with the two looks at a stamp.
THEOREM StampHidesNothingHolds == Spec => []StampHidesNothing
<1>1. IInv => StampHidesNothing
  BY DEF IInv
<1> QED BY <1>1, IInvHolds, PTL

-----------------------------------------------------------------------------
(* Pages and rollups.                                                       *)

\* The operations that show an observation state now.
showing(state) == {o \in Operations : pageRow(o).observation = state}

LEMMA CountsAre ==
  ASSUME DOMAIN current.rows = Operations
  PROVE  LET c == identityCounts(current.rows, clock)
         IN  /\ c.known = Cardinality(Operations)
             /\ c.pass = Cardinality(showing("current_pass"))
             /\ c.fail = Cardinality(showing("current_fail"))
             /\ c.indeterminate = Cardinality(showing("current_indeterminate"))
             /\ c.stale = Cardinality(showing("stale"))
<1> DEFINE now == [o \in Operations |-> refreshOperationReadModelFreshness(current.rows[o], clock)]
           of(state) == count(now, LAMBDA r : r.observation = state)
<1>1. ASSUME NEW state
      PROVE  of(state) = Cardinality(showing(state))
  <2>1. {o \in DOMAIN now : now[o].observation = state} = showing(state)
    BY DEF showing, pageRow
  <2> QED BY <2>1 DEF count
<1>2. LET c == identityCounts(current.rows, clock)
      IN  /\ c.known = Cardinality(Operations)
          /\ c.pass = of("current_pass") /\ c.fail = of("current_fail")
          /\ c.indeterminate = of("current_indeterminate") /\ c.stale = of("stale")
  BY DEF identityCounts
<1> HIDE DEF of
<1> QED BY <1>1, <1>2

\* The current operations are counted once each, and all of them when they
\* are as many as there are operations.
LEMMA CountsFit ==
  ASSUME DOMAIN current.rows = Operations, NEW c, c = identityCounts(current.rows, clock)
  PROVE  /\ c.known = N
         /\ c.pass \in Nat /\ c.fail \in Nat /\ c.indeterminate \in Nat /\ c.stale \in Nat
         /\ c.pass + c.fail + c.indeterminate <= N
         /\ c.pass = N => showing("current_pass") = Operations
<1> DEFINE P == showing("current_pass")
           F == showing("current_fail")
           I == showing("current_indeterminate")
           S == showing("stale")
<1>1. /\ c.known = Cardinality(Operations) /\ c.pass = Cardinality(P)
      /\ c.fail = Cardinality(F) /\ c.indeterminate = Cardinality(I)
      /\ c.stale = Cardinality(S)
  BY CountsAre
<1>2. /\ P \subseteq Operations /\ F \subseteq Operations /\ I \subseteq Operations
      /\ S \subseteq Operations
  BY DEF showing
<1>3. P \cap F = {} /\ (P \cup F) \cap I = {}
  BY DEF showing
<1> HIDE DEF P, F, I, S
<1>4. IsFiniteSet(Operations) /\ Cardinality(Operations) = N
  BY FS_Interval, ConfigNat DEF Operations
<1>5. /\ IsFiniteSet(P) /\ IsFiniteSet(F) /\ IsFiniteSet(I) /\ IsFiniteSet(S)
      /\ Cardinality(Operations) = Cardinality(P) => Operations = P
  BY <1>2, <1>4, FS_Subset
<1>6. /\ Cardinality(P) \in Nat /\ Cardinality(F) \in Nat /\ Cardinality(I) \in Nat
      /\ Cardinality(S) \in Nat
  BY <1>5, FS_CardinalityType
<1>7. IsFiniteSet(P \cup F) /\ Cardinality(P \cup F) = Cardinality(P) + Cardinality(F)
  <2>1. Cardinality(P \cap F) = 0
    BY <1>3, FS_EmptySet
  <2>2. /\ IsFiniteSet(P \cup F)
        /\ Cardinality(P \cup F) = Cardinality(P) + Cardinality(F) - Cardinality(P \cap F)
    BY <1>5, FS_Union
  <2> QED BY <1>6, <2>1, <2>2
<1>8. Cardinality((P \cup F) \cup I) = Cardinality(P) + Cardinality(F) + Cardinality(I)
  <2>1. Cardinality((P \cup F) \cap I) = 0
    BY <1>3, FS_EmptySet
  <2>2. Cardinality((P \cup F) \cup I)
          = Cardinality(P \cup F) + Cardinality(I) - Cardinality((P \cup F) \cap I)
    BY <1>5, <1>7, FS_Union
  <2> QED BY <1>6, <1>7, <2>1, <2>2
<1>9. Cardinality((P \cup F) \cup I) <= N
  <2>1. (P \cup F) \cup I \in SUBSET Operations
    BY <1>2
  <2> QED BY <1>4, <2>1, FS_Subset
<1> QED BY <1>1, <1>4, <1>5, <1>6, <1>8, <1>9 DEF P

LEMMA PageRowGood ==
  ASSUME IInv, current # NoSnapshot, NEW o \in Operations
  PROVE  /\ ValidatePublicProjection(pageRow(o), clock)
         /\ pageRow(o).observation \in Current =>
              \E e \in observations :
                /\ e.op = o /\ e.plan = Plan
                /\ e.category = pageRow(o).category
                /\ clock < e.observed + Period
         /\ pageRow(o).observation = "current_pass" => pageRow(o).category = "healthy"
<1> DEFINE row == current.rows[o]
<1>1. row \in Row /\ Timeless(row) /\ real(o, row) /\ clock \in Nat
  BY DEF IInv, SnapshotOK, goodRows, LedgerOK
<1>2. /\ pageRow(o).category = row.category
      /\ pageRow(o).observation = observationAt(row, clock)
  BY <1>1, RefreshGood DEF pageRow
<1>3. ValidatePublicProjection(pageRow(o), clock)
  BY <1>1, RefreshValid DEF pageRow
<1>4. observationAt(row, clock) \in Current => row.observed # 0 /\ isCurrent(row, clock)
  BY DEF observationAt, Current
<1>5. observationAt(row, clock) = "current_pass" => row.category = "healthy"
  BY DEF observationAt, ResultState
<1>6. ASSUME pageRow(o).observation \in Current
      PROVE  \E e \in observations :
               /\ e.op = o /\ e.plan = Plan
               /\ e.category = pageRow(o).category
               /\ clock < e.observed + Period
  <2> DEFINE e == [op |-> o, plan |-> Plan, category |-> row.category, observed |-> row.observed]
  <2>1. row.observed # 0 /\ isCurrent(row, clock)
    BY <1>2, <1>4, <1>6
  <2>2. e \in observations
    BY <1>1, <2>1 DEF real
  <2>3. /\ e.op = o /\ e.plan = Plan /\ e.category = pageRow(o).category
        /\ clock < e.observed + Period
    BY <1>2, <2>1 DEF isCurrent
  <2> QED BY <2>2, <2>3
<1> QED BY <1>2, <1>3, <1>5, <1>6

LEMMA PagesPublic ==
  ASSUME IInv
  PROVE  PublicPages
<1>1. /\ walk.seen = [i \in 1 .. Len(walk.seen) |-> i]
      /\ ~walk.more => Len(walk.seen) = N
  BY DEF IInv, WalkOK
<1>2. ASSUME served
      PROVE  /\ \A o \in Operations : ValidatePublicProjection(pageRow(o), clock)
             /\ EvidenceReal
             /\ Status.coverage = "observed" =>
                  \A o \in Operations : \E e \in observations :
                    e.op = o /\ e.plan = Plan /\ e.category = "healthy"
             /\ LookupAPIProgress = "current" <=>
                  Status.coverage \in {"observed", "provider_failures_present"}
             /\ LookupAPIProgress \in {"partial", "stale", "unobserved"} <=>
                  Status.coverage = "observations_incomplete"
  <2> DEFINE c == identityCounts(current.rows, clock)
  <2>1. current # NoSnapshot
    BY <1>2 DEF served
  <2>2. DOMAIN current.rows = Operations
    BY <2>1 DEF IInv, SnapshotOK, goodRows
  <2>3. \A o \in Operations : ValidatePublicProjection(pageRow(o), clock)
    BY <2>1, PageRowGood
  <2>4. EvidenceReal
    BY <2>1, PageRowGood DEF EvidenceReal, Current
  <2>5. Status.coverage = coverageState(c) /\ LookupAPIProgress = apiCoverageState(c)
    <3>1. Status.coverage = coverageState(c)
      BY <2>1 DEF Status
    <3>2. LookupAPIProgress = apiCoverageState(c)
      BY DEF LookupAPIProgress
    <3> QED BY <3>1, <3>2
  <2>6. /\ c.known = N
        /\ c.pass \in Nat /\ c.fail \in Nat /\ c.indeterminate \in Nat /\ c.stale \in Nat
        /\ c.pass + c.fail + c.indeterminate <= N
        /\ c.pass = N => showing("current_pass") = Operations
    BY <2>2, CountsFit
  <2> HIDE DEF c
  <2>7. coverageState(c) = "observed" =>
          \A o \in Operations : \E e \in observations :
            e.op = o /\ e.plan = Plan /\ e.category = "healthy"
    <3> SUFFICES ASSUME coverageState(c) = "observed", NEW o \in Operations
                 PROVE  \E e \in observations :
                          e.op = o /\ e.plan = Plan /\ e.category = "healthy"
      OBVIOUS
    <3>1. c.pass = N
      BY <2>6, ConfigNat DEF coverageState
    <3>2. pageRow(o).observation = "current_pass"
      BY <2>6, <3>1 DEF showing
    <3> QED BY <2>1, <3>2, PageRowGood DEF Current
  <2>8. apiCoverageState(c) = "current" <=>
          coverageState(c) \in {"observed", "provider_failures_present"}
    BY <2>6, ConfigNat DEF coverageState, apiCoverageState
  <2>9. apiCoverageState(c) \in {"partial", "stale", "unobserved"} <=>
          coverageState(c) = "observations_incomplete"
    <3>1. CASE c.pass + c.fail + c.indeterminate < N
      <4>1. c.known # 0 /\ c.pass + c.fail + c.indeterminate # c.known
        BY <2>6, <3>1, ConfigNat
      <4>2. coverageState(c) = "observations_incomplete"
        BY <2>6, <3>1, <4>1 DEF coverageState
      <4>3. apiCoverageState(c) \in {"partial", "stale", "unobserved"}
        BY <4>1 DEF apiCoverageState
      <4> QED BY <4>2, <4>3
    <3>2. CASE c.pass + c.fail + c.indeterminate = N
      <4>1. c.known # 0 /\ ~(c.pass + c.fail + c.indeterminate < c.known)
        BY <2>6, <3>2, ConfigNat
      <4>2. coverageState(c) # "observations_incomplete"
        BY <4>1 DEF coverageState
      <4>3. apiCoverageState(c) \in {"current_indeterminate", "current"}
        BY <2>6, <3>2, <4>1 DEF apiCoverageState
      <4> QED BY <4>2, <4>3
    <3> QED BY <2>6, <3>1, <3>2, ConfigNat
  <2> QED BY <2>3, <2>4, <2>5, <2>7, <2>8, <2>9
<1> QED BY <1>1, <1>2 DEF PublicPages

\* Whatever sweeps replace the snapshot between two pages, the pages that a
\* client collects are each operation once and in order, a served snapshot
\* answers every page, what it and the coverage report as current is real, and
\* the progress of an API agrees with the coverage of the whole
\* (PageOperations, ValidatePublicProjection, identityCounts).
THEOREM PublicPagesHold == Spec => []PublicPages
<1>1. IInv => PublicPages
  BY PagesPublic
<1> QED BY <1>1, IInvHolds, PTL

-----------------------------------------------------------------------------
(* Plans that do not come back.                                             *)

LEMMA NoFilePoisons ==
  ASSUME IInv, ~Rollback
  PROVE  NoFilePoisonsSweep /\ BatchAccepted
<1>1. NoFilePoisonsSweep
  <2> SUFFICES ASSUME NEW o \in Operations, files[o].version > 0
               PROVE  acceptsAttempt(IF sweeping THEN staging.rows[o] ELSE staticRow,
                                     operationReadModelAttemptFromState(files[o]), clock)
    BY DEF NoFilePoisonsSweep
  <2>1. (IF sweeping THEN staging.rows[o] ELSE staticRow) \in Row
    BY SweepFacts, StaticRowGood DEF sweeping, goodRows
  <2>2. goodAttempt(operationReadModelAttemptFromState(files[o]))
    BY FilesTyped, ValidFileGood DEF IInv
  <2>3. clock \in Nat
    BY DEF IInv, LedgerOK
  <2> QED BY <2>1, <2>2, <2>3, AcceptsGood
<1>2. BatchAccepted
  <2> SUFFICES ASSUME batchRead, NEW o \in DOMAIN batch.attempts
               PROVE  acceptsAttempt(staging.rows[o], batch.attempts[o], batch.at)
    BY DEF BatchAccepted, accepted
  <2>1. /\ staging # NoSweep /\ o \in Operations /\ batch.at \in Nat
        /\ goodAttempt(batch.attempts[o])
    BY BatchFacts DEF batchRead
  <2>2. staging.rows[o] \in Row
    BY <2>1, SweepFacts DEF goodRows
  <2> QED BY <2>1, <2>2, AcceptsGood
<1> QED BY <1>1, <1>2

\* Under plans that do not come back, no file that the ledger can hold makes a
\* sweep fail (applyAttempts): the sticky bit knows the request behind every
\* result of the file's own plan.
THEOREM NoFilePoisonsSweepHolds ==
  ASSUME ~Rollback
  PROVE  Spec => []NoFilePoisonsSweep
<1>1. IInv => NoFilePoisonsSweep
  BY NoFilePoisons
<1> QED BY <1>1, IInvHolds, PTL

\* Under plans that do not come back, a batch that has been read is never
\* refused, however old what it read has become in the meantime: only its age
\* or a file that cannot be read discards a sweep (refreshNextBatch).
THEOREM BatchAcceptedHolds ==
  ASSUME ~Rollback
  PROVE  Spec => []BatchAccepted
<1>1. IInv => BatchAccepted
  BY NoFilePoisons
<1> QED BY <1>1, IInvHolds, PTL

\* What the reader selects from a good projection, as an instant.
LEMMA ShownNat ==
  ASSUME NEW a, goodAttempt(a)
  PROVE  shown(a) \in Nat
<1>1. selectedAttempt(a) \in Attempt
  BY SelectedGood DEF goodAttempt
<1> QED BY <1>1 DEF shown, Attempt, Observation, NoObservation

\* What a file shows it covers, and it shows whatever of its own plan it covers.
LEMMA FileShown ==
  ASSUME IInv, ~Rollback, NEW o \in Operations, files[o].version > 0
  PROVE  LET a == operationReadModelAttemptFromState(files[o])
         IN  /\ covers(files[o], shown(a))
             /\ a.plan = Plan => \A t \in Nat : covers(files[o], t) => t <= shown(a)
<1> DEFINE a == operationReadModelAttemptFromState(files[o])
           s == selectedAttempt(a)
<1>1. /\ goodAttempt(a)
      /\ a.obs.plan = files[o].obs.plan /\ a.obs.observed = files[o].obs.observed
  BY FilesTyped, ValidFileGood, FromStateFields DEF IInv, AnyFile
<1>2. /\ hasObservation(s) => s.obs = a.obs /\ s.obs.plan = Plan
      /\ a.obs.plan = Plan => s.obs = a.obs
      /\ a \in Attempt
  BY <1>1, SelectedGood DEF goodAttempt
<1>3. a.obs.observed \in Nat /\ a.obs.plan \in Nat /\ Plan \in Nat
  <2>1. a.obs \in Observation \cup {NoObservation}
    BY <1>2 DEF Attempt
  <2>2. a.obs.observed \in Nat /\ a.obs.plan \in Plans \cup {0}
    BY <2>1 DEF Observation, NoObservation
  <2>3. \A p \in Plans : p \in Nat
    BY Configuration
  <2> QED BY <2>2, <2>3, ConfigNat
<1>4. a.obs.plan <= a.plan
  BY <1>1 DEF goodAttempt
<1>5. covers(files[o], shown(a))
  <2>1. CASE hasObservation(s)
    BY <1>1, <1>2, <1>3, <2>1 DEF covers, shown
  <2>2. CASE ~hasObservation(s)
    BY <2>2 DEF covers, shown, hasObservation, NoObservation
  <2> QED BY <2>1, <2>2
<1>6. ASSUME a.plan = Plan, NEW t \in Nat, covers(files[o], t)
      PROVE  t <= shown(a)
  <2>0. s.obs.observed \in Nat
    BY <1>1, ShownNat DEF shown
  <2>1. CASE t = 0
    BY <2>0, <2>1 DEF shown
  <2>2. CASE t # 0
    <3>1. files[o].obs.plan = Plan /\ t <= files[o].obs.observed
      BY <1>1, <1>3, <1>4, <1>6, <2>2 DEF covers
    <3> QED BY <1>1, <1>2, <3>1 DEF shown
  <2> QED BY <2>1, <2>2
<1> QED BY <1>5, <1>6

\* Applying a batch only makes results newer.
LEMMA AppliedNewer ==
  ASSUME IInv, Newer, batch # NoBatch, NEW o \in Operations
  PROVE  /\ staging.rows[o].observed \in Nat /\ appliedRows[o].observed \in Nat
         /\ staging.rows[o].observed <= appliedRows[o].observed
         /\ covers(files[o], appliedRows[o].observed)
<1>1. staging # NoSweep /\ batch.at \in Nat
  BY BatchFacts
<1>2. staging.rows[o] \in Row
  BY <1>1, SweepFacts DEF goodRows
<1>3. staging.rows[o].observed \in Nat
  BY <1>2 DEF Row
<1>4. CASE o \in DOMAIN batch.attempts /\ batch.attempts[o].plan = Plan
  <2> DEFINE a == batch.attempts[o]
  <2>1. goodAttempt(a)
    BY <1>4, BatchFacts
  <2>2. appliedRows[o] = appliedRow(staging.rows[o], a, batch.at)
    BY <1>4, AppliedRows DEF applyAttempt, bindingMatches
  <2>3. appliedRows[o].observed = shown(a)
    BY <1>1, <1>2, <2>1, <2>2, AppliedShows DEF goodAttempt, shown
  <2>4. covers(files[o], shown(a)) /\ staging.rows[o].observed <= shown(a)
    BY <1>4 DEF Newer
  <2> QED BY <1>3, <2>1, <2>3, <2>4, ShownNat
<1>5. CASE ~(o \in DOMAIN batch.attempts /\ batch.attempts[o].plan = Plan)
  <2>1. appliedRows[o] = staging.rows[o]
    BY <1>5, AppliedRows DEF applyAttempt, bindingMatches
  <2>2. covers(files[o], staging.rows[o].observed)
    BY <1>1 DEF Newer
  <2> QED BY <1>3, <2>1, <2>2
<1> QED BY <1>4, <1>5

LEMMA BaseNat ==
  ASSUME IInv, NEW o \in Operations
  PROVE  /\ baseRow(o).observed \in Nat
         /\ Newer => covers(files[o], baseRow(o).observed)
<1>1. CASE current = NoSnapshot
  BY <1>1 DEF baseRow, staticRow, covers
<1>2. CASE current # NoSnapshot
  <2>1. current.rows[o] \in Row
    BY <1>2 DEF IInv, SnapshotOK, goodRows
  <2> QED BY <1>2, <2>1 DEF baseRow, Row, Newer
<1> QED BY <1>1, <1>2

LEMMA WriteKeepsNewer ==
  ASSUME IInv, Newer, ~Rollback, NEW o \in Operations, written(o)
  PROVE  Newer'
<1>u. /\ current' = current /\ staging' = staging /\ batch' = batch
  BY DEF written, readerVars
<1>1. ASSUME NEW p \in Operations, NEW t \in Nat, covers(files[p], t)
      PROVE  covers(files'[p], t)
  <2>1. CASE p = o
    BY <1>1, <2>1 DEF written
  <2>2. CASE p # o
    <3>1. files'[p] = files[p]
      BY <2>2 DEF written, IInv, LedgerOK
    <3> QED BY <1>1, <3>1
  <2> QED BY <2>1, <2>2
<1>2. ASSUME current # NoSnapshot, NEW p \in Operations
      PROVE  covers(files'[p], current.rows[p].observed)
  <2>1. current.rows[p].observed \in Nat
    BY <1>2 DEF IInv, SnapshotOK, goodRows, Row
  <2> QED BY <1>1, <1>2, <2>1 DEF Newer
<1>3. ASSUME staging # NoSweep, NEW p \in Operations
      PROVE  covers(files'[p], staging.rows[p].observed)
  <2>1. staging.rows[p].observed \in Nat
    BY <1>3, SweepFacts DEF goodRows, Row
  <2> QED BY <1>1, <1>3, <2>1 DEF Newer
<1>4. ASSUME batch # NoBatch, NEW p \in DOMAIN batch.attempts, batch.attempts[p].plan = Plan
      PROVE  covers(files'[p], shown(batch.attempts[p]))
  <2>1. p \in Operations /\ goodAttempt(batch.attempts[p])
    BY <1>4, BatchFacts
  <2> QED BY <1>1, <1>4, <2>1, ShownNat DEF Newer
<1>5. \A p : baseRow(p)' = baseRow(p)
  BY <1>u DEF baseRow
<1> QED BY <1>u, <1>2, <1>3, <1>4, <1>5 DEF Newer

\* Steps that leave the files and the snapshot alone.
LEMMA NewerStays ==
  ASSUME Newer, files' = files, current' = current, staging' = staging, batch' = batch
  PROVE  Newer'
<1>1. \A p : baseRow(p)' = baseRow(p)
  BY DEF baseRow
<1> QED BY <1>1 DEF Newer

LEMMA NextKeepsNewer ==
  ASSUME IInv, Newer, ~Rollback, Next
  PROVE  Newer'
<1>1. CASE BeginBatch
  <2>1. /\ sweepStep
        /\ staging' = IF staging # NoSweep THEN staging ELSE newSweep
        /\ batch' = [NoBatch EXCEPT !.at = clock, !.next = staging'.offset + 1]
    BY <1>1 DEF BeginBatch, sweepStep, writerVars, sweeping
  <2>2. files' = files /\ current' = current /\ DOMAIN batch'.attempts = {}
    BY <2>1 DEF sweepStep, NoBatch
  <2>3. \A o : baseRow(o)' = baseRow(o)
    BY <2>2 DEF baseRow
  <2>4. ASSUME NEW o \in Operations
        PROVE  /\ covers(files[o], staging'.rows[o].observed)
               /\ baseRow(o).observed <= staging'.rows[o].observed
    <3>1. CASE staging # NoSweep
      BY <2>1, <3>1 DEF Newer
    <3>2. CASE staging = NoSweep
      <4>1. staging'.rows[o] = baseRow(o)
        BY <2>1, <3>2, BaseRowsGood
      <4> QED BY <4>1, BaseNat
    <3> QED BY <3>1, <3>2
  <2> QED BY <2>2, <2>3, <2>4 DEF Newer
<1>2. CASE ExpireBatch \/ RejectBatch \/ ReadFails
  <2>1. /\ files' = files /\ current' = current /\ staging' = NoSweep /\ batch' = NoBatch
    BY <1>2 DEF ExpireBatch, RejectBatch, ReadFails, abortRefresh, writerVars
  <2> QED BY <2>1 DEF Newer
<1>3. CASE StatFile
  <2>1. /\ reading /\ files' = files /\ current' = current /\ staging' = staging
    BY <1>3 DEF StatFile, writerVars
  <2>2. batch # NoBatch /\ batch'.attempts = batch.attempts
    <3>1. /\ batch # NoBatch
          /\ batch = [at |-> batch.at, next |-> batch.next, stat |-> batch.stat,
                      attempts |-> batch.attempts, updates |-> batch.updates]
      BY <2>1, ReadingFacts
    <3> QED BY <1>3, <3>1 DEF StatFile
  <2>3. \A o : baseRow(o)' = baseRow(o)
    BY <2>1 DEF baseRow
  <2> QED BY <2>1, <2>2, <2>3 DEF Newer
<1>4. CASE ReadFile
  <2> DEFINE o == batch.next
             read == operationReadModelAttemptFromState(files[o])
  <2>1. /\ reading /\ files' = files /\ current' = current /\ staging' = staging
        /\ batch.stat # Unknown
    BY <1>4 DEF ReadFile, writerVars
  <2>2. /\ batch # NoBatch /\ o \in Operations /\ files[o].version \in Nat
        /\ batch = [at |-> batch.at, next |-> batch.next, stat |-> batch.stat,
                    attempts |-> batch.attempts, updates |-> batch.updates]
    BY <2>1, ReadingFacts
  <2>3. staging # NoSweep /\ batch.stat \in (Nat \ {0}) \cup {Unknown}
    BY <2>2, BatchFacts
  <2>4. \/ batch'.attempts = batch.attempts
        \/ /\ batch'.attempts = with(batch.attempts, o, read)
           /\ files[o].version = batch.stat
    BY <1>4, <2>2 DEF ReadFile
  <2>5. \A p : baseRow(p)' = baseRow(p)
    BY <2>1 DEF baseRow
  <2>6. CASE batch'.attempts = batch.attempts
    BY <2>1, <2>2, <2>5, <2>6 DEF Newer
  <2>7. CASE batch'.attempts = with(batch.attempts, o, read) /\ files[o].version = batch.stat
    <3>1. files[o].version > 0
      BY <2>1, <2>2, <2>3, <2>7
    <3>2. staging.rows[o].observed \in Nat /\ covers(files[o], staging.rows[o].observed)
      BY <2>2, <2>3, SweepFacts DEF goodRows, Row, Newer
    <3>3. /\ covers(files[o], shown(read))
          /\ read.plan = Plan => staging.rows[o].observed <= shown(read)
      BY <2>2, <3>1, <3>2, FileShown
    <3>4. /\ DOMAIN batch'.attempts = DOMAIN batch.attempts \cup {o}
          /\ batch'.attempts[o] = read
          /\ \A p \in DOMAIN batch.attempts : p # o => batch'.attempts[p] = batch.attempts[p]
      BY <2>7 DEF with
    <3>5. ASSUME NEW p \in DOMAIN batch'.attempts, batch'.attempts[p].plan = Plan
          PROVE  /\ covers(files[p], shown(batch'.attempts[p]))
                 /\ staging.rows[p].observed <= shown(batch'.attempts[p])
      <4>1. CASE p = o
        BY <3>3, <3>4, <3>5, <4>1
      <4>2. CASE p # o
        BY <2>2, <3>4, <3>5, <4>2 DEF Newer
      <4> QED BY <4>1, <4>2
    <3> QED BY <2>1, <2>5, <3>5 DEF Newer
  <2> QED BY <2>4, <2>6, <2>7
<1>5. CASE StageBatch
  <2>1. /\ batch # NoBatch /\ batch' = NoBatch /\ files' = files /\ current' = current
        /\ staging' = [staging EXCEPT !.rows = appliedRows, !.offset = batchEnd,
                                      !.updates = stagedUpdates]
    BY <1>5 DEF StageBatch, batchRead, writerVars
  <2>2. staging # NoSweep
    BY <2>1, BatchFacts
  <2>3. staging'.rows = appliedRows
    <3>1. staging = [rows |-> staging.rows, offset |-> staging.offset, at |-> staging.at,
                     updates |-> staging.updates]
      BY <2>2 DEF IInv, SweepOK
    <3> QED BY <2>1, <3>1
  <2>4. ASSUME NEW o \in Operations
        PROVE  /\ covers(files[o], appliedRows[o].observed)
               /\ baseRow(o).observed <= appliedRows[o].observed
    <3>1. baseRow(o).observed \in Nat /\ baseRow(o).observed <= staging.rows[o].observed
      BY <2>2, BaseNat DEF Newer
    <3> QED BY <2>1, <3>1, AppliedNewer
  <2>5. \A o : baseRow(o)' = baseRow(o)
    BY <2>1 DEF baseRow
  <2> QED BY <2>1, <2>2, <2>3, <2>4, <2>5 DEF Newer
<1>6. CASE PublishSweep
  <2>1. /\ batch # NoBatch /\ files' = files /\ current'.rows = appliedRows
        /\ staging' = NoSweep /\ batch' = NoBatch
    BY <1>6 DEF PublishSweep, batchRead, writerVars
  <2> QED BY <2>1, AppliedNewer DEF Newer
<1>7. CASE Restart
  BY <1>7 DEF Restart, Newer
<1>8. CASE NextPage \/ Tick
  BY <1>8, NewerStays DEF NextPage, Tick, writerVars, readerVars
<1>9. CASE Write
  <2>1. PICK o \in Operations : written(o)
    BY <1>9, WriteWrites DEF IInv
  <2> QED BY <2>1, WriteKeepsNewer
<1> QED BY <1>1, <1>2, <1>3, <1>4, <1>5, <1>6, <1>7, <1>8, <1>9 DEF Next, ReaderStep

\* From the ledger to the snapshot, results only become newer.
THEOREM NewerHolds ==
  ASSUME ~Rollback
  PROVE  Spec => []Newer
<1>1. Init => Newer
  BY DEF Init, Newer
<1>2. IInv /\ Newer /\ [Next]_vars => Newer'
  BY NextKeepsNewer, NewerStays DEF vars
<1> QED BY <1>1, <1>2, IInvHolds, PTL DEF Spec

LEMMA NextTakesNothingBack ==
  ASSUME IInv, Newer, Next, current # NoSnapshot, current' # NoSnapshot, NEW o \in Operations
  PROVE  current'.rows[o].observed >= current.rows[o].observed
<1>1. current.rows[o].observed \in Nat
  BY DEF IInv, SnapshotOK, goodRows, Row
<1>2. CASE PublishSweep
  <2>1. batch # NoBatch /\ current'.rows = appliedRows
    BY <1>2 DEF PublishSweep, batchRead
  <2>2. staging # NoSweep
    BY <2>1, BatchFacts
  <2>3. current.rows[o].observed <= staging.rows[o].observed
    BY <2>2 DEF Newer, baseRow
  <2> QED BY <1>1, <2>1, <2>3, AppliedNewer
<1>3. CASE ~PublishSweep
  <2>1. current' = current
    <3>1. CASE Write
      <4>1. PICK p \in Operations : written(p)
        BY <3>1, WriteWrites DEF IInv
      <4> QED BY <4>1 DEF written, readerVars
    <3>2. CASE ReaderStep \/ ReadFails \/ NextPage \/ Tick
      BY <1>3, <3>2 DEF ReaderStep, BeginBatch, ExpireBatch, StatFile, ReadFile, RejectBatch,
                        StageBatch, ReadFails, abortRefresh, NextPage, Tick, readerVars
    <3>3. CASE Restart
      BY <3>3 DEF Restart
    <3> QED BY <3>1, <3>2, <3>3 DEF Next
  <2> QED BY <1>1, <2>1
<1> QED BY <1>2, <1>3

\* A published result is never taken back: under plans that do not come back,
\* the result shown for an operation only becomes newer from one snapshot of
\* a process to the next, whatever aborted sweeps, files replaced while they
\* are read and attempts without a result lie in between
\* (cloneOperationReadModelForRefresh, applyAttempts).
THEOREM NothingTakenBackHolds ==
  ASSUME ~Rollback
  PROVE  Spec => NothingTakenBack
<1>1. IInv /\ Newer /\ [Next]_vars =>
        [current # NoSnapshot /\ current' # NoSnapshot =>
           \A o \in Operations : current'.rows[o].observed >= current.rows[o].observed]_vars
  BY NextTakesNothingBack
<1> QED BY <1>1, IInvHolds, NewerHolds, PTL DEF Spec, NothingTakenBack
=============================================================================
