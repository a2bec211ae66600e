------------------------ MODULE OperationHistoryStore ------------------------
(***************************************************************************)
(* The bounded receipt history and its publication.  A worker reserves room  *)
(* for a receipt before it sends a request, appends the receipt afterwards,  *)
(* or cancels.  A publisher takes the oldest pending receipts as a frozen    *)
(* batch, uploads them, and acknowledges the batch; the receipts are then    *)
(* removed and an index entry per operation stays.                           *)
(*                                                                           *)
(* The directory is open in one scheduler process at a time, and outlives it: *)
(* the next process may be of another release.  Every receipt that is read    *)
(* back is validated, and a program validates the receipts of its own release. *)
(*                                                                           *)
(* One caller at a time holds store.lock.  It repairs what an earlier caller *)
(* left unfinished, decides what to write, and writes it file by file; each  *)
(* write is an action.  Fail is the death of the caller, or a write that     *)
(* fails, between any two of them.                                           *)
(***************************************************************************)
EXTENDS OperationHistoryFiles

CONSTANTS
  OverlappingAttempts,  \* may two workers run attempts of one operation at a time?
  MaxTokens             \* bound: reservations ever made

ASSUME OverlapAssumption == OverlappingAttempts \in BOOLEAN

VARIABLES
  release,    \* the release of the program that runs
  opened,     \* has it opened the store?
  disk,       \* the directory
  holder,     \* what the holder of store.lock is doing
  writes,     \* the stages of writes it has left
  reply,      \* what it will return
  begun,      \* operation -> the generation of its last attempt
  live,       \* the reservations in the hands of workers
  nextToken,
  refs,       \* the receipts whose append was reported as durable
  handed,     \* the batches that were given to a publisher
  confirmed   \* the batches whose upload a publisher has verified

processVars == <<release, opened>>
lockVars == <<holder, writes, reply>>
callerVars == <<begun, live, nextToken, refs, handed, confirmed>>
vars == <<processVars, disk, lockVars, callerVars>>

NoReply == [kind |-> "none"]

Init ==
  /\ release \in Release /\ opened = FALSE
  /\ disk = EmptyDirectory
  /\ holder = "free" /\ writes = << >> /\ reply = NoReply
  /\ begun = [o \in Operation |-> 0]
  /\ live = {} /\ nextToken = 1 /\ refs = {} /\ handed = {} /\ confirmed = {}

-----------------------------------------------------------------------------
(***************************************************************************)
(* The lock, and recovery.                                                  *)
(***************************************************************************)

marked == only("marker", TRUE)

\* beginMutationLocked, the writes of a call, finishMutationLocked.
mutation(ws, usage) == <<marked>> \o ws \o <<only("usage", usage), drop("marker")>>

nothingLeft == \A k \in DOMAIN writes : writes[k] = {}

begins(ws, answer) ==
  /\ holder' = "writing" /\ writes' = ws /\ reply' = answer
  /\ UNCHANGED disk

\* Mutant of replayStages: no rebuild marker protects the old usage.
replayStagesUnmarked ==
  IF Exists(disk, "publication")
  THEN applyStages(disk, Only(disk, "publication")) \o <<drop("publication")>>
  ELSE << >>

\* The marker outlives the transaction, so that a crash in between still leads
\* to a rebuild.
replayStages ==
  <<marked>> \o (IF Exists(disk, "publication")
                 THEN applyStages(disk, Only(disk, "publication")) \o <<drop("publication")>>
                 ELSE << >>)

\* readStoredRecord: a program of release p validates those records of the
\* attempts S that are there.
readable(p, S) == \A i \in S \cap DOMAIN disk.records : resolves(p, i)

\* applyPublicationTransactionLocked, up to its first write, as part of a rebuild.
replayable(p, tx) == applicable(disk, tx) /\ readable(p, identitiesOf(tx.batch))

\* rebuildUsageLocked by a program of release p, up to the removal of the
\* publication transaction.
startsRebuild(p) ==
  IF Exists(disk, "publication") => replayable(p, Only(disk, "publication"))
  THEN holder' = "replaying" /\ writes' = replayStages
  ELSE holder' = "refused" /\ writes' = <<marked>>

\* withLock and ensureUsageLocked.
TakeLock ==
  /\ holder = "free" /\ opened
  /\ IF needsRebuild(disk) THEN startsRebuild(release)
                           ELSE holder' = "ready" /\ writes' = << >>
  /\ UNCHANGED <<processVars, disk, reply, callerVars>>

\* OpenOperationHistoryStore rebuilds in any case.  The process before it has
\* ended, and its workers with it.
Open(p) ==
  /\ holder = "free"
  /\ startsRebuild(p)
  /\ release' = p /\ opened' = FALSE /\ live' = {}
  /\ UNCHANGED <<disk, reply, begun, nextToken, refs, handed, confirmed>>

\* The rest of rebuildUsageLocked, from the scan of the directories.  Indices
\* are added and reservations removed before the totals are compared with the
\* limits; corrupt files, or a record that the program does not validate, stop
\* the scan after some of the indices.
Scan ==
  LET removed == {remove("reservations", i) : i \in settledReservations(disk)}
      u == accountedUsage(disk)
  IN  /\ holder = "replaying" /\ nothingLeft
      /\ IF consistent(disk) /\ readable(release, DOMAIN disk.records)
         THEN /\ holder' = IF fits(u) THEN "rebuilding" ELSE "refused"
              /\ writes' = <<missingSequences(disk), removed>>
                             \o (IF fits(u) THEN <<only("usage", u), drop("marker")>>
                                           ELSE << >>)
         ELSE /\ holder' = "refused"
              /\ \E some \in SUBSET missingSequences(disk) :
                   /\ \A w \in some : resolves(release, w.content[1].identity)
                   /\ writes' = <<some>>
      /\ UNCHANGED <<processVars, disk, reply, callerVars>>

Rebuilt ==
  /\ holder = "rebuilding" /\ nothingLeft
  /\ holder' = "ready" /\ writes' = << >> /\ opened' = TRUE
  /\ UNCHANGED <<release, disk, reply, callerVars>>

Write ==
  /\ \E k \in DOMAIN writes :
       /\ \A j \in DOMAIN writes : j < k => writes[j] = {}
       /\ \E w \in writes[k] : /\ disk' = written(disk, w)
                              /\ writes' = [writes EXCEPT ![k] = @ \ {w}]
  /\ UNCHANGED <<processVars, holder, reply, callerVars>>

\* An attempt has one worker, which has one reservation.
takes(t) == live' = {u \in live : u.identity # t.identity} \cup {t}

\* What a caller has in hand once its call returns.
handsOver(answer) ==
  /\ IF answer.kind = "token" THEN takes(answer.it) ELSE UNCHANGED live
  /\ refs' = refs \cup (IF answer.kind = "ref" THEN {answer.it} ELSE {})
  /\ handed' = handed \cup (IF answer.kind = "batch" THEN {answer.it} ELSE {})

returnsNow(answer) ==
  /\ holder' = "free" /\ writes' = << >> /\ reply' = NoReply
  /\ handsOver(answer)
  /\ UNCHANGED disk

Return ==
  /\ holder \in {"ready", "writing", "refused"} /\ nothingLeft
  /\ returnsNow(reply)
  /\ UNCHANGED <<processVars, begun, nextToken, confirmed>>

\* A Reserve that fails after its marker returns the token with the error: the
\* worker may cancel with it.
Fail ==
  /\ holder # "free" /\ ~nothingLeft
  /\ holder' = "free" /\ writes' = << >> /\ reply' = NoReply
  /\ \/ UNCHANGED live
     \/ reply.kind = "token" /\ takes([reply.it EXCEPT !.may = "cancel"])
  /\ UNCHANGED <<processVars, disk, begun, nextToken, refs, handed, confirmed>>

-----------------------------------------------------------------------------
(***************************************************************************)
(* The calls.  Each finds the lock held and usage.json trusted.             *)
(***************************************************************************)

\* recordCapacityBlockLocked: the refusal is counted, up to the largest integer.
blocks ==
  LET u == usageOf(disk)
  IN  IF u.blocked = MaxBlocked THEN returnsNow(NoReply)
      ELSE /\ begins(mutation(<< >>, [u EXCEPT !.blocked = @ + 1]), NoReply)
           /\ UNCHANGED <<live, refs, handed>>

stale(i) ==
  /\ i.operation \in DOMAIN disk.index
  /\ i.generation <= disk.index[i.operation].identity.generation

\* The worker reserves right after it began the attempt, of its own release.
\* Generations grow; a later attempt overlaps an earlier one only if two workers
\* run.
attempts(i) ==
  /\ i.release = release
  /\ \/ OverlappingAttempts
     \/ /\ i.generation >= begun[i.operation]
        /\ \A t \in live : t.identity.operation = i.operation => t.identity = i

full(i) ==
  LET u == usageOf(disk)
  IN  \/ u.records + u.reservations >= MaxPendingRecords
      \/ u.reservations >= MaxReservations
      \/ /\ u.keys + u.records + u.reservations >= MaxOperationKeys
         /\ i.operation \notin DOMAIN disk.index
      \/ occupied(u) + ReservedBytes + Headroom > MaxBytes

token(i, t) == [kind |-> "token", it |-> [identity |-> i, token |-> t, may |-> "append"]]

reservedUsage(u) == [u EXCEPT !.reservations = @ + 1]

Reserve(i) ==
  /\ holder = "ready" /\ attempts(i)
  /\ ~stale(i) /\ i \notin DOMAIN disk.records
  /\ begun' = [begun EXCEPT ![i.operation] = IF @ > i.generation THEN @ ELSE i.generation]
  /\ \/ /\ i \in DOMAIN disk.reservations
        /\ returnsNow(token(i, disk.reservations[i])) /\ UNCHANGED nextToken
     \/ /\ i \notin DOMAIN disk.reservations /\ full(i)
        /\ blocks /\ UNCHANGED nextToken
     \/ /\ i \notin DOMAIN disk.reservations /\ ~full(i)
        /\ nextToken <= MaxTokens /\ nextToken' = nextToken + 1
        /\ begins(mutation(<<{put("reservations", i, nextToken)}>>, reservedUsage(usageOf(disk))),
                  token(i, nextToken))
        /\ UNCHANGED <<live, refs, handed>>
  /\ UNCHANGED <<processVars, confirmed>>

ref(i, r) == [kind |-> "ref", it |-> [identity |-> i, receipt |-> r]]

\* Mutant of sameReceipt: a second append of an identity is taken for a retry.
sameReceiptAny(stored, r) == TRUE

sameReceipt(stored, r) == stored = r

\* An append that was already done returns its reference; the reservation is
\* removed if it is still there.  Another token is noticed after the marker.
AppendAgain(i, r, t) ==
  /\ i \in DOMAIN disk.records /\ readable(release, {i})
  /\ sameReceipt(disk.records[i].receipt, r)
  /\ IF i \notin DOMAIN disk.reservations THEN returnsNow(ref(i, r))
     ELSE /\ IF t = disk.reservations[i]
             THEN begins(mutation(<<{remove("reservations", i)}>>,
                                  [usageOf(disk) EXCEPT !.reservations = @ - 1]), ref(i, r))
             ELSE begins(<<marked>>, NoReply)
          /\ UNCHANGED <<live, refs, handed>>

\* So does the append of the receipt that the index holds.
AppendPublished(i, r) ==
  /\ i \notin DOMAIN disk.records /\ i.operation \in DOMAIN disk.index
  /\ disk.index[i.operation].identity = i
  /\ sameReceipt(disk.index[i.operation].receipt, r)
  /\ returnsNow(ref(i, r))

AppendNew(i, r, t) ==
  LET u == usageOf(disk)
      s == nextSequence(u)
  IN  /\ i \notin DOMAIN disk.records /\ ~stale(i)
      /\ i \in DOMAIN disk.reservations /\ disk.reservations[i] = t
      /\ IF u.records >= MaxPendingRecords THEN blocks
         ELSE /\ begins(mutation(<<{put("records", i, [receipt |-> r, sequence |-> s])},
                                   {put("sequences", s, [identity |-> i, receipt |-> r])},
                                   {remove("reservations", i)}>>,
                                 [u EXCEPT !.used = @ + RecordCharge, !.records = @ + 1,
                                           !.reservations = @ - 1, !.accepted = @ + 1]),
                        ref(i, r))
              /\ UNCHANGED <<live, refs, handed>>

AppendValidated(i, r) ==
  /\ holder = "ready"
  /\ \E t \in live :
       /\ t.identity = i /\ t.may = "append"
       /\ AppendAgain(i, r, t.token) \/ AppendPublished(i, r) \/ AppendNew(i, r, t.token)
  /\ UNCHANGED <<processVars, begun, nextToken, confirmed>>

\* The worker cancels at most once and forgets the reservation.
CancelReservation(i) ==
  /\ holder = "ready"
  /\ \E t \in live :
       /\ t.identity = i /\ live' = live \ {t}
       /\ i \in DOMAIN disk.reservations /\ disk.reservations[i] = t.token
       /\ begins(mutation(<<{remove("reservations", i)}>>,
                          [usageOf(disk) EXCEPT !.reservations = @ - 1]), NoReply)
  /\ UNCHANGED <<processVars, begun, nextToken, refs, handed, confirmed>>

\* The worker forgets its reservation: it is done, or died.  What it reserved
\* stays reserved; nothing expires.  A call in progress does not notice, so it
\* is enough to let this happen between calls.
Abandon(t) ==
  /\ holder = "free" /\ t \in live
  /\ live' = live \ {t}
  /\ UNCHANGED <<processVars, disk, lockVars, begun, nextToken, refs, handed, confirmed>>

-----------------------------------------------------------------------------
(***************************************************************************)
(* Publication.                                                             *)
(***************************************************************************)

batch(b) == [kind |-> "batch", it |-> b]

\* Mutant of frozen: the batch is returned without its descriptor.
frozenNot(b) == {}

frozen(b) == only("descriptor", b)

\* writePendingBatchDescriptorLocked.
freezes(answer) ==
  LET b == pendingRefs(disk)
      u == usageOf(disk)
  IN  IF occupied(u) + DescriptorCharge + Tailroom > MaxBytes THEN blocks
      ELSE /\ begins(mutation(<<frozen(b)>>, [u EXCEPT !.used = @ + DescriptorCharge]), answer)
           /\ UNCHANGED <<live, refs, handed>>

selectable ==
  /\ usageOf(disk).records > 0
  /\ \A k \in DOMAIN pendingRefs(disk) : storedAs(disk, pendingRefs(disk)[k])
  /\ readable(release, identitiesOf(pendingRefs(disk)))

\* loadPendingOperationHistoryBatchLocked.
loadable(b) == Only(disk, "descriptor") = b /\ readable(release, identitiesOf(b))

PendingOperationHistoryBatch ==
  /\ holder = "ready"
  /\ IF Exists(disk, "descriptor")
     THEN loadable(Only(disk, "descriptor")) /\ returnsNow(batch(Only(disk, "descriptor")))
     ELSE selectable /\ freezes(batch(pendingRefs(disk)))
  /\ UNCHANGED <<processVars, begun, nextToken, confirmed>>

\* The writes of an acknowledged batch, after its transaction was encoded.
publication(tx) ==
  <<only("publication", tx)>> \o applyStages(disk, tx)
    \o <<only("usage", publishedUsage(disk, tx)), drop("publication")>>

\* AcknowledgeOperationHistoryBatch.  An older batch is refused or was already
\* acknowledged; selecting the current one freezes it all the same.  A
\* transaction that cannot be applied stays behind.
AcknowledgeOperationHistoryBatch(b) ==
  LET u == usageOf(disk)
      tx == transactionOf(disk, b)
  IN  /\ holder = "ready" /\ b \in handed
      /\ confirmed' = confirmed \cup {b}
      /\ IF ~Exists(disk, "descriptor") THEN selectable /\ freezes(NoReply)
         ELSE /\ loadable(b)
              /\ validTransaction(tx)
              /\ IF occupied(u) + 2 * TransactionCharge > MaxBytes THEN blocks
                 ELSE IF applicable(disk, tx)
                 THEN begins(publication(tx), NoReply) /\ UNCHANGED <<live, refs, handed>>
                 ELSE /\ holder' = "refused" /\ writes' = <<only("publication", tx)>>
                      /\ UNCHANGED <<disk, reply, live, refs, handed>>
      /\ UNCHANGED <<processVars, begun, nextToken>>

Next ==
  \/ TakeLock \/ Scan \/ Rebuilt \/ Write \/ Return \/ Fail
  \/ \E p \in Release : Open(p)
  \/ \E i \in Identity : Reserve(i) \/ CancelReservation(i)
  \/ \E i \in Identity, r \in Receipt : AppendValidated(i, r)
  \/ \E t \in live : Abandon(t)
  \/ PendingOperationHistoryBatch
  \/ \E b \in handed : AcknowledgeOperationHistoryBatch(b)

Spec == Init /\ [][Next]_vars

-----------------------------------------------------------------------------
(***************************************************************************)
(* Properties.                                                              *)
(***************************************************************************)

\* Whenever the next caller would trust usage.json, it says exactly what a
\* rebuild from the files would say: no crash, at whatever write of whatever
\* call, leaves room counted twice or not at all.
UsageExact ==
  ~needsRebuild(disk) => usageOf(disk) = accountedUsage(disk)

\* A receipt whose append was reported as durable stays in the store until a
\* batch that holds it was verified at the remote; crashes and later appends
\* included.
EvidenceKept ==
  \A e \in refs :
    \/ e.identity \in DOMAIN disk.records /\ disk.records[e.identity].receipt = e.receipt
    \/ \E b \in confirmed : \E k \in DOMAIN b :
         b[k].identity = e.identity /\ b[k].receipt = e.receipt

\* A batch does not change across publisher retries, restarts and appends: two
\* batches that were given to publishers are the same or share no receipt.
StableBatches ==
  \A b, c \in handed :
    b = c \/ \A j \in DOMAIN b, k \in DOMAIN c :
               b[j].sequence # c[k].sequence /\ b[j].identity # c[k].identity

\* One attempt has one receipt, however often its append is retried, before and
\* after publication.
OneReceiptPerAttempt ==
  \A e, f \in refs : e.identity = f.identity => e.receipt = f.receipt

\* From every crash, the next caller and the next start recover what the store
\* wrote, unless all receipts that wait for publication are of another release;
\* receipts of two releases never wait together, so the program of one release can
\* always open the store.
Reopens ==
  /\ holder = "refused" =>
       DOMAIN disk.records # {} /\ \A i \in DOMAIN disk.records : ~resolves(release, i)
  /\ \A i, j \in DOMAIN disk.records : i.release = j.release
=============================================================================
