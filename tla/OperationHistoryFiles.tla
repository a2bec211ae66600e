------------------------ MODULE OperationHistoryFiles ------------------------
(***************************************************************************)
(* The directory of the receipt history                                     *)
(* (internal/health/operation_history_store.go and                          *)
(* operation_history_publication.go): what its files hold, what may be      *)
(* written, and how usage is rebuilt from them.                             *)
(*                                                                           *)
(* A directory is a record of partial functions, one for every kind of file: *)
(* from the key in the file's name to its content.  A file that exists once  *)
(* has the key "only".  Files are written by an atomic rename followed by a  *)
(* directory sync, so a write happens or does not.  Digests are injective,   *)
(* so a digest stands for what it was taken of.  Sizes are in units chosen   *)
(* by the constants; a receipt has one size.                                 *)
(***************************************************************************)
EXTENDS Integers, Sequences, FiniteSets, Functions

CONSTANTS
  Operation,
  Release,          \* the plan and the CLI runtime that a program is built with
  Identity,         \* the attempts: an operation, a generation and a release
  Receipt,          \* contents of a validated receipt
  MaxBytes,         \* store.maxBytes
  ReservedBytes,    \* MaxOperationHistoryReservedBytes
  RecordCharge, IndexCharge, CheckpointCharge, DescriptorCharge, TransactionCharge,
  Headroom, Tailroom,   \* operationHistoryPublicationHeadroom, -Tailroom
  MaxReservations, MaxPendingRecords, MaxOperationKeys, MaxBatchRecords,
  MaxBlocked        \* where the counter of refused calls saturates

ASSUME ChargeAssumption ==
  /\ {RecordCharge, IndexCharge, CheckpointCharge, DescriptorCharge,
      TransactionCharge, ReservedBytes} \subseteq Nat \ {0}
  /\ RecordCharge <= ReservedBytes
  /\ DescriptorCharge + Tailroom <= Headroom
  /\ ReservedBytes + Headroom <= MaxBytes
  /\ {MaxBytes, Headroom, Tailroom, MaxReservations, MaxPendingRecords,
      MaxOperationKeys, MaxBlocked} \subseteq Nat
  /\ MaxBatchRecords \in Nat \ {0}

\* operationHistoryPendingRecordCharge: a record is charged 16 KiB more than its
\* file, for the index entry and the checkpoint that its publication may add.  Both
\* are files of fixed fields, a fraction of the 8 KiB that their readers accept.
ASSUME ReserveAssumption == IndexCharge + CheckpointCharge <= RecordCharge

\* OperationHistoryIdentity names the release whose program made the attempt.  The
\* attempt store gives every attempt of an operation its own generation.
ASSUME IdentityAssumption ==
  /\ Identity \subseteq [operation : Operation, generation : Nat \ {0}, release : Release]
  /\ \A i, j \in Identity :
       i.operation = j.operation /\ i.generation = j.generation => i = j

\* PinnedOperationPlanProbeExpectationResolver: a program of release p validates
\* the receipts of p, and of no other.
resolves(p, i) == i.release = p

\* operationHistoryAckRecord.
Ref == [identity : Identity, receipt : Receipt, sequence : Nat \ {0}]

EmptyDirectory ==
  [records |-> << >>,       \* identity -> stored record
   sequences |-> << >>,     \* sequence number -> identity and receipt
   reservations |-> << >>,  \* identity -> token
   index |-> << >>,         \* operation -> its last published record
   checkpoint |-> << >>, descriptor |-> << >>, publication |-> << >>,
   marker |-> << >>, usage |-> << >>]

Exists(d, file) == DOMAIN d[file] # {}
Only(d, file) == d[file]["only"]

put(file, key, content) == [file |-> file, key |-> key, content |-> <<content>>]
remove(file, key) == [file |-> file, key |-> key, content |-> << >>]

\* writePrivateBytesAtomic and removePrivateFile.
written(d, w) ==
  [d EXCEPT ![w.file] =
     IF w.content = << >> THEN Restrict(@, DOMAIN @ \ {w.key})
     ELSE [k \in DOMAIN @ \cup {w.key} |-> IF k = w.key THEN w.content[1] ELSE @[k]]]

-----------------------------------------------------------------------------
(***************************************************************************)
(* Usage.  NextSequence and VerifiedPublicationCount follow from the other  *)
(* counters; readUsage checks that they do.                                 *)
(***************************************************************************)

usageOf(d) == Only(d, "usage")
nextSequence(u) == u.accepted + 1
occupied(u) == u.used + u.reservations * ReservedBytes

\* readCheckpoint: a missing file is sequence 0.
checkpointOf(d) ==
  IF Exists(d, "checkpoint") THEN Only(d, "checkpoint")
  ELSE [sequence |-> 0, indexed |-> << >>, batch |-> << >>]

charge(d, file, units) == IF Exists(d, file) THEN units ELSE 0

\* A reservation whose record was written is not counted, and is removed.
settledReservations(d) == DOMAIN d.reservations \cap DOMAIN d.records

\* rebuildUsageLocked: the usage that the files add up to.
accountedUsage(d) ==
  [used |-> Cardinality(DOMAIN d.records) * RecordCharge
            + Cardinality(DOMAIN d.index) * IndexCharge
            + charge(d, "checkpoint", CheckpointCharge)
            + charge(d, "descriptor", DescriptorCharge),
   records |-> Cardinality(DOMAIN d.records),
   reservations |-> Cardinality(DOMAIN d.reservations \ settledReservations(d)),
   accepted |-> checkpointOf(d).sequence + Cardinality(DOMAIN d.records),
   keys |-> Cardinality(DOMAIN d.index),
   blocked |-> IF Exists(d, "usage") THEN usageOf(d).blocked ELSE 0]

-----------------------------------------------------------------------------
(***************************************************************************)
(* Publication.                                                             *)
(***************************************************************************)

refAt(d, s) ==
  [identity |-> d.sequences[s].identity, receipt |-> d.sequences[s].receipt, sequence |-> s]

\* The receipts 1..n after the checkpoint, n limited by the size of a batch.
pendingRefs(d) ==
  LET n == IF usageOf(d).records < MaxBatchRecords THEN usageOf(d).records
                                                   ELSE MaxBatchRecords
  IN  [k \in 1..n |-> refAt(d, checkpointOf(d).sequence + k)]

storedAs(d, r) ==
  /\ r.identity \in DOMAIN d.records
  /\ d.records[r.identity] = [receipt |-> r.receipt, sequence |-> r.sequence]
  /\ r.sequence \in DOMAIN d.sequences
  /\ d.sequences[r.sequence] = [identity |-> r.identity, receipt |-> r.receipt]

identitiesOf(b) == {b[k].identity : k \in DOMAIN b}
operationsOf(b) == {b[k].identity.operation : k \in DOMAIN b}

refsOf(b, o) == {b[k] : k \in {j \in DOMAIN b : b[j].identity.operation = o}}

\* The index entry a batch leaves: the operation's last record in it.
entry(b, o) == CHOOSE r \in refsOf(b, o) : \A q \in refsOf(b, o) : q.sequence <= r.sequence

\* operationHistoryIndexChangesLocked: the entries the batch replaces.
transactionOf(d, b) ==
  [batch |-> b, previous |-> Restrict(d.index, operationsOf(b) \cap DOMAIN d.index)]

\* validateOperationHistoryPublicationTransaction.
validTransaction(tx) ==
  \A o \in DOMAIN tx.previous :
    /\ tx.previous[o].sequence < tx.batch[1].sequence
    /\ \A r \in refsOf(tx.batch, o) : r.identity.generation > tx.previous[o].identity.generation

\* Mutant of replays: a transaction is applied only once.
replaysNever(d, tx) == FALSE

\* The checkpoint of the transaction is already written.
replays(d, tx) ==
  /\ checkpointOf(d).sequence = tx.batch[Len(tx.batch)].sequence
  /\ checkpointOf(d).batch = tx.batch

\* What applyPublicationTransactionLocked checks before its first write.
applicable(d, tx) ==
  LET b == tx.batch
      descriptorFound == Exists(d, "descriptor")
  IN  /\ \/ replays(d, tx)
         \/ checkpointOf(d).sequence + 1 = b[1].sequence /\ descriptorFound
      /\ descriptorFound => Only(d, "descriptor") = b
      /\ \A k \in DOMAIN b : b[k].identity \in DOMAIN d.records => storedAs(d, b[k])
      /\ \A j, k \in DOMAIN b :
           j < k /\ b[j].identity.operation = b[k].identity.operation
             => b[j].identity.generation < b[k].identity.generation
      /\ \A o \in operationsOf(b) :
           IF o \in DOMAIN d.index
           THEN \/ d.index[o] = entry(b, o)
                \/ o \in DOMAIN tx.previous /\ d.index[o] = tx.previous[o]
           ELSE o \notin DOMAIN tx.previous

\* The checkpoint after the batch: a digest of all index entries goes with it.
checkpointAfter(d, b) ==
  LET old == checkpointOf(d).indexed
  IN  [sequence |-> b[Len(b)].sequence, batch |-> b,
       indexed |-> [o \in DOMAIN old \cup operationsOf(b) |->
                      IF o \in operationsOf(b) THEN entry(b, o) ELSE old[o]]]

\* Writes come in stages: those of one stage in any order, the stages in turn.
\* A stage may be empty.
only(file, content) == {put(file, "only", content)}
drop(file) == {remove(file, "only")}

\* Mutant of removals: the pending directories are emptied.
removalsOfAll(d, b) ==
  <<{remove("records", i) : i \in DOMAIN d.records},
    {remove("sequences", s) : s \in DOMAIN d.sequences}>>

removals(d, b) ==
  [k \in 1..(2 * Len(b)) |->
     IF k % 2 = 1 THEN {remove("records", b[(k + 1) \div 2].identity)}
                  ELSE {remove("sequences", b[k \div 2].sequence)}]

\* applyPublicationTransactionLocked: receipts go first; the transaction is
\* what they can be recovered from.  Index files are written in map order.
applyStages(d, tx) ==
  removals(d, tx.batch)
    \o <<{put("index", o, entry(tx.batch, o)) : o \in operationsOf(tx.batch)}>>
    \o <<IF replays(d, tx) THEN {} ELSE only("checkpoint", checkpointAfter(d, tx.batch))>>
    \o <<IF Exists(d, "descriptor") THEN drop("descriptor") ELSE {}>>

\* applyOperationHistoryPublicationUsageDeltaLocked.
publishedUsage(d, tx) ==
  LET u == usageOf(d)
      n == Len(tx.batch)
      new == Cardinality(operationsOf(tx.batch) \ DOMAIN tx.previous)
  IN  [u EXCEPT !.records = @ - n,
                !.keys = @ + new,
                !.used = @ - n * RecordCharge - DescriptorCharge + new * IndexCharge
                           + CheckpointCharge - charge(d, "checkpoint", CheckpointCharge)]

-----------------------------------------------------------------------------
(***************************************************************************)
(* Recovery.                                                                *)
(***************************************************************************)

\* ensureUsageLocked: usage is trusted unless a write was left unfinished.
needsRebuild(d) == Exists(d, "publication") \/ Exists(d, "marker") \/ ~Exists(d, "usage")

\* The sequence indices a rebuild adds: an append died before it wrote them.
missingSequences(d) ==
  {put("sequences", d.records[i].sequence, [identity |-> i, receipt |-> d.records[i].receipt]) :
     i \in {j \in DOMAIN d.records : d.records[j].sequence \notin DOMAIN d.sequences}}

\* What rebuildUsageLocked requires of the files, beside that the running program
\* validates every record; otherwise they are corrupt.
consistent(d) ==
  LET c == checkpointOf(d)
      sequencesOfRecords == {d.records[i].sequence : i \in DOMAIN d.records}
      b == Only(d, "descriptor")
  IN  /\ d.index = c.indexed
      /\ \A o \in DOMAIN d.index : d.index[o].sequence <= c.sequence
      /\ \A i \in DOMAIN d.records :
           i.operation \in DOMAIN d.index
             => d.index[i.operation].identity.generation < i.generation
      /\ sequencesOfRecords = (c.sequence + 1)..(c.sequence + Cardinality(DOMAIN d.records))
      /\ DOMAIN d.sequences \subseteq sequencesOfRecords
      /\ \A s \in DOMAIN d.sequences : storedAs(d, refAt(d, s))
      /\ Exists(d, "descriptor") =>
           /\ b[1].sequence = c.sequence + 1
           /\ \A k \in DOMAIN b : b[k].sequence \in sequencesOfRecords
           /\ \A k \in DOMAIN b :
                /\ b[k].identity \in DOMAIN d.records
                /\ d.records[b[k].identity] = [receipt |-> b[k].receipt, sequence |-> b[k].sequence]

fits(u) ==
  /\ u.keys <= MaxOperationKeys
  /\ u.records + u.reservations <= MaxPendingRecords
  /\ u.reservations <= MaxReservations
  /\ occupied(u) + Headroom <= MaxBytes
=============================================================================
