--------------------- MODULE OperationHistoryStoreProofs ---------------------
(***************************************************************************)
(* The receipt history, for every set of operations and attempts, every      *)
(* batch size and limit, and a crash after every write.                      *)
(*                                                                           *)
(* The invariant looks ahead: not only the directory as it is, but the       *)
(* directory after any prefix of the writes that are left must be good, that *)
(* is, recoverable, with exact usage if that would be trusted, and without   *)
(* loss of what callers know.  A write then only makes the set of those      *)
(* prefixes smaller, a crash ends it, and what remains is to show, once for  *)
(* every call, that the writes it begins are good at each prefix.            *)
(***************************************************************************)
EXTENDS OperationHistoryStore, FiniteSetTheorems, SequenceTheorems,
        WellFoundedInduction, TLAPS

-----------------------------------------------------------------------------
(* A directory after some of the writes that are left.                      *)

Files == {"records", "sequences", "reservations", "index", "checkpoint", "descriptor",
          "publication", "marker", "usage"}

SingleFiles == {"checkpoint", "descriptor", "publication", "marker", "usage"}

\* Every kind of file is a partial function.
IsDirectory(d) ==
  /\ d = [f \in Files |-> d[f]]
  /\ \A f \in Files : d[f] = [k \in DOMAIN d[f] |-> d[f][k]] /\ IsFiniteSet(DOMAIN d[f])
  /\ \A f \in SingleFiles : DOMAIN d[f] \subseteq {"only"}

IsWrite(w) == w.file \in Files /\ (w.file \in SingleFiles => w.key = "only")

puts(w, f, k) == w.file = f /\ w.key = k /\ w.content # << >>
removes(w, f, k) == w.file = f /\ w.key = k /\ w.content = << >>

\* The directory with the writes of Q done; a removal comes after a write.
keysAfter(d, Q, f) ==
  {k \in DOMAIN d[f] \cup {v.key : v \in {u \in Q : u.file = f}} :
     /\ ~\E v \in Q : removes(v, f, k)
     /\ k \in DOMAIN d[f] \/ \E v \in Q : puts(v, f, k)}

contentAfter(d, Q, f, k) ==
  IF \E v \in Q : puts(v, f, k) THEN (CHOOSE v \in Q : puts(v, f, k)).content[1] ELSE d[f][k]

after(d, Q) ==
  [f \in Files |-> [k \in keysAfter(d, Q, f) |-> contentAfter(d, Q, f, k)]]

\* Membership and content, file by file.
LEMMA KeysAfter ==
  ASSUME NEW d, NEW Q, NEW f, NEW k
  PROVE  k \in keysAfter(d, Q, f) <=>
           /\ ~\E v \in Q : removes(v, f, k)
           /\ k \in DOMAIN d[f] \/ \E v \in Q : puts(v, f, k)
BY DEF keysAfter, puts

\* The keys of a file once the writes of Q are done.
LEMMA AfterKeys ==
  ASSUME NEW d, NEW Q, NEW f \in Files, NEW k
  PROVE  k \in DOMAIN after(d, Q)[f] <=>
           /\ ~\E v \in Q : removes(v, f, k)
           /\ k \in DOMAIN d[f] \/ \E v \in Q : puts(v, f, k)
<1>1. DOMAIN after(d, Q)[f] = keysAfter(d, Q, f)
  BY DEF after
<1> QED BY <1>1, KeysAfter

\* The keys that a set of writes names.
LEMMA FiniteKeys ==
  ASSUME NEW Q, IsFiniteSet(Q)
  PROVE  IsFiniteSet({v.key : v \in Q})
<1> DEFINE T == {v.key : v \in Q}
           g == [v \in Q |-> v.key]
<1>1. g \in [Q -> T] /\ \A t \in T : \E v \in Q : g[v] = t
  OBVIOUS
<1>2. g \in Surjection(Q, T)
  BY <1>1 DEF Surjection
<1> QED BY <1>2, FS_Surjection

\* Writes lead from a directory to a directory.
LEMMA AfterIsDirectory ==
  ASSUME NEW d, IsDirectory(d), NEW Q, IsFiniteSet(Q), \A w \in Q : IsWrite(w)
  PROVE  IsDirectory(after(d, Q))
<1> DEFINE e == after(d, Q)
<1>1. e = [f \in Files |-> e[f]]
  BY DEF after
<1>2. ASSUME NEW f \in Files
      PROVE  e[f] = [k \in DOMAIN e[f] |-> e[f][k]] /\ IsFiniteSet(DOMAIN e[f])
  <2>1. e[f] = [k \in keysAfter(d, Q, f) |-> contentAfter(d, Q, f, k)]
    BY DEF after
  <2>2. keysAfter(d, Q, f) \in SUBSET (DOMAIN d[f] \cup {v.key : v \in Q})
    BY DEF keysAfter
  <2>3. IsFiniteSet(DOMAIN d[f]) /\ IsFiniteSet({v.key : v \in Q})
    BY FiniteKeys DEF IsDirectory
  <2>4. IsFiniteSet(keysAfter(d, Q, f))
    BY <2>2, <2>3, FS_Union, FS_Subset
  <2> QED BY <2>1, <2>4
<1>3. ASSUME NEW f \in SingleFiles, NEW k \in DOMAIN e[f] PROVE k = "only"
  <2>1. f \in Files
    BY DEF SingleFiles, Files
  <2>2. k \in DOMAIN d[f] \/ \E v \in Q : puts(v, f, k)
    BY <1>3, <2>1, AfterKeys
  <2> QED BY <2>2 DEF IsDirectory, IsWrite, puts
<1> QED BY <1>1, <1>2, <1>3 DEF IsDirectory

\* The content of a file once the writes of Q are done.
LEMMA AfterContent ==
  ASSUME NEW d, NEW Q, NEW f \in Files, NEW k \in DOMAIN after(d, Q)[f]
  PROVE  after(d, Q)[f][k] = contentAfter(d, Q, f, k)
BY DEF after

\* A file that no write names stays as it is.
LEMMA AfterUntouched ==
  ASSUME NEW d, IsDirectory(d), NEW Q, NEW f \in Files, \A v \in Q : v.file # f
  PROVE  after(d, Q)[f] = d[f]
<1>1. keysAfter(d, Q, f) = DOMAIN d[f]
  BY DEF keysAfter, puts, removes
<1>2. \A k \in DOMAIN d[f] : contentAfter(d, Q, f, k) = d[f][k]
  BY DEF contentAfter, puts
<1>3. after(d, Q)[f] = [k \in DOMAIN d[f] |-> d[f][k]]
  BY <1>1, <1>2 DEF after
<1> QED BY <1>3 DEF IsDirectory

\* No writes, no change.
LEMMA AfterNothing == ASSUME NEW d, IsDirectory(d) PROVE after(d, {}) = d
<1>1. \A f \in Files : after(d, {})[f] = d[f]
  BY AfterUntouched
<1>2. after(d, {}) = [f \in Files |-> after(d, {})[f]]
  BY DEF after
<1>3. after(d, {}) = [f \in Files |-> d[f]]
  BY <1>1, <1>2
<1> QED BY <1>3 DEF IsDirectory

\* What a write does.
LEMMA WrittenFile ==
  ASSUME NEW d, IsDirectory(d), NEW w, w.file \in Files
  PROVE  \A f \in Files :
         /\ f # w.file => written(d, w)[f] = d[f]
         /\ f = w.file /\ w.content = << >> =>
              /\ DOMAIN written(d, w)[f] = DOMAIN d[f] \ {w.key}
              /\ \A l \in DOMAIN d[f] \ {w.key} : written(d, w)[f][l] = d[f][l]
         /\ f = w.file /\ w.content # << >> =>
              /\ DOMAIN written(d, w)[f] = DOMAIN d[f] \cup {w.key}
              /\ written(d, w)[f][w.key] = w.content[1]
              /\ \A l \in DOMAIN d[f] \ {w.key} : written(d, w)[f][l] = d[f][l]
<1>1. DOMAIN d = Files
  BY DEF IsDirectory
<1> QED BY <1>1 DEF written, Restrict

\* put writes one file, remove removes one.
LEMMA WrittenKinds ==
  ASSUME NEW f, NEW k, NEW c, NEW g, NEW l
  PROVE  /\ put(f, k, c).file = f /\ put(f, k, c).key = k /\ put(f, k, c).content[1] = c
         /\ puts(put(f, k, c), g, l) <=> f = g /\ k = l
         /\ ~removes(put(f, k, c), g, l)
         /\ remove(f, k).file = f /\ remove(f, k).key = k
         /\ removes(remove(f, k), g, l) <=> f = g /\ k = l
         /\ ~puts(remove(f, k), g, l)
<1>1. put(f, k, c).file = f /\ put(f, k, c).key = k /\ put(f, k, c).content = <<c>>
  BY DEF put
<1>2. <<c>> # << >> /\ <<c>>[1] = c
  OBVIOUS
<1>3. remove(f, k).file = f /\ remove(f, k).key = k /\ remove(f, k).content = << >>
  BY DEF remove
<1> QED BY <1>1, <1>2, <1>3 DEF puts, removes

\* Two writes with the same file and key: first it is written, then removed.
agree(v, w) == v # w /\ v.file = w.file /\ v.key = w.key

\* Doing w first and then Q is doing all of them.
LEMMA AfterWritten ==
  ASSUME NEW d, IsDirectory(d), NEW w, w.file \in Files, NEW Q, w \notin Q,
         \A v \in Q : agree(v, w) => removes(v, w.file, w.key) /\ puts(w, w.file, w.key)
  PROVE  after(written(d, w), Q) = after(d, Q \cup {w})
<1> DEFINE e == written(d, w)
           R == Q \cup {w}
<1>0. \A f \in Files :
         /\ f # w.file => e[f] = d[f]
         /\ f = w.file /\ w.content = << >> =>
              /\ DOMAIN e[f] = DOMAIN d[f] \ {w.key}
              /\ \A l \in DOMAIN d[f] \ {w.key} : e[f][l] = d[f][l]
         /\ f = w.file /\ w.content # << >> =>
              /\ DOMAIN e[f] = DOMAIN d[f] \cup {w.key}
              /\ e[f][w.key] = w.content[1]
              /\ \A l \in DOMAIN d[f] \ {w.key} : e[f][l] = d[f][l]
  BY WrittenFile
<1> HIDE DEF e
<1>1. ASSUME NEW f \in Files
      PROVE  /\ keysAfter(e, Q, f) = keysAfter(d, R, f)
             /\ \A k \in keysAfter(d, R, f) : contentAfter(e, Q, f, k) = contentAfter(d, R, f, k)
  <2>1. ASSUME f # w.file
        PROVE  /\ keysAfter(e, Q, f) = keysAfter(d, R, f)
               /\ \A k \in keysAfter(d, R, f) : contentAfter(e, Q, f, k) = contentAfter(d, R, f, k)
    <3>1. e[f] = d[f]
      BY <2>1, <1>0
    <3>2. \A v : puts(v, f, v.key) \/ removes(v, f, v.key) => v # w
      BY <2>1 DEF puts, removes
    <3>3. \A k : (\E v \in R : puts(v, f, k)) <=> (\E v \in Q : puts(v, f, k))
      BY <2>1 DEF puts
    <3>4. \A k : (\E v \in R : removes(v, f, k)) <=> (\E v \in Q : removes(v, f, k))
      BY <2>1 DEF removes
    <3>5. \A k, v : puts(v, f, k) => (v \in R <=> v \in Q)
      BY <2>1 DEF puts
    <3>6. \A k : (CHOOSE v \in R : puts(v, f, k)) = (CHOOSE v \in Q : puts(v, f, k))
      BY <3>5
    <3>7. \A k : k \in keysAfter(e, Q, f) <=> k \in keysAfter(d, R, f)
      BY <3>1, <3>3, <3>4, KeysAfter
    <3> QED BY <3>1, <3>3, <3>6, <3>7 DEF contentAfter
  <2>2. ASSUME f = w.file, w.content # << >>
        PROVE  /\ keysAfter(e, Q, f) = keysAfter(d, R, f)
               /\ \A k \in keysAfter(d, R, f) : contentAfter(e, Q, f, k) = contentAfter(d, R, f, k)
    <3>1. /\ DOMAIN e[f] = DOMAIN d[f] \cup {w.key}
          /\ e[f][w.key] = w.content[1]
          /\ \A l \in DOMAIN d[f] \ {w.key} : e[f][l] = d[f][l]
      BY <2>2, <1>0
    <3>2. \A k : puts(w, f, k) <=> k = w.key
      BY <2>2 DEF puts
    <3>3. \A k : ~removes(w, f, k)
      BY <2>2 DEF removes
    <3>4. \A v \in Q : ~puts(v, f, w.key)
      BY <2>2 DEF agree, puts, removes
    <3>5. \A k : k \in keysAfter(e, Q, f) <=> k \in keysAfter(d, R, f)
      BY <3>1, <3>2, <3>3, KeysAfter
    <3>7. ASSUME NEW k \in keysAfter(d, R, f), k = w.key
          PROVE  contentAfter(e, Q, f, k) = contentAfter(d, R, f, k)
      <4>1. contentAfter(e, Q, f, k) = w.content[1]
        BY <3>1, <3>4, <3>7 DEF contentAfter
      <4>2. puts(w, f, k) /\ \A v \in R : puts(v, f, k) => v = w
        BY <3>2, <3>4, <3>7
      <4>3. (CHOOSE v \in R : puts(v, f, k)) = w
        BY <4>2
      <4> QED BY <4>1, <4>2, <4>3 DEF contentAfter
    <3>8. ASSUME NEW k \in keysAfter(d, R, f), k # w.key
          PROVE  contentAfter(e, Q, f, k) = contentAfter(d, R, f, k)
      <4>1. \A v : puts(v, f, k) => (v \in R <=> v \in Q)
        BY <3>2, <3>8
      <4>2. (CHOOSE v \in R : puts(v, f, k)) = (CHOOSE v \in Q : puts(v, f, k))
        BY <4>1
      <4>3. (\E v \in R : puts(v, f, k)) <=> (\E v \in Q : puts(v, f, k))
        BY <4>1
      <4>4. k \in DOMAIN d[f] => e[f][k] = d[f][k]
        BY <3>1, <3>8
      <4>5. (~\E v \in R : puts(v, f, k)) => k \in DOMAIN d[f]
        BY KeysAfter
      <4> QED BY <4>2, <4>3, <4>4, <4>5 DEF contentAfter
    <3> QED BY <3>5, <3>7, <3>8
  <2>3. ASSUME f = w.file, w.content = << >>
        PROVE  /\ keysAfter(e, Q, f) = keysAfter(d, R, f)
               /\ \A k \in keysAfter(d, R, f) : contentAfter(e, Q, f, k) = contentAfter(d, R, f, k)
    <3>1. /\ DOMAIN e[f] = DOMAIN d[f] \ {w.key}
          /\ \A l \in DOMAIN d[f] \ {w.key} : e[f][l] = d[f][l]
      BY <2>3, <1>0
    <3>2. \A k : removes(w, f, k) <=> k = w.key
      BY <2>3 DEF removes
    <3>3. \A k : ~puts(w, f, k)
      BY <2>3 DEF puts
    <3>4. \A v \in Q : ~puts(v, f, w.key)
      BY <2>3, <3>3 DEF agree, puts
    <3>5. \A k : k \in keysAfter(e, Q, f) <=> k \in keysAfter(d, R, f)
      BY <3>1, <3>2, <3>3, <3>4, KeysAfter
    <3>6. ASSUME NEW k \in keysAfter(d, R, f)
          PROVE  contentAfter(e, Q, f, k) = contentAfter(d, R, f, k)
      <4>1. \A v : puts(v, f, k) => (v \in R <=> v \in Q)
        BY <3>3
      <4>2. (CHOOSE v \in R : puts(v, f, k)) = (CHOOSE v \in Q : puts(v, f, k))
        BY <4>1
      <4>3. (\E v \in R : puts(v, f, k)) <=> (\E v \in Q : puts(v, f, k))
        BY <4>1
      <4>4. k # w.key
        BY <3>2, KeysAfter
      <4>5. k \in DOMAIN d[f] => e[f][k] = d[f][k]
        BY <3>1, <4>4
      <4>6. (~\E v \in R : puts(v, f, k)) => k \in DOMAIN d[f]
        BY KeysAfter
      <4> QED BY <4>2, <4>3, <4>5, <4>6 DEF contentAfter
    <3> QED BY <3>5, <3>6
  <2> QED BY <2>1, <2>2, <2>3
<1>2. \A f \in Files : [k \in keysAfter(e, Q, f) |-> contentAfter(e, Q, f, k)]
                     = [k \in keysAfter(d, R, f) |-> contentAfter(d, R, f, k)]
  BY <1>1
<1> QED BY <1>2 DEF after, e

\* writePrivateBytesAtomic and removePrivateFile leave a directory.
LEMMA WrittenIsDirectory ==
  ASSUME NEW d, IsDirectory(d), NEW w, IsWrite(w)
  PROVE  IsDirectory(written(d, w))
<1> DEFINE e == written(d, w)
<1>1. e = [d EXCEPT ![w.file] =
             IF w.content = << >> THEN [l \in DOMAIN d[w.file] \ {w.key} |-> d[w.file][l]]
             ELSE [l \in DOMAIN d[w.file] \cup {w.key} |->
                     IF l = w.key THEN w.content[1] ELSE d[w.file][l]]]
  BY DEF written, Restrict
<1>0. w.file \in Files /\ \A f \in SingleFiles : f \in Files
  BY DEF IsWrite, SingleFiles, Files
<1>2. d = [f \in Files |-> d[f]]
  BY DEF IsDirectory
<1>3. e = [f \in Files |-> e[f]]
  BY <1>1, <1>2
<1>4. ASSUME NEW f \in Files
      PROVE  e[f] = [k \in DOMAIN e[f] |-> e[f][k]] /\ IsFiniteSet(DOMAIN e[f])
  <2>1. CASE f # w.file
    <3>1. e[f] = d[f]
      BY <1>1, <1>2, <2>1
    <3> QED BY <3>1 DEF IsDirectory
  <2>2. CASE f = w.file
    <3>1. e[f] = [k \in DOMAIN e[f] |-> e[f][k]]
      BY <1>1, <1>2, <2>2
    <3>2. DOMAIN e[f] = DOMAIN d[f] \ {w.key} \/ DOMAIN e[f] = DOMAIN d[f] \cup {w.key}
      BY <1>1, <1>2, <2>2
    <3>3. IsFiniteSet(DOMAIN d[f])
      BY DEF IsDirectory
    <3>4. IsFiniteSet(DOMAIN e[f])
      BY <3>2, <3>3, FS_AddElement, FS_RemoveElement
    <3> QED BY <3>1, <3>4
  <2> QED BY <2>1, <2>2
<1>5. ASSUME NEW f \in SingleFiles PROVE DOMAIN e[f] \subseteq {"only"}
  <2>1. CASE f # w.file
    <3>1. e[f] = d[f]
      BY <1>0, <1>1, <1>2, <2>1
    <3> QED BY <3>1 DEF IsDirectory
  <2>2. CASE f = w.file
    <3>1. DOMAIN e[f] \subseteq DOMAIN d[f] \cup {w.key}
      BY <1>0, <1>1, <1>2, <2>2
    <3> QED BY <2>2, <3>1 DEF IsDirectory, IsWrite
  <2> QED BY <2>1, <2>2
<1> QED BY <1>3, <1>4, <1>5 DEF IsDirectory

-----------------------------------------------------------------------------
(* The writes that are left, and the ones that a crash may find done.       *)

pending(ws) == UNION {ws[k] : k \in DOMAIN ws}

\* Done together with all that goes before.
Closed(ws, Q) ==
  \A j, k \in DOMAIN ws : \A v \in ws[j], w \in ws[k] : j < k /\ w \in Q => v \in Q

Orderly(ws) ==
  \A j, k \in DOMAIN ws : \A v \in ws[j], w \in ws[k] :
    /\ v = w => j = k
    /\ agree(v, w) => \/ j < k /\ puts(v, v.file, v.key) /\ removes(w, v.file, v.key)
                      \/ k < j /\ puts(w, v.file, v.key) /\ removes(v, v.file, v.key)

Queue(ws) ==
  /\ ws \in Seq(SUBSET pending(ws))
  /\ IsFiniteSet(pending(ws))
  /\ \A w \in pending(ws) : IsWrite(w)
  /\ Orderly(ws)

\* A function on 1 .. n is a sequence.
LEMMA FunctionIsSeq ==
  ASSUME NEW S, NEW n \in Nat, NEW f \in [1 .. n -> S]
  PROVE  f \in Seq(S)
<1>1. f \in UNION {[1 .. m -> S] : m \in Nat}
  OBVIOUS
<1> QED BY <1>1, SeqDef

\* us is what is left of ws once w is done.
QueueWritten(ws, us, w) ==
  /\ Queue(us) /\ w \notin pending(us) /\ pending(ws) = pending(us) \cup {w}
  /\ \A Q \in SUBSET pending(us) : Closed(us, Q) =>
       /\ Closed(ws, Q \cup {w})
       /\ \A v \in Q : agree(v, w) => removes(v, w.file, w.key) /\ puts(w, w.file, w.key)

\* A write of the first stage that is not empty leaves a queue; what may then be
\* found done was, with it, possible before.
LEMMA QueueWrite ==
  ASSUME NEW ws, Queue(ws), NEW k \in DOMAIN ws, NEW w \in ws[k],
         \A j \in DOMAIN ws : j < k => ws[j] = {},
         NEW us, us = [ws EXCEPT ![k] = @ \ {w}]
  PROVE  QueueWritten(ws, us, w)
<1> DEFINE n == Len(ws)
<1>1. n \in Nat /\ DOMAIN ws = 1 .. n /\ ws \in [1 .. n -> SUBSET pending(ws)]
  BY LenProperties DEF Queue
<1>2. DOMAIN us = 1 .. n /\ us[k] = ws[k] \ {w} /\ \A j \in 1 .. n : j # k => us[j] = ws[j]
  BY <1>1
<1>3. \A j \in 1 .. n : us[j] \subseteq ws[j]
  BY <1>2
<1> HIDE DEF n
<1>4. \A j \in 1 .. n : w \in ws[j] => j = k
  BY <1>1 DEF Queue, Orderly
<1>5. \A j \in 1 .. n : w \notin us[j]
  BY <1>2, <1>4
<1>6. w \notin pending(us)
  BY <1>2, <1>5 DEF pending
<1>7. pending(ws) = pending(us) \cup {w}
  <2>1. ASSUME NEW v \in pending(ws), v # w PROVE v \in pending(us)
    <3>1. PICK j \in 1 .. n : v \in ws[j]
      BY <1>1 DEF pending
    <3>2. v \in us[j]
      BY <1>2, <2>1, <3>1
    <3> QED BY <1>2, <3>2 DEF pending
  <2>2. ASSUME NEW v \in pending(us) PROVE v \in pending(ws)
    BY <1>1, <1>2, <1>3 DEF pending
  <2>3. w \in pending(ws)
    BY DEF pending
  <2> QED BY <2>1, <2>2, <2>3
<1>8. us \in Seq(SUBSET pending(us))
  <2>1. us = [j \in 1 .. n |-> us[j]]
    BY <1>1
  <2>2. \A j \in 1 .. n : us[j] \in SUBSET pending(us)
    BY <1>2 DEF pending
  <2>3. us \in [1 .. n -> SUBSET pending(us)]
    BY <2>1, <2>2
  <2> QED BY <1>1, <2>3, FunctionIsSeq
<1>9. IsFiniteSet(pending(us))
  BY <1>7, FS_Subset DEF Queue
<1>10. Orderly(us)
  BY <1>1, <1>2, <1>3 DEF Queue, Orderly
<1>11. Queue(us)
  BY <1>7, <1>8, <1>9, <1>10 DEF Queue
<1>12. ASSUME NEW Q \in SUBSET pending(us), Closed(us, Q)
       PROVE  Closed(ws, Q \cup {w})
  <2> SUFFICES ASSUME NEW i \in 1 .. n, NEW j \in 1 .. n, NEW v \in ws[i], NEW u \in ws[j],
                      i < j, u \in Q \cup {w}
               PROVE  v \in Q \cup {w}
    BY <1>1 DEF Closed
  <2>1. CASE u = w
    <3>1. j = k
      BY <1>4, <2>1
    <3> QED BY <1>1, <3>1
  <2>2. CASE u # w /\ v # w
    <3>1. u \in us[j] /\ v \in us[i]
      BY <1>2, <2>2
    <3> QED BY <1>2, <1>12, <2>2, <3>1 DEF Closed
  <2> QED BY <2>1, <2>2
<1>13. ASSUME NEW Q \in SUBSET pending(us), NEW v \in Q, agree(v, w)
       PROVE  removes(v, w.file, w.key) /\ puts(w, w.file, w.key)
  <2>1. PICK j \in 1 .. n : v \in us[j]
    BY <1>2, <1>13 DEF pending
  <2>2. v \in ws[j] /\ ~(j < k)
    BY <1>1, <1>3, <2>1
  <2>3. v.file = w.file /\ v.key = w.key
    BY <1>13 DEF agree
  <2> QED BY <1>1, <1>13, <2>2, <2>3 DEF Queue, Orderly
<1> QED BY <1>6, <1>7, <1>11, <1>12, <1>13 DEF QueueWritten

\* One stage.
LEMMA QueueStage ==
  ASSUME NEW T, IsFiniteSet(T), \A w \in T : IsWrite(w),
         \A v, w \in T : v.file = w.file /\ v.key = w.key => v = w
  PROVE  Queue(<<T>>) /\ pending(<<T>>) = T /\ \A k \in DOMAIN <<T>> : <<T>>[k] = T
<1>1. DOMAIN <<T>> = {1} /\ <<T>>[1] = T
  OBVIOUS
<1>2. pending(<<T>>) = T
  BY <1>1 DEF pending
<1>3. <<T>> \in Seq(SUBSET T)
  OBVIOUS
<1>4. Orderly(<<T>>)
  BY <1>1 DEF Orderly, agree
<1> QED BY <1>1, <1>2, <1>3, <1>4 DEF Queue

\* One list of stages and then another.
LEMMA QueueConcat ==
  ASSUME NEW us, Queue(us), NEW ws, Queue(ws),
         \A v \in pending(us), w \in pending(ws) :
           v # w /\ (agree(v, w) => puts(v, v.file, v.key) /\ removes(w, w.file, w.key))
  PROVE  /\ Queue(us \o ws) /\ pending(us \o ws) = pending(us) \cup pending(ws)
         /\ \A Q : Closed(us \o ws, Q) =>
              /\ Closed(us, Q) /\ Closed(ws, Q)
              /\ (\E w \in pending(ws) : w \in Q) => pending(us) \subseteq Q
<1> DEFINE P == pending(us) \cup pending(ws)
           xs == us \o ws
           m == Len(us)
           n == Len(ws)
<1>1. us \in Seq(SUBSET P) /\ ws \in Seq(SUBSET P)
  BY SeqMonotonic DEF Queue
<1>2. m \in Nat /\ n \in Nat /\ DOMAIN us = 1 .. m /\ DOMAIN ws = 1 .. n
  BY <1>1, LenProperties
<1>3. xs \in Seq(SUBSET P) /\ Len(xs) = m + n
  BY <1>1, ConcatProperties
<1>4. DOMAIN xs = 1 .. m + n
  BY <1>3, LenProperties
<1>5. \A i \in 1 .. m : i \in 1 .. m + n /\ xs[i] = us[i]
  BY <1>1, <1>2, ConcatProperties
<1>6. \A i \in 1 .. n : m + i \in 1 .. m + n /\ xs[m + i] = ws[i]
  BY <1>1, <1>2, ConcatProperties
<1>7. \A i \in 1 .. m + n : i \in 1 .. m \/ \E j \in 1 .. n : i = m + j
  <2>1. ASSUME NEW i \in 1 .. m + n, i \notin 1 .. m PROVE i - m \in 1 .. n /\ i = m + (i - m)
    BY <1>2, <2>1
  <2> QED BY <2>1
<1> HIDE DEF xs, m, n
<1>8. pending(xs) = P
  <2>1. ASSUME NEW v \in pending(xs) PROVE v \in P
    <3>1. PICK i \in 1 .. m + n : v \in xs[i]
      BY <1>4 DEF pending
    <3> QED BY <1>2, <1>5, <1>6, <1>7, <3>1 DEF pending
  <2>2. ASSUME NEW v \in pending(us) PROVE v \in pending(xs)
    BY <1>2, <1>4, <1>5 DEF pending
  <2>3. ASSUME NEW v \in pending(ws) PROVE v \in pending(xs)
    BY <1>2, <1>4, <1>6 DEF pending
  <2> QED BY <2>1, <2>2, <2>3
<1>9. IsFiniteSet(P) /\ \A w \in P : IsWrite(w)
  BY FS_Union DEF Queue
<1>10. ASSUME NEW i \in 1 .. m + n, NEW v \in xs[i]
       PROVE  \/ i \in 1 .. m /\ v \in us[i] /\ v \in pending(us)
              \/ \E j \in 1 .. n : i = m + j /\ v \in ws[j] /\ v \in pending(ws)
  BY <1>2, <1>5, <1>6, <1>7, <1>10 DEF pending
<1>11. Orderly(xs)
  <2> SUFFICES ASSUME NEW i \in 1 .. m + n, NEW j \in 1 .. m + n, NEW v \in xs[i], NEW w \in xs[j]
               PROVE  /\ v = w => i = j
                      /\ agree(v, w) =>
                           \/ i < j /\ puts(v, v.file, v.key) /\ removes(w, v.file, v.key)
                           \/ j < i /\ puts(w, v.file, v.key) /\ removes(v, v.file, v.key)
    BY <1>4 DEF Orderly
  <2>1. CASE i \in 1 .. m /\ j \in 1 .. m
    BY <1>2, <1>5, <2>1 DEF Queue, Orderly
  <2>2. CASE i \in 1 .. m /\ j \notin 1 .. m
    <3>1. v \in pending(us) /\ w \in pending(ws) /\ i < j
      BY <1>2, <1>10, <2>2
    <3> QED BY <3>1 DEF agree
  <2>3. CASE i \notin 1 .. m /\ j \in 1 .. m
    <3>1. v \in pending(ws) /\ w \in pending(us) /\ j < i
      BY <1>2, <1>10, <2>3
    <3> QED BY <3>1 DEF agree
  <2>4. CASE i \notin 1 .. m /\ j \notin 1 .. m
    <3>1. PICK a \in 1 .. n : i = m + a /\ v \in ws[a]
      BY <1>10, <2>4
    <3>2. PICK b \in 1 .. n : j = m + b /\ w \in ws[b]
      BY <1>10, <2>4
    <3>3. (a < b <=> i < j) /\ (b < a <=> j < i) /\ (a = b => i = j)
      BY <1>2, <3>1, <3>2
    <3> QED BY <1>2, <3>1, <3>2, <3>3 DEF Queue, Orderly
  <2> QED BY <2>1, <2>2, <2>3, <2>4
<1>12. Queue(xs)
  BY <1>3, <1>8, <1>9, <1>11 DEF Queue, xs
<1>13. ASSUME NEW Q, Closed(xs, Q)
       PROVE  /\ Closed(us, Q) /\ Closed(ws, Q)
              /\ (\E w \in pending(ws) : w \in Q) => pending(us) \subseteq Q
  <2>1. Closed(us, Q)
    BY <1>2, <1>4, <1>5, <1>13 DEF Closed
  <2>2. Closed(ws, Q)
    <3> SUFFICES ASSUME NEW a \in 1 .. n, NEW b \in 1 .. n, NEW v \in ws[a], NEW w \in ws[b],
                        a < b, w \in Q
                 PROVE  v \in Q
      BY <1>2 DEF Closed
    <3>1. m + a \in 1 .. m + n /\ m + b \in 1 .. m + n /\ m + a < m + b
      BY <1>2, <1>6
    <3>2. v \in xs[m + a] /\ w \in xs[m + b]
      BY <1>6
    <3> QED BY <1>4, <1>13, <3>1, <3>2 DEF Closed
  <2>3. ASSUME NEW w \in pending(ws), w \in Q, NEW v \in pending(us) PROVE v \in Q
    <3>1. PICK b \in 1 .. n : w \in ws[b]
      BY <1>2 DEF pending
    <3>2. PICK a \in 1 .. m : v \in us[a]
      BY <1>2 DEF pending
    <3>3. a \in 1 .. m + n /\ m + b \in 1 .. m + n /\ a < m + b
      BY <1>2
    <3>4. v \in xs[a] /\ w \in xs[m + b]
      BY <1>5, <1>6, <3>1, <3>2
    <3> QED BY <1>4, <1>13, <2>3, <3>3, <3>4 DEF Closed
  <2> QED BY <2>1, <2>2, <2>3
<1> QED BY <1>8, <1>12, <1>13 DEF xs
-----------------------------------------------------------------------------
(* A directory that can be recovered.                                       *)

InFlight(d) == Exists(d, "publication")
transaction(d) == Only(d, "publication")
batchOf(d) == IF InFlight(d) THEN transaction(d).batch ELSE << >>

\* The checkpoint once a transaction that is left has been applied.
settled(d) ==
  IF InFlight(d) /\ ~replays(d, transaction(d)) THEN checkpointAfter(d, batchOf(d))
                                                ELSE checkpointOf(d)

\* The records that stay.
kept(d) == {i \in DOMAIN d.records : \A k \in DOMAIN batchOf(d) : batchOf(d)[k].identity # i}

IsBatch(b) ==
  /\ b \in Seq(Ref) /\ b # << >>
  /\ \A k \in DOMAIN b : b[k].sequence = b[1].sequence + k - 1
  /\ \A j, k \in DOMAIN b :
       j < k /\ b[j].identity.operation = b[k].identity.operation
         => b[j].identity.generation < b[k].identity.generation

CheckpointOK(d) ==
  /\ checkpointOf(d).sequence \in Nat
  /\ settled(d).sequence \in Nat
  /\ checkpointOf(d).indexed = [o \in DOMAIN checkpointOf(d).indexed |-> checkpointOf(d).indexed[o]]
  /\ \A o \in DOMAIN settled(d).indexed :
       /\ settled(d).indexed[o] \in Ref
       /\ settled(d).indexed[o].identity.operation = o
       /\ settled(d).indexed[o].sequence <= settled(d).sequence

\* The records of K follow the checkpoint cp without a gap, those of an
\* operation in the order of its attempts.
Following(records, K, cp) ==
  /\ \A i \in K :
       /\ records[i].sequence > cp.sequence
       /\ i.operation \in DOMAIN cp.indexed =>
            cp.indexed[i.operation].identity.generation < i.generation
       /\ \A s \in cp.sequence + 1 .. records[i].sequence :
            \E j \in K : records[j].sequence = s
  /\ \A i, j \in K :
       /\ records[i].sequence = records[j].sequence => i = j
       /\ i.operation = j.operation /\ records[i].sequence < records[j].sequence
            => i.generation < j.generation

RecordsOK(d) ==
  /\ IsFiniteSet(DOMAIN d.records)
  /\ \A i \in DOMAIN d.records :
       i \in Identity /\ d.records[i] \in [receipt : Receipt, sequence : Nat \ {0}]
  /\ Following(d.records, kept(d), settled(d))

\* A sequence file names a record that stays or one of the batch.
Named(sequences, records, K, b) ==
  \A s \in DOMAIN sequences :
    \/ \E i \in K :
         s = records[i].sequence /\ sequences[s] = [identity |-> i, receipt |-> records[i].receipt]
    \/ \E k \in DOMAIN b :
         s = b[k].sequence
           /\ sequences[s] = [identity |-> b[k].identity, receipt |-> b[k].receipt]

SequencesOK(d) == Named(d.sequences, d.records, kept(d), batchOf(d))

TransactionOK(d) ==
  InFlight(d) =>
    /\ IsBatch(batchOf(d))
    /\ \/ /\ replays(d, transaction(d))
          /\ \A o \in operationsOf(batchOf(d)) :
               /\ o \in DOMAIN checkpointOf(d).indexed
               /\ checkpointOf(d).indexed[o] = entry(batchOf(d), o)
       \/ /\ ~replays(d, transaction(d))
          /\ checkpointOf(d).sequence + 1 = batchOf(d)[1].sequence
          /\ Exists(d, "descriptor")
    /\ Exists(d, "descriptor") => Only(d, "descriptor") = batchOf(d)
    /\ \A k \in DOMAIN batchOf(d) :
         batchOf(d)[k].identity \in DOMAIN d.records => storedAs(d, batchOf(d)[k])
    /\ \A o \in operationsOf(batchOf(d)) :
         IF o \in DOMAIN d.index
         THEN \/ d.index[o] = entry(batchOf(d), o)
              \/ o \in DOMAIN transaction(d).previous /\ d.index[o] = transaction(d).previous[o]
         ELSE o \notin DOMAIN transaction(d).previous
    /\ \A o : o \notin operationsOf(batchOf(d)) =>
         /\ o \in DOMAIN d.index <=> o \in DOMAIN checkpointOf(d).indexed
         /\ o \in DOMAIN d.index => d.index[o] = checkpointOf(d).indexed[o]

NoTransactionOK(d) ==
  ~InFlight(d) =>
    /\ d.index = checkpointOf(d).indexed
    /\ Exists(d, "descriptor") =>
         /\ IsBatch(Only(d, "descriptor"))
         /\ Only(d, "descriptor")[1].sequence = checkpointOf(d).sequence + 1
         /\ \A k \in DOMAIN Only(d, "descriptor") :
              LET r == Only(d, "descriptor")[k] IN
              /\ r.identity \in DOMAIN d.records
              /\ d.records[r.identity] = [receipt |-> r.receipt, sequence |-> r.sequence]

\* Usage that is trusted is exact, and nothing is left of an append.
TrustedOK(d) ==
  ~needsRebuild(d) =>
    /\ IsFiniteSet(DOMAIN d.reservations) /\ IsFiniteSet(DOMAIN d.index)
    /\ \A i \in DOMAIN d.records : d.records[i].sequence \in DOMAIN d.sequences
    /\ settledReservations(d) = {}
    /\ usageOf(d) = accountedUsage(d)

Recoverable(d) ==
  /\ IsDirectory(d)
  /\ CheckpointOK(d) /\ RecordsOK(d) /\ SequencesOK(d)
  /\ TransactionOK(d) /\ NoTransactionOK(d)

-----------------------------------------------------------------------------
(* What callers know of it.                                                 *)

covers(d, i) ==
  /\ i.operation \in DOMAIN settled(d).indexed
  /\ i.generation <= settled(d).indexed[i.operation].identity.generation

RefKept(d, e, cf) ==
  \/ e.identity \in DOMAIN d.records /\ d.records[e.identity].receipt = e.receipt
  \/ /\ covers(d, e.identity)
     /\ settled(d).indexed[e.identity.operation].identity = e.identity
          => settled(d).indexed[e.identity.operation].receipt = e.receipt
     /\ \E b \in cf : \E k \in DOMAIN b :
          b[k].identity = e.identity /\ b[k].receipt = e.receipt

BatchKept(d, b) ==
  \/ \A k \in DOMAIN b : b[k].sequence <= settled(d).sequence /\ covers(d, b[k].identity)
  \/ ~InFlight(d) /\ Exists(d, "descriptor") /\ Only(d, "descriptor") = b

Known(d, bg, rf, hd, cf) ==
  /\ \A i \in DOMAIN d.records : i.generation <= bg[i.operation]
  /\ \A e \in rf : RefKept(d, e, cf)
  /\ \A b \in hd : BatchKept(d, b)
  /\ \A o \in DOMAIN settled(d).indexed : \E b \in cf : \E k \in DOMAIN b :
       b[k] = settled(d).indexed[o]
  /\ InFlight(d) => batchOf(d) \in cf

Good(d, bg, rf, hd, cf) == Recoverable(d) /\ TrustedOK(d) /\ Known(d, bg, rf, hd, cf)

\* The last receipt of its attempt.
RefHere(d, e) ==
  \/ e.identity \in DOMAIN d.records /\ d.records[e.identity].receipt = e.receipt
  \/ /\ e.identity.operation \in DOMAIN settled(d).indexed
     /\ settled(d).indexed[e.identity.operation].identity = e.identity
     /\ settled(d).indexed[e.identity.operation].receipt = e.receipt

-----------------------------------------------------------------------------
(* The marker, the reservations and the usage decide only whether usage is  *)
(* trusted.                                                                 *)

same(d, e) ==
  /\ d.records = e.records /\ d.sequences = e.sequences /\ d.index = e.index
  /\ d.checkpoint = e.checkpoint /\ d.descriptor = e.descriptor
  /\ d.publication = e.publication

\* What a directory says of its records does not depend on the marker, the
\* reservations and the usage.
LEMMA SameParts ==
  ASSUME NEW d, NEW e, same(d, e)
  PROVE  /\ InFlight(d) <=> InFlight(e)
         /\ Exists(d, "descriptor") <=> Exists(e, "descriptor")
         /\ Only(d, "descriptor") = Only(e, "descriptor")
         /\ transaction(d) = transaction(e) /\ batchOf(d) = batchOf(e)
         /\ checkpointOf(d) = checkpointOf(e)
         /\ replays(d, transaction(d)) <=> replays(e, transaction(e))
         /\ settled(d) = settled(e) /\ kept(d) = kept(e)
<1>1. checkpointOf(d) = checkpointOf(e)
  BY DEF checkpointOf, Exists, Only, same
<1>2. (InFlight(d) <=> InFlight(e)) /\ transaction(d) = transaction(e)
  BY DEF InFlight, transaction, Exists, Only, same
<1>3. batchOf(d) = batchOf(e)
  BY <1>2 DEF batchOf
<1>4. replays(d, transaction(d)) <=> replays(e, transaction(e))
  BY <1>1, <1>2 DEF replays
<1>5. settled(d) = settled(e)
  BY <1>1, <1>2, <1>3, <1>4 DEF settled, checkpointAfter
<1>6. kept(d) = kept(e)
  BY <1>3 DEF kept, same
<1> QED BY <1>1, <1>2, <1>3, <1>4, <1>5, <1>6 DEF same, Exists, Only

\* Nor does whether it can be recovered.
LEMMA SameRecoverable ==
  ASSUME NEW d, NEW e, same(d, e), IsDirectory(e), Recoverable(d)
  PROVE  Recoverable(e)
<1>1. CheckpointOK(e)
  BY SameParts DEF Recoverable, CheckpointOK
<1>2. RecordsOK(e)
  <2>1. settled(d) = settled(e) /\ kept(d) = kept(e) /\ d.records = e.records
    BY SameParts DEF same
  <2>2. RecordsOK(d)
    BY DEF Recoverable
  <2>3. Following(d.records, kept(d), settled(d))
    BY <2>2 DEF RecordsOK
  <2>4. Following(e.records, kept(e), settled(e))
    BY <2>1, <2>3
  <2> QED BY <2>1, <2>2, <2>4 DEF RecordsOK
<1>3. SequencesOK(e)
  <2>1. /\ kept(d) = kept(e) /\ d.records = e.records /\ d.sequences = e.sequences
        /\ batchOf(d) = batchOf(e)
    BY SameParts DEF same
  <2> QED BY <2>1 DEF Recoverable, SequencesOK
<1>4. TransactionOK(e)
  <2>1. \A r : storedAs(d, r) <=> storedAs(e, r)
    BY DEF storedAs, same
  <2> QED BY <2>1, SameParts DEF Recoverable, TransactionOK, same
<1>5. NoTransactionOK(e)
  BY SameParts DEF Recoverable, NoTransactionOK, same
<1> QED BY <1>1, <1>2, <1>3, <1>4, <1>5 DEF Recoverable

\* Nor does what callers know of it.
LEMMA SameKnown ==
  ASSUME NEW d, NEW e, same(d, e), NEW bg, NEW rf, NEW hd, NEW cf, Known(d, bg, rf, hd, cf)
  PROVE  Known(e, bg, rf, hd, cf)
<1>1. \A i : covers(d, i) <=> covers(e, i)
  BY SameParts DEF covers
<1>2. \A r : RefKept(d, r, cf) <=> RefKept(e, r, cf)
  BY <1>1, SameParts DEF RefKept, same
<1>3. \A b : BatchKept(d, b) <=> BatchKept(e, b)
  BY <1>1, SameParts DEF BatchKept
<1> QED BY <1>2, <1>3, SameParts DEF Known, same

-----------------------------------------------------------------------------
(* A mutation: its marker is written first and removed last.                *)

\* A file depends only on the writes that name it.
LEMMA AfterAgrees ==
  ASSUME NEW d, NEW f \in Files, NEW Q, NEW R, \A v : v.file = f => (v \in Q <=> v \in R)
  PROVE  after(d, Q)[f] = after(d, R)[f]
<1>1. \A k, v : puts(v, f, k) => (v \in Q <=> v \in R)
  BY DEF puts
<1>2. \A k, v : removes(v, f, k) => (v \in Q <=> v \in R)
  BY DEF removes
<1>3. \A k : k \in keysAfter(d, Q, f) <=> k \in keysAfter(d, R, f)
  BY <1>1, <1>2, KeysAfter
<1>4. ASSUME NEW k PROVE contentAfter(d, Q, f, k) = contentAfter(d, R, f, k)
  <2>1. (CHOOSE v \in Q : puts(v, f, k)) = (CHOOSE v \in R : puts(v, f, k))
    BY <1>1
  <2> QED BY <1>1, <2>1 DEF contentAfter
<1>5. keysAfter(d, Q, f) = keysAfter(d, R, f)
  BY <1>3
<1>6. [k \in keysAfter(d, Q, f) |-> contentAfter(d, Q, f, k)]
        = [k \in keysAfter(d, R, f) |-> contentAfter(d, R, f, k)]
  BY <1>4, <1>5
<1> QED BY <1>6 DEF after

\* Writes of the marker, the reservations and the usage change nothing else.
LEMMA AfterSame ==
  ASSUME NEW d, NEW Q, NEW R,
         \A v : (v \in Q \ R) \/ (v \in R \ Q) => v.file \in {"marker", "usage", "reservations"}
  PROVE  same(after(d, Q), after(d, R))
<1>1. \A f \in {"records", "sequences", "index", "checkpoint", "descriptor", "publication"} :
        f \in Files /\ \A v : v.file = f => (v \in Q <=> v \in R)
  BY DEF Files
<1>2. ASSUME NEW f \in {"records", "sequences", "index", "checkpoint", "descriptor", "publication"}
      PROVE  after(d, Q)[f] = after(d, R)[f]
  <2>1. f \in Files
    BY <1>1, <1>2
  <2>2. \A v : v.file = f => (v \in Q <=> v \in R)
    BY <1>1, <1>2
  <2> QED BY <2>1, <2>2, AfterAgrees
<1> QED BY <1>2 DEF same

\* Two stages, one after the other.
LEMMA PairOfStages == ASSUME NEW a, NEW b PROVE <<a, b>> = <<a>> \o <<b>>
<1>1. <<a>> \in Seq({a, b}) /\ <<b>> \in Seq({a, b}) /\ <<a, b>> \in Seq({a, b})
  OBVIOUS
<1>2. Len(<<a>>) = 1 /\ Len(<<b>>) = 1 /\ Len(<<a, b>>) = 2
  OBVIOUS
<1>3. <<a>> \o <<b>> \in Seq({a, b}) /\ Len(<<a>> \o <<b>>) = 2
  BY <1>1, <1>2, ConcatProperties
<1>4. \A i \in 1 .. 2 : (<<a>> \o <<b>>)[i] = IF i <= 1 THEN <<a>>[i] ELSE <<b>>[i - 1]
  BY <1>1, <1>2, ConcatProperties
<1>5. (<<a>> \o <<b>>)[1] = a /\ (<<a>> \o <<b>>)[2] = b
  BY <1>4
<1>6. \A i \in 1 .. 2 : <<a, b>>[i] = (<<a>> \o <<b>>)[i]
  BY <1>5
<1> QED BY <1>1, <1>2, <1>3, <1>6, SeqEqual

\* The usage of d, with another count of refused calls.
usageWith(d, n) == [accountedUsage(d) EXCEPT !.blocked = n]

Safe(d, ws, bg, rf, hd, cf) ==
  \A Q \in SUBSET pending(ws) : Closed(ws, Q) => Good(after(d, Q), bg, rf, hd, cf)

\* The writes ws, in any prefix of their order, lead from d to a directory that
\* can be recovered, and all of them to e, where u is the usage.
MutationOK(d, ws, e, u, bg, rf, hd, cf) ==
  /\ Good(d, bg, rf, hd, cf) /\ ~needsRebuild(d)
  /\ Queue(ws)
  /\ \A v \in pending(ws) : v.file \notin {"marker", "usage", "publication"}
  /\ \A Q \in SUBSET pending(ws) : Closed(ws, Q) =>
       Recoverable(after(d, Q)) /\ Known(after(d, Q), bg, rf, hd, cf)
  /\ e = after(d, pending(ws))
  /\ IsFiniteSet(DOMAIN e.reservations) /\ IsFiniteSet(DOMAIN e.index)
  /\ \A i \in DOMAIN e.records : e.records[i].sequence \in DOMAIN e.sequences
  /\ settledReservations(e) = {}
  /\ u = usageWith(e, u.blocked)

MutationSafe(d, ws, e, u, bg, rf, hd, cf) ==
  /\ Queue(mutation(ws, u))
  /\ Safe(d, mutation(ws, u), bg, rf, hd, cf)
  /\ ~needsRebuild(after(d, pending(mutation(ws, u))))
  /\ same(e, after(d, pending(mutation(ws, u))))

\* Between beginMutationLocked and finishMutationLocked a crash finds the marker;
\* afterwards the usage is exact.
LEMMA Mutation ==
  ASSUME NEW bg, NEW rf, NEW hd, NEW cf, NEW d, NEW ws, NEW e, NEW u,
         MutationOK(d, ws, e, u, bg, rf, hd, cf)
  PROVE  MutationSafe(d, ws, e, u, bg, rf, hd, cf)
<1> USE DEF MutationOK
<1> DEFINE M == put("marker", "only", TRUE)
           U == put("usage", "only", u)
           R == remove("marker", "only")
           heads == <<{M}>>
           tails == <<{U}>> \o <<{R}>>
           xs == mutation(ws, u)
<1>1. xs = (heads \o ws) \o tails
  <2>1. <<{U}, {R}>> = <<{U}>> \o <<{R}>>
    BY PairOfStages
  <2> QED BY <2>1 DEF mutation, marked, only, drop
<1>2. /\ M.file = "marker" /\ M.key = "only" /\ M.content = <<TRUE>>
      /\ U.file = "usage" /\ U.key = "only" /\ U.content = <<u>>
      /\ R.file = "marker" /\ R.key = "only" /\ R.content = << >>
  BY DEF put, remove
<1>3. <<TRUE>> # << >> /\ <<u>> # << >> /\ <<u>>[1] = u
  OBVIOUS
<1> HIDE DEF M, U, R
<1>4. IsWrite(M) /\ IsWrite(U) /\ IsWrite(R) /\ M # U /\ M # R /\ U # R
  BY <1>2, <1>3 DEF IsWrite, Files
<1>5. puts(M, M.file, M.key) /\ removes(R, R.file, R.key)
  BY <1>2, <1>3 DEF puts, removes
<1>6. Queue(heads) /\ pending(heads) = {M} /\ Queue(<<{U}>>) /\ pending(<<{U}>>) = {U}
      /\ Queue(<<{R}>>) /\ pending(<<{R}>>) = {R}
  BY <1>4, QueueStage, FS_Singleton
<1>7. Queue(tails) /\ pending(tails) = {U} \cup {R}
      /\ \A Q : Closed(tails, Q) => (R \in Q => U \in Q)
  <2>1. \A v \in {U}, w \in {R} : v # w /\ ~agree(v, w)
    BY <1>2, <1>4 DEF agree
  <2>2. /\ Queue(<<{U}>> \o <<{R}>>)
        /\ pending(<<{U}>> \o <<{R}>>) = pending(<<{U}>>) \cup pending(<<{R}>>)
        /\ \A Q : Closed(<<{U}>> \o <<{R}>>, Q) =>
             ((\E w \in pending(<<{R}>>) : w \in Q) => pending(<<{U}>>) \subseteq Q)
    <3>1. \A v \in pending(<<{U}>>), w \in pending(<<{R}>>) :
            v # w /\ (agree(v, w) => puts(v, v.file, v.key) /\ removes(w, w.file, w.key))
      BY <1>6, <2>1
    <3> QED BY <1>6, <3>1, QueueConcat
  <2> QED BY <1>6, <2>2
<1> HIDE DEF heads, tails
<1>8. Queue(heads \o ws) /\ pending(heads \o ws) = {M} \cup pending(ws)
      /\ \A Q : Closed(heads \o ws, Q) => Closed(ws, Q) /\ ((\E w \in pending(ws) : w \in Q) => M \in Q)
  <2>1. \A v \in {M}, w \in pending(ws) : v # w /\ ~agree(v, w)
    BY <1>2 DEF agree
  <2> QED BY <1>6, <2>1, QueueConcat
<1>9. Queue(xs) /\ pending(xs) = ({M} \cup pending(ws)) \cup ({U} \cup {R})
      /\ \A Q : Closed(xs, Q) =>
           /\ Closed(heads \o ws, Q) /\ Closed(tails, Q)
           /\ (\E w \in {U} \cup {R} : w \in Q) => {M} \cup pending(ws) \subseteq Q
  <2>1. ASSUME NEW v \in {M} \cup pending(ws), NEW w \in {U} \cup {R}
        PROVE  v # w /\ (agree(v, w) => puts(v, v.file, v.key) /\ removes(w, w.file, w.key))
    <3>1. CASE v = M
      BY <1>2, <1>4, <1>5, <3>1 DEF agree
    <3>2. CASE v \in pending(ws)
      BY <1>2, <3>2 DEF agree
    <3> QED BY <3>1, <3>2
  <2> HIDE DEF xs
  <2>2. /\ Queue((heads \o ws) \o tails)
        /\ pending((heads \o ws) \o tails) = pending(heads \o ws) \cup pending(tails)
        /\ \A Q : Closed((heads \o ws) \o tails, Q) =>
             /\ Closed(heads \o ws, Q) /\ Closed(tails, Q)
             /\ (\E w \in pending(tails) : w \in Q) => pending(heads \o ws) \subseteq Q
    BY <1>7, <1>8, <2>1, QueueConcat
  <2> QED BY <1>1, <1>7, <1>8, <2>2
<1> HIDE DEF xs
<1>10. \A w \in pending(xs) : IsWrite(w)
  BY <1>9 DEF Queue
<1>11. IsDirectory(d) /\ ~InFlight(d)
  BY DEF Good, Recoverable, needsRebuild, InFlight
<1>12. ASSUME NEW Q \in SUBSET pending(xs), Closed(xs, Q), Q # {}
       PROVE  /\ M \in Q /\ (R \in Q => Q = pending(xs))
              /\ Closed(ws, Q \cap pending(ws))
  <2>1. Closed(ws, Q)
    BY <1>8, <1>9, <1>12
  <2>2. Closed(ws, Q \cap pending(ws))
    BY <2>1 DEF Closed, pending
  <2>3. M \in Q
    BY <1>8, <1>9, <1>12
  <2>4. R \in Q => Q = pending(xs)
    BY <1>7, <1>9, <1>12
  <2> QED BY <2>2, <2>3, <2>4
<1>13. ASSUME NEW Q \in SUBSET pending(xs), Closed(xs, Q), Q # {}
       PROVE  /\ Recoverable(after(d, Q)) /\ Known(after(d, Q), bg, rf, hd, cf)
              /\ same(after(d, Q \cap pending(ws)), after(d, Q))
  <2> DEFINE P == Q \cap pending(ws)
             a == after(d, P)
             g == after(d, Q)
  <2>1. Recoverable(a) /\ Known(a, bg, rf, hd, cf)
    BY <1>12, <1>13
  <2>2. \A v : v \in Q \ P \/ v \in P \ Q => v \in {M, U, R}
    BY <1>9
  <2>3. same(a, g)
    BY <1>2, <2>2, AfterSame
  <2>4. IsDirectory(g)
    <3>1. IsFiniteSet(Q)
      BY <1>9, FS_Subset DEF Queue
    <3> QED BY <1>10, <1>11, <3>1, AfterIsDirectory
  <2> QED BY <2>1, <2>3, <2>4, SameRecoverable, SameKnown
<1>14. ASSUME NEW Q \in SUBSET pending(xs), M \in Q, R \notin Q
       PROVE  needsRebuild(after(d, Q))
  <2>1. puts(M, "marker", "only")
    BY <1>2, <1>5
  <2>2. \A v \in Q : ~removes(v, "marker", "only")
    BY <1>2, <1>3, <1>9, <1>14 DEF removes
  <2>3. "only" \in DOMAIN after(d, Q)["marker"]
    BY <1>14, <2>1, <2>2, AfterKeys DEF Files
  <2> QED BY <2>3 DEF needsRebuild, Exists
<1> DEFINE g == after(d, pending(xs))
<1>15. same(e, g) /\ g.reservations = e.reservations
  <2>1. \A v : v \in pending(xs) \ pending(ws) \/ v \in pending(ws) \ pending(xs) => v \in {M, U, R}
    BY <1>9
  <2>2. same(e, g)
    BY <1>2, <2>1, AfterSame
  <2>3. \A v : v.file = "reservations" => (v \in pending(ws) <=> v \in pending(xs))
    BY <1>2, <2>1
  <2>4. "reservations" \in Files
    BY DEF Files
  <2> QED BY <2>2, <2>3, <2>4, AfterAgrees
<1>16. Exists(g, "usage") /\ usageOf(g) = u
  <2>1. \A v \in pending(xs) : v.file = "usage" => v = U
    BY <1>2, <1>9
  <2>2. puts(U, "usage", "only") /\ U \in pending(xs) /\ ~removes(U, "usage", "only")
    BY <1>2, <1>3, <1>9 DEF puts, removes
  <2>3. "only" \in DOMAIN g["usage"]
    <3>1. ~\E v \in pending(xs) : removes(v, "usage", "only")
      BY <2>1, <2>2 DEF removes
    <3> QED BY <2>2, <3>1, AfterKeys DEF Files
  <2>4. (CHOOSE v \in pending(xs) : puts(v, "usage", "only")) = U
    BY <2>1, <2>2 DEF puts
  <2>5. contentAfter(d, pending(xs), "usage", "only") = u
    BY <1>2, <1>3, <2>2, <2>4 DEF contentAfter
  <2>6. g["usage"]["only"] = u
    BY <2>3, <2>5, AfterContent DEF Files
  <2> QED BY <2>3, <2>6 DEF Exists, usageOf, Only
<1>17. ~Exists(g, "marker") /\ ~InFlight(g)
  <2>1. ~Exists(g, "marker")
    <3>1. removes(R, "marker", "only") /\ R \in pending(xs)
      BY <1>2, <1>5, <1>9
    <3>2. "only" \notin DOMAIN g["marker"]
      BY <3>1, AfterKeys DEF Files
    <3>3. IsDirectory(g)
      BY <1>9, <1>10, <1>11, AfterIsDirectory DEF Queue
    <3> QED BY <3>2, <3>3 DEF IsDirectory, SingleFiles, Exists
  <2>2. e["publication"] = d["publication"]
    BY <1>11, AfterUntouched DEF Files
  <2>3. ~InFlight(e)
    BY <1>11, <2>2 DEF InFlight, Exists
  <2> QED BY <1>15, <2>1, <2>3, SameParts
<1>18. ~needsRebuild(g)
  BY <1>16, <1>17 DEF needsRebuild, InFlight
<1>19. TrustedOK(g)
  <2>1. settledReservations(g) = settledReservations(e)
    BY <1>15 DEF settledReservations, same
  <2>2. accountedUsage(g) = usageWith(e, u.blocked)
    <3>1. checkpointOf(g) = checkpointOf(e) /\ charge(g, "descriptor", DescriptorCharge) = charge(e, "descriptor", DescriptorCharge)
      BY <1>15, SameParts DEF charge
    <3>2. charge(g, "checkpoint", CheckpointCharge) = charge(e, "checkpoint", CheckpointCharge)
      BY <1>15 DEF charge, same, Exists
    <3> QED BY <1>15, <1>16, <2>1, <3>1, <3>2 DEF accountedUsage, usageWith, same
  <2>3. usageOf(g) = accountedUsage(g)
    BY <1>16, <2>2
  <2> QED BY <1>15, <2>1, <2>3 DEF TrustedOK, same
<1>20. ASSUME NEW Q \in SUBSET pending(xs), Closed(xs, Q)
       PROVE  Good(after(d, Q), bg, rf, hd, cf)
  <2>1. CASE Q = {}
    BY <1>11, <2>1, AfterNothing
  <2>2. CASE Q # {} /\ R \notin Q
    <3>1. needsRebuild(after(d, Q))
      BY <1>12, <1>14, <1>20, <2>2
    <3> QED BY <1>13, <1>20, <2>2, <3>1 DEF Good, TrustedOK
  <2>3. CASE R \in Q
    <3>1. Q = pending(xs)
      BY <1>12, <1>20, <2>3
    <3> QED BY <1>13, <1>19, <1>20, <2>3, <3>1 DEF Good
  <2> QED BY <2>1, <2>2, <2>3
<1> QED BY <1>9, <1>15, <1>18, <1>20 DEF Safe, xs, MutationSafe

-----------------------------------------------------------------------------
(* The calls that change one file.                                          *)

\* What is known of a directory whose usage is trusted.
LEMMA TrustedFacts ==
  ASSUME NEW d, Recoverable(d), TrustedOK(d), ~needsRebuild(d)
  PROVE  /\ IsDirectory(d) /\ ~InFlight(d) /\ batchOf(d) = << >>
         /\ settled(d) = checkpointOf(d) /\ kept(d) = DOMAIN d.records
         /\ Following(d.records, DOMAIN d.records, checkpointOf(d))
         /\ usageOf(d) = accountedUsage(d)
         /\ usageOf(d) = usageWith(d, usageOf(d).blocked)
         /\ \A i \in DOMAIN d.records : i \in Identity /\ d.records[i] \in [receipt : Receipt, sequence : Nat \ {0}]
         /\ IsFiniteSet(DOMAIN d.records) /\ IsFiniteSet(DOMAIN d.reservations)
         /\ settledReservations(d) = {}
<1>1. ~InFlight(d)
  BY DEF needsRebuild, InFlight
<1>2. batchOf(d) = << >> /\ settled(d) = checkpointOf(d)
  BY <1>1 DEF batchOf, settled
<1>3. DOMAIN << >> = {}
  OBVIOUS
<1>4. kept(d) = DOMAIN d.records
  BY <1>2, <1>3 DEF kept
<1>5. usageOf(d) = accountedUsage(d)
  BY DEF TrustedOK
<1>6. accountedUsage(d) = [accountedUsage(d) EXCEPT !.blocked = accountedUsage(d).blocked]
  BY DEF accountedUsage
<1> QED BY <1>1, <1>2, <1>4, <1>5, <1>6 DEF Recoverable, RecordsOK, TrustedOK, usageWith

\* Usage is its fields.
LEMMA SameUsage ==
  ASSUME NEW d, NEW e,
         accountedUsage(e).records = accountedUsage(d).records,
         accountedUsage(e).reservations = accountedUsage(d).reservations,
         accountedUsage(e).accepted = accountedUsage(d).accepted,
         accountedUsage(e).keys = accountedUsage(d).keys,
         accountedUsage(e).blocked = accountedUsage(d).blocked
  PROVE  accountedUsage(e) = [accountedUsage(d) EXCEPT !.used = accountedUsage(e).used]
<1>1. \A x : accountedUsage(x) =
        [used |-> accountedUsage(x).used, records |-> accountedUsage(x).records,
         reservations |-> accountedUsage(x).reservations, accepted |-> accountedUsage(x).accepted,
         keys |-> accountedUsage(x).keys, blocked |-> accountedUsage(x).blocked]
  BY DEF accountedUsage
<1>2. accountedUsage(d) =
        [used |-> accountedUsage(d).used, records |-> accountedUsage(d).records,
         reservations |-> accountedUsage(d).reservations, accepted |-> accountedUsage(d).accepted,
         keys |-> accountedUsage(d).keys, blocked |-> accountedUsage(d).blocked]
  BY <1>1
<1>3. accountedUsage(e) =
        [used |-> accountedUsage(e).used, records |-> accountedUsage(e).records,
         reservations |-> accountedUsage(e).reservations, accepted |-> accountedUsage(e).accepted,
         keys |-> accountedUsage(e).keys, blocked |-> accountedUsage(e).blocked]
  BY <1>1
<1> QED BY <1>2, <1>3

\* Nothing but the counter of refused calls.
LEMMA BlockSafe ==
  ASSUME NEW bg, NEW rf, NEW hd, NEW cf, NEW d, Good(d, bg, rf, hd, cf), ~needsRebuild(d), NEW n,
         NEW u, u = [usageOf(d) EXCEPT !.blocked = n]
  PROVE  Queue(mutation(<< >>, u)) /\ Safe(d, mutation(<< >>, u), bg, rf, hd, cf)
<1>1. /\ IsDirectory(d) /\ usageOf(d) = accountedUsage(d) /\ TrustedOK(d)
  BY TrustedFacts DEF Good
<1>2. pending(<< >>) = {} /\ Queue(<< >>)
  <2>1. DOMAIN << >> = {}
    OBVIOUS
  <2>2. pending(<< >>) = {}
    BY <2>1 DEF pending
  <2>3. << >> \in Seq(SUBSET {})
    OBVIOUS
  <2> QED BY <2>1, <2>2, <2>3, FS_EmptySet DEF Queue, Orderly
<1>3. after(d, {}) = d
  BY <1>1, AfterNothing
<1>4. u = usageWith(d, u.blocked)
  BY <1>1 DEF usageWith, accountedUsage
<1>5. \A Q \in SUBSET pending(<< >>) : Closed(<< >>, Q) =>
        Recoverable(after(d, Q)) /\ Known(after(d, Q), bg, rf, hd, cf)
  BY <1>2, <1>3 DEF Good
<1>6. MutationOK(d, << >>, d, u, bg, rf, hd, cf)
  BY <1>1, <1>2, <1>3, <1>4, <1>5 DEF MutationOK, TrustedOK
<1> QED BY <1>6, Mutation DEF MutationSafe

\* One write.
LEMMA OneWrite ==
  ASSUME NEW d, IsDirectory(d), NEW w, IsWrite(w)
  PROVE  /\ Queue(<<{w}>>) /\ pending(<<{w}>>) = {w}
         /\ \A Q \in SUBSET pending(<<{w}>>) : after(d, Q) = d \/ after(d, Q) = written(d, w)
         /\ after(d, pending(<<{w}>>)) = written(d, w) /\ IsDirectory(written(d, w))
<1>1. Queue(<<{w}>>) /\ pending(<<{w}>>) = {w}
  BY QueueStage, FS_Singleton
<1>2. after(d, {}) = d
  BY AfterNothing
<1>3. IsDirectory(written(d, w)) /\ w.file \in Files
  BY WrittenIsDirectory DEF IsWrite
<1>4. after(written(d, w), {}) = written(d, w)
  BY <1>3, AfterNothing
<1>5. after(written(d, w), {}) = after(d, {} \cup {w})
  BY <1>3, AfterWritten
<1>6. {} \cup {w} = {w}
  OBVIOUS
<1>7. after(d, {w}) = written(d, w)
  BY <1>4, <1>5, <1>6
<1>8. \A Q \in SUBSET {w} : Q = {} \/ Q = {w}
  OBVIOUS
<1> QED BY <1>1, <1>2, <1>3, <1>7, <1>8

\* One reservation file is written or removed, and the usage counts it.
LEMMA ReservationSafe ==
  ASSUME NEW bg, NEW rf, NEW hd, NEW cf, NEW d, Good(d, bg, rf, hd, cf), ~needsRebuild(d),
         NEW w, w.file = "reservations",
         NEW rs, IsFiniteSet(rs), rs \cap DOMAIN d.records = {},
         DOMAIN written(d, w).reservations = rs,
         NEW u, u = [usageOf(d) EXCEPT !.reservations = Cardinality(rs)]
  PROVE  Queue(mutation(<<{w}>>, u)) /\ Safe(d, mutation(<<{w}>>, u), bg, rf, hd, cf)
<1> DEFINE e == written(d, w)
<1>1. /\ IsDirectory(d) /\ usageOf(d) = accountedUsage(d) /\ TrustedOK(d)
      /\ Recoverable(d) /\ Known(d, bg, rf, hd, cf)
  BY TrustedFacts DEF Good
<1>2. IsWrite(w)
  BY DEF IsWrite, Files, SingleFiles
<1>3. /\ Queue(<<{w}>>) /\ pending(<<{w}>>) = {w}
      /\ \A Q \in SUBSET pending(<<{w}>>) : after(d, Q) = d \/ after(d, Q) = e
      /\ after(d, pending(<<{w}>>)) = e /\ IsDirectory(e)
  BY <1>1, <1>2, OneWrite
<1>4. same(d, e) /\ d.usage = e.usage
  <2>1. \A f \in Files : f # w.file => e[f] = d[f]
    BY <1>1, <1>2, WrittenFile DEF IsWrite
  <2> HIDE DEF e
  <2> QED BY <2>1 DEF same, Files
<1> HIDE DEF e
<1>5. Recoverable(e) /\ Known(e, bg, rf, hd, cf)
  BY <1>1, <1>3, <1>4, SameRecoverable, SameKnown
<1>6. settledReservations(e) = {} /\ DOMAIN e.reservations \ settledReservations(e) = rs
  BY <1>4 DEF settledReservations, same, e
<1>7. u = usageWith(e, u.blocked)
  <2>1. checkpointOf(e) = checkpointOf(d) /\ charge(e, "descriptor", DescriptorCharge) = charge(d, "descriptor", DescriptorCharge)
    BY <1>4, SameParts DEF charge
  <2>2. charge(e, "checkpoint", CheckpointCharge) = charge(d, "checkpoint", CheckpointCharge)
    BY <1>4 DEF charge, same, Exists
  <2>3. u = [accountedUsage(d) EXCEPT !.reservations = Cardinality(rs)]
    BY <1>1
  <2>4. u.blocked = accountedUsage(d).blocked
    BY <2>3 DEF accountedUsage
  <2>5. accountedUsage(d).blocked = accountedUsage(e).blocked
    BY <1>4 DEF accountedUsage, usageOf, Exists, Only
  <2>6. [accountedUsage(d) EXCEPT !.reservations = Cardinality(rs)] = accountedUsage(e)
    BY <1>4, <1>6, <2>1, <2>2, <2>5 DEF accountedUsage, same
  <2>7. accountedUsage(e) = usageWith(e, accountedUsage(e).blocked)
    BY DEF accountedUsage, usageWith
  <2> QED BY <2>3, <2>4, <2>5, <2>6, <2>7
<1>8. \A v \in pending(<<{w}>>) : v.file \notin {"marker", "usage", "publication"}
  BY <1>3
<1>9. \A Q \in SUBSET pending(<<{w}>>) : Closed(<<{w}>>, Q) =>
        Recoverable(after(d, Q)) /\ Known(after(d, Q), bg, rf, hd, cf)
  BY <1>1, <1>3, <1>5
<1>10. IsFiniteSet(DOMAIN e.index) /\ \A i \in DOMAIN e.records : e.records[i].sequence \in DOMAIN e.sequences
  BY <1>1, <1>4 DEF TrustedOK, same
<1>11. IsFiniteSet(DOMAIN e.reservations)
  BY DEF e
<1>12. MutationOK(d, <<{w}>>, e, u, bg, rf, hd, cf)
  BY <1>3, <1>6, <1>7, <1>8, <1>9, <1>10, <1>11 DEF MutationOK
<1> QED BY <1>12, Mutation DEF MutationSafe

\* A reservation is safe at each of its writes.
LEMMA ReserveSafe ==
  ASSUME NEW bg, NEW rf, NEW hd, NEW cf, NEW d, Good(d, bg, rf, hd, cf), ~needsRebuild(d),
         NEW i, i \notin DOMAIN d.reservations, i \notin DOMAIN d.records, NEW t,
         NEW u, u = reservedUsage(usageOf(d))
  PROVE  /\ Queue(mutation(<<{put("reservations", i, t)}>>, u))
         /\ Safe(d, mutation(<<{put("reservations", i, t)}>>, u), bg, rf, hd, cf)
<1> DEFINE w == put("reservations", i, t)
           rs == DOMAIN d.reservations \cup {i}
<1>1. /\ IsDirectory(d) /\ usageOf(d) = accountedUsage(d) /\ settledReservations(d) = {}
      /\ IsFiniteSet(DOMAIN d.reservations)
  BY TrustedFacts DEF Good
<1>2. w.file = "reservations" /\ w.key = i /\ w.content = <<t>> /\ w.content # << >>
  BY DEF put
<1>3. DOMAIN written(d, w).reservations = rs
  <2> HIDE DEF w
  <2>1. "reservations" \in Files
    BY DEF Files
  <2> QED BY <1>1, <1>2, <2>1, WrittenFile
<1>4. IsFiniteSet(rs) /\ Cardinality(rs) = Cardinality(DOMAIN d.reservations) + 1
  BY <1>1, FS_AddElement
<1>5. rs \cap DOMAIN d.records = {}
  BY <1>1 DEF settledReservations
<1>6. usageOf(d).reservations = Cardinality(DOMAIN d.reservations)
  <2>1. DOMAIN d.reservations \ settledReservations(d) = DOMAIN d.reservations
    BY <1>1
  <2> QED BY <1>1, <2>1 DEF accountedUsage
<1>7. u = [usageOf(d) EXCEPT !.reservations = Cardinality(rs)]
  BY <1>1, <1>4, <1>6 DEF reservedUsage, accountedUsage
<1> HIDE DEF w, rs
<1>8. Queue(mutation(<<{w}>>, u)) /\ Safe(d, mutation(<<{w}>>, u), bg, rf, hd, cf)
  BY <1>2, <1>3, <1>4, <1>5, <1>7, ReservationSafe
<1> QED BY <1>8 DEF w

\* So is its cancellation.
LEMMA UnreserveSafe ==
  ASSUME NEW bg, NEW rf, NEW hd, NEW cf, NEW d, Good(d, bg, rf, hd, cf), ~needsRebuild(d),
         NEW i \in DOMAIN d.reservations,
         NEW u, u = [usageOf(d) EXCEPT !.reservations = @ - 1]
  PROVE  /\ Queue(mutation(<<{remove("reservations", i)}>>, u))
         /\ Safe(d, mutation(<<{remove("reservations", i)}>>, u), bg, rf, hd, cf)
<1> DEFINE w == remove("reservations", i)
           rs == DOMAIN d.reservations \ {i}
<1>1. /\ IsDirectory(d) /\ usageOf(d) = accountedUsage(d) /\ settledReservations(d) = {}
      /\ IsFiniteSet(DOMAIN d.reservations)
  BY TrustedFacts DEF Good
<1>2. w.file = "reservations" /\ w.key = i /\ w.content = << >>
  BY DEF remove
<1>3. DOMAIN written(d, w).reservations = rs
  <2> HIDE DEF w
  <2>1. "reservations" \in Files
    BY DEF Files
  <2> QED BY <1>1, <1>2, <2>1, WrittenFile
<1>4. IsFiniteSet(rs) /\ Cardinality(rs) = Cardinality(DOMAIN d.reservations) - 1
  BY <1>1, FS_RemoveElement
<1>5. rs \cap DOMAIN d.records = {}
  BY <1>1 DEF settledReservations
<1>6. usageOf(d).reservations = Cardinality(DOMAIN d.reservations)
  <2>1. DOMAIN d.reservations \ settledReservations(d) = DOMAIN d.reservations
    BY <1>1
  <2> QED BY <1>1, <2>1 DEF accountedUsage
<1>7. u = [usageOf(d) EXCEPT !.reservations = Cardinality(rs)]
  BY <1>1, <1>4, <1>6 DEF accountedUsage
<1> HIDE DEF w, rs
<1>8. Queue(mutation(<<{w}>>, u)) /\ Safe(d, mutation(<<{w}>>, u), bg, rf, hd, cf)
  BY <1>2, <1>3, <1>4, <1>5, <1>7, ReservationSafe
<1> QED BY <1>8 DEF w

\* The size of an interval.
LEMMA Interval ==
  ASSUME NEW c \in Nat, NEW t \in Nat, c <= t
  PROVE  IsFiniteSet(c + 1 .. t) /\ Cardinality(c + 1 .. t) = t - c
<1>1. PICK a \in Int : a = c + 1
  OBVIOUS
<1>2. IsFiniteSet(a .. t) /\ Cardinality(a .. t) = IF a > t THEN 0 ELSE t - a + 1
  BY FS_Interval
<1>3. (IF a > t THEN 0 ELSE t - a + 1) = t - c
  BY <1>1
<1> QED BY <1>1, <1>2, <1>3

\* Sequence numbers without a gap are as many as their records.
LEMMA NoGap ==
  ASSUME NEW records, NEW K, NEW cp, IsFiniteSet(K), cp.sequence \in Nat,
         \A i \in K : records[i].sequence \in Nat,
         Following(records, K, cp)
  PROVE  /\ Cardinality(K) \in Nat
         /\ {records[i].sequence : i \in K} = cp.sequence + 1 .. cp.sequence + Cardinality(K)
<1> DEFINE T == {records[i].sequence : i \in K}
           f == [i \in K |-> records[i].sequence]
           n == Cardinality(K)
           c == cp.sequence
<1>1. f \in Bijection(K, T)
  BY DEF Following, Bijection, Injection, Surjection, IsInjective
<1>2. IsFiniteSet(T) /\ Cardinality(T) = n /\ n \in Nat
  <2>1. ExistsBijection(K, T)
    BY <1>1 DEF ExistsBijection
  <2> HIDE DEF T
  <2> QED BY <2>1, FS_Bijection, FS_CardinalityType
<1>3. \A t \in T : t \in Nat /\ t > c
  BY DEF Following
<1>4. \A t \in T : \A s \in c + 1 .. t : s \in T
  BY DEF Following
<1> HIDE DEF T, n, f
<1>5. ASSUME NEW t \in T PROVE t <= c + n
  <2> SUFFICES ASSUME t > c + n PROVE FALSE
    BY <1>2, <1>3
  <2>1. c + 1 .. t \in SUBSET T
    BY <1>4
  <2>2. t \in Nat /\ c \in Nat
    BY <1>3
  <2>3. Cardinality(c + 1 .. t) = t - c
    BY <1>2, <2>2, Interval
  <2>4. Cardinality(c + 1 .. t) <= n
    BY <1>2, <2>1, FS_Subset
  <2> QED BY <1>2, <2>2, <2>3, <2>4
<1>6. T \in SUBSET (c + 1 .. c + n)
  BY <1>2, <1>3, <1>5
<1>7. IsFiniteSet(c + 1 .. c + n) /\ Cardinality(c + 1 .. c + n) = n
  <2>1. PICK t \in Nat : t = c + n
    BY <1>2
  <2>2. IsFiniteSet(c + 1 .. t) /\ Cardinality(c + 1 .. t) = t - c
    BY <1>2, <2>1, Interval
  <2> QED BY <1>2, <2>1, <2>2
<1>8. T = c + 1 .. c + n
  BY <1>2, <1>6, <1>7, FS_Subset
<1> QED BY <1>2, <1>8 DEF T, n

\* The pending records of a trusted directory are counted, and numbered from the
\* checkpoint on.
LEMMA TrustedCounts ==
  ASSUME NEW d, Recoverable(d), TrustedOK(d), ~needsRebuild(d),
         NEW n, n = Cardinality(DOMAIN d.records),
         NEW c, c = checkpointOf(d).sequence
  PROVE  /\ n \in Nat /\ c \in Nat
         /\ usageOf(d).records = n /\ usageOf(d).accepted = c + n
         /\ \A i \in DOMAIN d.records : d.records[i].sequence \in c + 1 .. c + n
         /\ \A s \in c + 1 .. c + n : \E i \in DOMAIN d.records : d.records[i].sequence = s
<1>1. /\ Following(d.records, DOMAIN d.records, checkpointOf(d)) /\ usageOf(d) = accountedUsage(d)
      /\ IsFiniteSet(DOMAIN d.records)
      /\ \A i \in DOMAIN d.records : d.records[i] \in [receipt : Receipt, sequence : Nat \ {0}]
  BY TrustedFacts
<1>2. c \in Nat
  BY DEF Recoverable, CheckpointOK
<1>3. \A i \in DOMAIN d.records : d.records[i].sequence \in Nat
  BY <1>1
<1>4. n \in Nat /\ {d.records[i].sequence : i \in DOMAIN d.records} = c + 1 .. c + n
  BY <1>1, <1>2, <1>3, NoGap
<1>5. usageOf(d).records = n /\ usageOf(d).accepted = c + n
  BY <1>1 DEF accountedUsage
<1>6. \A i \in DOMAIN d.records : d.records[i].sequence \in c + 1 .. c + n
  BY <1>4
<1>7. \A s \in c + 1 .. c + n : \E i \in DOMAIN d.records : d.records[i].sequence = s
  BY <1>4
<1> QED BY <1>2, <1>4, <1>5, <1>6, <1>7

\* The oldest receipts are a batch.
LEMMA SelectedBatch ==
  ASSUME NEW d, Recoverable(d), TrustedOK(d), ~needsRebuild(d),
         usageOf(d).records > 0,
         NEW b, b = pendingRefs(d), \A k \in DOMAIN b : storedAs(d, b[k])
  PROVE  /\ IsBatch(b) /\ b[1].sequence = checkpointOf(d).sequence + 1
         /\ \A k \in DOMAIN b :
              /\ b[k].identity \in DOMAIN d.records
              /\ d.records[b[k].identity] = [receipt |-> b[k].receipt, sequence |-> b[k].sequence]
<1>1. PICK c : c = checkpointOf(d).sequence
  OBVIOUS
<1>2. PICK n : n = IF usageOf(d).records < MaxBatchRecords THEN usageOf(d).records ELSE MaxBatchRecords
  OBVIOUS
<1>3. c \in Nat /\ n \in Nat \ {0}
  BY <1>1, <1>2, TrustedCounts, ChargeAssumption
<1>4. b = [k \in 1 .. n |-> refAt(d, c + k)]
  BY <1>1, <1>2 DEF pendingRefs
<1>5. DOMAIN b = 1 .. n /\ \A k \in 1 .. n : b[k].sequence = c + k
  BY <1>4 DEF refAt
<1>6. ASSUME NEW k \in 1 .. n
      PROVE  /\ b[k].identity \in DOMAIN d.records
             /\ d.records[b[k].identity] = [receipt |-> b[k].receipt, sequence |-> b[k].sequence]
             /\ b[k] \in Ref
  <2>1. storedAs(d, b[k])
    BY <1>5
  <2>2. /\ b[k].identity \in DOMAIN d.records
        /\ d.records[b[k].identity] = [receipt |-> b[k].receipt, sequence |-> b[k].sequence]
    BY <2>1 DEF storedAs
  <2>3. b[k].identity \in Identity /\ d.records[b[k].identity] \in [receipt : Receipt, sequence : Nat \ {0}]
    BY <2>2, TrustedFacts
  <2>4. b[k].receipt \in Receipt /\ b[k].sequence \in Nat \ {0}
    BY <2>2, <2>3
  <2>5. b[k] = [identity |-> b[k].identity, receipt |-> b[k].receipt, sequence |-> b[k].sequence]
    BY <1>4 DEF refAt
  <2> QED BY <2>2, <2>3, <2>4, <2>5 DEF Ref
<1>7. b \in Seq(Ref) /\ b # << >>
  <2>1. b \in [1 .. n -> Ref]
    BY <1>4, <1>6
  <2>2. 1 \in DOMAIN b /\ DOMAIN << >> = {}
    BY <1>3, <1>5
  <2> QED BY <1>3, <2>1, <2>2, FunctionIsSeq
<1>8. b[1].sequence = c + 1 /\ \A k \in DOMAIN b : b[k].sequence = b[1].sequence + k - 1
  BY <1>3, <1>5
<1>9. ASSUME NEW j \in DOMAIN b, NEW k \in DOMAIN b, j < k,
             b[j].identity.operation = b[k].identity.operation
      PROVE  b[j].identity.generation < b[k].identity.generation
  <2>1. /\ b[j].identity \in DOMAIN d.records /\ b[k].identity \in DOMAIN d.records
        /\ d.records[b[j].identity].sequence = c + j
        /\ d.records[b[k].identity].sequence = c + k
    <3>1. ASSUME NEW l \in 1 .. n
          PROVE  b[l].identity \in DOMAIN d.records /\ d.records[b[l].identity].sequence = c + l
      <4>1. /\ b[l].identity \in DOMAIN d.records
            /\ d.records[b[l].identity] = [receipt |-> b[l].receipt, sequence |-> b[l].sequence]
        BY <1>6
      <4>2. b[l].sequence = c + l
        BY <1>5
      <4> QED BY <4>1, <4>2
    <3> QED BY <1>5, <3>1
  <2>2. c + j < c + k
    BY <1>3, <1>5, <1>9
  <2>3. Following(d.records, DOMAIN d.records, checkpointOf(d))
    BY TrustedFacts
  <2> QED BY <1>9, <2>1, <2>2, <2>3 DEF Following
<1> QED BY <1>1, <1>5, <1>6, <1>7, <1>8, <1>9 DEF IsBatch

\* Writing the descriptor of a batch is safe, and the batch is frozen by it.
LEMMA FreezeSafe ==
  ASSUME NEW bg, NEW rf, NEW hd, NEW cf, NEW d, Good(d, bg, rf, hd, cf), ~needsRebuild(d),
         ~Exists(d, "descriptor"), usageOf(d).records > 0,
         NEW b, b = pendingRefs(d), \A k \in DOMAIN b : storedAs(d, b[k]),
         NEW u, u = [usageOf(d) EXCEPT !.used = @ + DescriptorCharge]
  PROVE  \E e : /\ MutationSafe(d, <<frozen(b)>>, e, u, bg, rf, hd, cf)
                /\ ~InFlight(e) /\ Exists(e, "descriptor") /\ Only(e, "descriptor") = b
<1> DEFINE w == put("descriptor", "only", b)
           e == written(d, w)
<1>1. /\ IsDirectory(d) /\ usageOf(d) = accountedUsage(d) /\ TrustedOK(d)
      /\ Recoverable(d) /\ Known(d, bg, rf, hd, cf)
  BY TrustedFacts DEF Good
<1>2. /\ IsBatch(b) /\ b[1].sequence = checkpointOf(d).sequence + 1
      /\ \A k \in DOMAIN b :
           /\ b[k].identity \in DOMAIN d.records
           /\ d.records[b[k].identity] = [receipt |-> b[k].receipt, sequence |-> b[k].sequence]
  BY <1>1, SelectedBatch
<1>3. w.file = "descriptor" /\ w.key = "only" /\ w.content[1] = b /\ w.content # << >>
  BY DEF put
<1>4. IsWrite(w)
  BY <1>3 DEF IsWrite, Files
<1>5. frozen(b) = {w}
  BY DEF frozen, only
<1> HIDE DEF w
<1>6. /\ Queue(<<{w}>>) /\ pending(<<{w}>>) = {w}
      /\ \A Q \in SUBSET pending(<<{w}>>) : after(d, Q) = d \/ after(d, Q) = e
      /\ after(d, pending(<<{w}>>)) = e /\ IsDirectory(e)
  BY <1>1, <1>4, OneWrite
<1> HIDE DEF e
<1>7. \A f \in Files : f # "descriptor" => e[f] = d[f]
  BY <1>1, <1>3, <1>4, WrittenFile DEF IsWrite, e
<1>8. /\ e.records = d.records /\ e.sequences = d.sequences /\ e.index = d.index
      /\ e.checkpoint = d.checkpoint /\ e.publication = d.publication /\ e.usage = d.usage
      /\ e.reservations = d.reservations
  BY <1>7 DEF Files
<1>9. Exists(e, "descriptor") /\ Only(e, "descriptor") = b
  <2>1. "descriptor" \in Files
    BY DEF Files
  <2>2. "only" \in DOMAIN e["descriptor"] /\ e["descriptor"]["only"] = b
    BY <1>1, <1>3, <1>4, <2>1, WrittenFile DEF IsWrite, e
  <2> QED BY <2>2 DEF Exists, Only
<1>10. ~InFlight(d) /\ ~InFlight(e)
  BY <1>1, <1>8, TrustedFacts DEF InFlight, Exists
<1>11. /\ checkpointOf(e) = checkpointOf(d) /\ batchOf(e) = batchOf(d)
       /\ settled(e) = settled(d) /\ kept(e) = kept(d)
  <2>1. checkpointOf(e) = checkpointOf(d)
    BY <1>8 DEF checkpointOf, Exists, Only
  <2>2. batchOf(e) = batchOf(d)
    BY <1>10 DEF batchOf
  <2> QED BY <1>8, <1>10, <2>1, <2>2 DEF settled, kept
<1>12. Recoverable(e)
  <2>1. CheckpointOK(e)
    BY <1>1, <1>11 DEF Recoverable, CheckpointOK
  <2>2. RecordsOK(e) /\ SequencesOK(e)
    BY <1>1, <1>8, <1>11 DEF Recoverable, RecordsOK, SequencesOK
  <2>3. TransactionOK(e)
    BY <1>10 DEF TransactionOK
  <2>4. NoTransactionOK(e)
    BY <1>1, <1>2, <1>8, <1>9, <1>10, <1>11 DEF Recoverable, NoTransactionOK
  <2> QED BY <1>6, <2>1, <2>2, <2>3, <2>4 DEF Recoverable
<1>13. Known(e, bg, rf, hd, cf)
  <2>1. \A i : covers(d, i) <=> covers(e, i)
    BY <1>11 DEF covers
  <2>2. \A r : RefKept(d, r, cf) <=> RefKept(e, r, cf)
    BY <1>8, <1>11, <2>1 DEF RefKept
  <2>3. \A a : BatchKept(d, a) => BatchKept(e, a)
    BY <1>11, <2>1 DEF BatchKept
  <2> QED BY <1>1, <1>8, <1>10, <1>11, <2>2, <2>3 DEF Known
<1>14. settledReservations(e) = {}
  BY <1>1, <1>8, TrustedFacts DEF settledReservations
<1>15. u = usageWith(e, u.blocked)
  <2>1. charge(d, "descriptor", DescriptorCharge) = 0 /\ charge(e, "descriptor", DescriptorCharge) = DescriptorCharge
        /\ charge(d, "checkpoint", CheckpointCharge) = charge(e, "checkpoint", CheckpointCharge)
    BY <1>8, <1>9 DEF charge, Exists
  <2>2. PICK x : x = Cardinality(DOMAIN d.records) * RecordCharge
            + Cardinality(DOMAIN d.index) * IndexCharge + charge(d, "checkpoint", CheckpointCharge)
    OBVIOUS
  <2>3. x \in Nat /\ DescriptorCharge \in Nat
    <3>1. Cardinality(DOMAIN d.records) \in Nat /\ Cardinality(DOMAIN d.index) \in Nat
      BY <1>1, FS_CardinalityType, TrustedFacts DEF TrustedOK
    <3>2. RecordCharge \in Nat /\ IndexCharge \in Nat /\ DescriptorCharge \in Nat
          /\ charge(d, "checkpoint", CheckpointCharge) \in Nat
      BY ChargeAssumption DEF charge
    <3>3. \A p, q, r, s, t \in Nat : p * q + r * s + t \in Nat
      OBVIOUS
    <3> QED BY <2>2, <3>1, <3>2, <3>3
  <2>4. accountedUsage(d).used = x + 0 /\ accountedUsage(e).used = x + DescriptorCharge
    BY <1>8, <2>1, <2>2 DEF accountedUsage
  <2>5. accountedUsage(d).blocked = accountedUsage(e).blocked
    BY <1>8 DEF accountedUsage, usageOf, Exists, Only
  <2>6. accountedUsage(e) = [accountedUsage(d) EXCEPT !.used = accountedUsage(e).used]
    <3>1. settledReservations(d) = settledReservations(e)
      BY <1>8 DEF settledReservations
    <3>2. /\ accountedUsage(e).records = accountedUsage(d).records
          /\ accountedUsage(e).reservations = accountedUsage(d).reservations
          /\ accountedUsage(e).accepted = accountedUsage(d).accepted
          /\ accountedUsage(e).keys = accountedUsage(d).keys
      BY <1>8, <1>11, <3>1 DEF accountedUsage
    <3> QED BY <2>5, <3>2, SameUsage
  <2>7. u = accountedUsage(e)
    BY <1>1, <2>3, <2>4, <2>6
  <2> QED BY <2>7 DEF accountedUsage, usageWith
<1>16. MutationOK(d, <<{w}>>, e, u, bg, rf, hd, cf)
  BY <1>1, <1>3, <1>6, <1>8, <1>12, <1>13, <1>14, <1>15 DEF MutationOK, TrustedOK
<1>17. MutationSafe(d, <<{w}>>, e, u, bg, rf, hd, cf)
  BY <1>16, Mutation
<1> QED BY <1>5, <1>9, <1>10, <1>17

-----------------------------------------------------------------------------
(* An append.                                                               *)

\* A file after writes that only remove.
LEMMA AfterRemoves ==
  ASSUME NEW d, NEW Q, NEW f \in Files, \A v \in Q : v.file = f => v.content = << >>
  PROVE  /\ \A k : k \in DOMAIN after(d, Q)[f] <=>
                     k \in DOMAIN d[f] /\ ~\E v \in Q : v.file = f /\ v.key = k
         /\ \A k \in DOMAIN after(d, Q)[f] : after(d, Q)[f][k] = d[f][k]
<1>1. \A k : ~\E v \in Q : puts(v, f, k)
  BY DEF puts
<1>2. \A k : (\E v \in Q : removes(v, f, k)) <=> \E v \in Q : v.file = f /\ v.key = k
  BY DEF removes
<1>3. \A k : k \in DOMAIN after(d, Q)[f] <=>
               k \in DOMAIN d[f] /\ ~\E v \in Q : v.file = f /\ v.key = k
  BY <1>1, <1>2, AfterKeys
<1>4. \A k \in DOMAIN after(d, Q)[f] : after(d, Q)[f][k] = d[f][k]
  BY <1>1, AfterContent DEF contentAfter
<1> QED BY <1>3, <1>4

\* A file after writes that remove nothing of it.
LEMMA AfterPuts ==
  ASSUME NEW d, NEW Q, NEW f \in Files, \A v \in Q : v.file = f => v.content # << >>,
         \A v, w \in Q : v.file = f /\ w.file = f /\ v.key = w.key => v = w
  PROVE  /\ \A k : k \in DOMAIN after(d, Q)[f] <=>
                     k \in DOMAIN d[f] \/ \E v \in Q : v.file = f /\ v.key = k
         /\ \A v \in Q : v.file = f => after(d, Q)[f][v.key] = v.content[1]
         /\ \A k \in DOMAIN d[f] : (~\E v \in Q : v.file = f /\ v.key = k) =>
                                      after(d, Q)[f][k] = d[f][k]
<1>1. \A k : ~\E v \in Q : removes(v, f, k)
  BY DEF removes
<1>2. \A k : (\E v \in Q : puts(v, f, k)) <=> \E v \in Q : v.file = f /\ v.key = k
  BY DEF puts
<1>3. \A k : k \in DOMAIN after(d, Q)[f] <=>
               k \in DOMAIN d[f] \/ \E v \in Q : v.file = f /\ v.key = k
  BY <1>1, <1>2, AfterKeys
<1>4. ASSUME NEW v \in Q, v.file = f PROVE after(d, Q)[f][v.key] = v.content[1]
  <2>1. puts(v, f, v.key) /\ \A w \in Q : puts(w, f, v.key) => w = v
    BY <1>4 DEF puts
  <2>2. (CHOOSE w \in Q : puts(w, f, v.key)) = v
    BY <2>1
  <2>3. v.key \in DOMAIN after(d, Q)[f]
    BY <1>3, <1>4
  <2> QED BY <2>1, <2>2, <2>3, AfterContent DEF contentAfter
<1>5. ASSUME NEW k \in DOMAIN d[f], ~\E v \in Q : v.file = f /\ v.key = k
      PROVE  after(d, Q)[f][k] = d[f][k]
  <2>1. k \in DOMAIN after(d, Q)[f]
    BY <1>3
  <2>2. ~\E v \in Q : puts(v, f, k)
    BY <1>2, <1>5
  <2> QED BY <2>1, <2>2, AfterContent DEF contentAfter
<1> QED BY <1>3, <1>4, <1>5

usage(us, rc, rs, ac, ks, bl) ==
  [used |-> us, records |-> rc, reservations |-> rs, accepted |-> ac, keys |-> ks, blocked |-> bl]

\* Usage is its fields.
LEMMA UsageParts ==
  ASSUME NEW us, NEW rc, NEW rs, NEW ac, NEW ks, NEW bl,
         NEW u, u = usage(us, rc, rs, ac, ks, bl), NEW n
  PROVE  /\ u.used = us /\ u.records = rc /\ u.reservations = rs /\ u.accepted = ac
         /\ u.keys = ks /\ u.blocked = bl
         /\ [u EXCEPT !.blocked = n] = usage(us, rc, rs, ac, ks, n)
BY DEF usage

\* The usage of a directory, from its parts.
LEMMA UsageIs ==
  ASSUME NEW e, NEW us, NEW rc, NEW rs, NEW ac, NEW ks, NEW bl,
         NEW u, u = usage(us, rc, rs, ac, ks, bl),
         accountedUsage(e).used = us, accountedUsage(e).records = rc,
         accountedUsage(e).reservations = rs, accountedUsage(e).accepted = ac,
         accountedUsage(e).keys = ks
  PROVE  u = usageWith(e, u.blocked)
<1>1. accountedUsage(e) = usage(accountedUsage(e).used, accountedUsage(e).records,
                                accountedUsage(e).reservations, accountedUsage(e).accepted,
                                accountedUsage(e).keys, accountedUsage(e).blocked)
  BY DEF accountedUsage, usage
<1>2. accountedUsage(e) = usage(us, rc, rs, ac, ks, accountedUsage(e).blocked)
  BY <1>1
<1>3. usageWith(e, bl) = usage(us, rc, rs, ac, ks, bl)
  BY <1>2, UsageParts DEF usageWith
<1>4. u.blocked = bl
  BY UsageParts
<1> QED BY <1>3, <1>4

\* Attempts of one operation differ in their generation.
LEMMA SameAttempt ==
  ASSUME NEW i \in Identity, NEW j \in Identity, i.operation = j.operation
  PROVE  /\ i.generation = j.generation => i = j
         /\ i.generation \in Nat /\ j.generation \in Nat
BY IdentityAssumption

\* e is d with the receipt r of i as its last one.
Appended(d, e, i, r, s) ==
  /\ e.index = d.index /\ e.checkpoint = d.checkpoint /\ e.descriptor = d.descriptor
  /\ e.publication = d.publication
  /\ DOMAIN e.records = DOMAIN d.records \cup {i}
  /\ e.records[i] = [receipt |-> r, sequence |-> s]
  /\ \A j \in DOMAIN d.records : j # i => e.records[j] = d.records[j]
  /\ \A q \in DOMAIN e.sequences :
       \/ q \in DOMAIN d.sequences /\ e.sequences[q] = d.sequences[q]
       \/ q = s /\ e.sequences[q] = [identity |-> i, receipt |-> r]

Appendable(d, i, r, bg) ==
  /\ i \in Identity /\ r \in Receipt /\ i \notin DOMAIN d.records
  /\ i.operation \in DOMAIN d.index => d.index[i.operation].identity.generation < i.generation
  /\ i.generation = bg[i.operation]

\* The appended record follows the others without a gap, in the order of the
\* attempts of its operation.
LEMMA AppendedRecords ==
  ASSUME NEW bg, NEW rf, NEW hd, NEW cf, NEW d, Good(d, bg, rf, hd, cf), ~needsRebuild(d),
         NEW i, NEW r, Appendable(d, i, r, bg),
         NEW s, s = nextSequence(usageOf(d)), NEW e, Appended(d, e, i, r, s)
  PROVE  Following(e.records, DOMAIN e.records, checkpointOf(d)) /\ s \in Nat \ {0}
<1>1. PICK c : c = checkpointOf(d).sequence
  OBVIOUS
<1>2. PICK n : n = Cardinality(DOMAIN d.records)
  OBVIOUS
<1>3. Recoverable(d) /\ TrustedOK(d) /\ Known(d, bg, rf, hd, cf)
  BY DEF Good
<1>4. /\ n \in Nat /\ c \in Nat /\ usageOf(d).accepted = c + n
      /\ \A j \in DOMAIN d.records : d.records[j].sequence \in c + 1 .. c + n
      /\ \A q \in c + 1 .. c + n : \E j \in DOMAIN d.records : d.records[j].sequence = q
  BY <1>1, <1>2, <1>3, TrustedCounts
<1>5. s = c + n + 1
  BY <1>4 DEF nextSequence
<1>6. /\ Following(d.records, DOMAIN d.records, checkpointOf(d))
      /\ \A j \in DOMAIN d.records : j \in Identity
      /\ d.index = checkpointOf(d).indexed
  BY <1>3, TrustedFacts DEF Recoverable, NoTransactionOK
<1>7. e.records[i].sequence = s
  BY DEF Appended
<1>8. \A j \in DOMAIN d.records : j # i /\ e.records[j] = d.records[j]
  BY DEF Appended, Appendable
<1>9. ASSUME NEW j \in DOMAIN d.records, j.operation = i.operation PROVE j.generation < i.generation
  <2>1. j.generation <= i.generation
    BY <1>3, <1>9 DEF Known, Appendable
  <2> QED BY <1>6, <1>8, <1>9, <2>1, SameAttempt DEF Appendable
<1>10. ASSUME NEW j \in DOMAIN e.records
       PROVE  /\ e.records[j].sequence > c
              /\ j.operation \in DOMAIN checkpointOf(d).indexed =>
                   checkpointOf(d).indexed[j.operation].identity.generation < j.generation
              /\ \A q \in c + 1 .. e.records[j].sequence :
                   \E k \in DOMAIN e.records : e.records[k].sequence = q
  <2>1. \A q \in c + 1 .. c + n : \E k \in DOMAIN e.records : e.records[k].sequence = q
    BY <1>4, <1>8 DEF Appended
  <2>2. \A q \in c + 1 .. s : \E k \in DOMAIN e.records : e.records[k].sequence = q
    <3>1. \A q \in c + 1 .. s : q = s \/ q \in c + 1 .. c + n
      BY <1>4, <1>5
    <3> QED BY <1>7, <2>1, <3>1 DEF Appended
  <2>3. CASE j = i
    BY <1>4, <1>5, <1>6, <1>7, <2>2, <2>3 DEF Appendable
  <2>4. CASE j \in DOMAIN d.records
    <3>1. e.records[j].sequence \in c + 1 .. c + n
      BY <1>4, <1>8, <2>4
    <3>2. \A q \in c + 1 .. e.records[j].sequence : q \in c + 1 .. s
      BY <1>4, <1>5, <3>1
    <3> QED BY <1>1, <1>4, <1>6, <2>2, <2>4, <3>1, <3>2 DEF Following
  <2> QED BY <2>3, <2>4 DEF Appended
<1>11. ASSUME NEW j \in DOMAIN e.records, NEW k \in DOMAIN e.records
       PROVE  /\ e.records[j].sequence = e.records[k].sequence => j = k
              /\ j.operation = k.operation /\ e.records[j].sequence < e.records[k].sequence
                   => j.generation < k.generation
  <2>1. (j = i \/ j \in DOMAIN d.records) /\ (k = i \/ k \in DOMAIN d.records)
    BY DEF Appended
  <2>2. CASE j \in DOMAIN d.records /\ k \in DOMAIN d.records
    BY <1>6, <1>8, <2>2 DEF Following
  <2>3. CASE j = i /\ k \in DOMAIN d.records
    <3>1. e.records[k].sequence \in c + 1 .. c + n
      BY <1>4, <1>8, <2>3
    <3> QED BY <1>4, <1>5, <1>7, <2>3, <3>1
  <2>4. CASE j \in DOMAIN d.records /\ k = i
    <3>1. e.records[j].sequence \in c + 1 .. c + n
      BY <1>4, <1>8, <2>4
    <3> QED BY <1>4, <1>5, <1>7, <1>9, <2>4, <3>1
  <2>5. CASE j = i /\ k = i
    BY <1>4, <1>5, <1>7, <2>5
  <2> QED BY <2>1, <2>2, <2>3, <2>4, <2>5
<1> QED BY <1>1, <1>4, <1>5, <1>10, <1>11 DEF Following

\* A directory with one more receipt can be recovered, and callers lose nothing.
LEMMA AppendedGood ==
  ASSUME NEW bg, NEW rf, NEW hd, NEW cf, NEW d, Good(d, bg, rf, hd, cf), ~needsRebuild(d),
         NEW i, NEW r, Appendable(d, i, r, bg),
         NEW s, s = nextSequence(usageOf(d)), NEW e, Appended(d, e, i, r, s), IsDirectory(e)
  PROVE  Recoverable(e) /\ Known(e, bg, rf, hd, cf)
<1>1. Recoverable(d) /\ TrustedOK(d) /\ Known(d, bg, rf, hd, cf)
  BY DEF Good
<1>2. /\ ~InFlight(d) /\ settled(d) = checkpointOf(d) /\ kept(d) = DOMAIN d.records
      /\ batchOf(d) = << >>
      /\ \A j \in DOMAIN d.records : j \in Identity /\ d.records[j] \in [receipt : Receipt, sequence : Nat \ {0}]
  BY <1>1, TrustedFacts
<1>3. /\ ~InFlight(e) /\ batchOf(e) = << >> /\ checkpointOf(e) = checkpointOf(d)
      /\ settled(e) = settled(d)
  <2>1. ~InFlight(e)
    BY <1>2 DEF InFlight, Exists, Appended
  <2>2. checkpointOf(e) = checkpointOf(d)
    BY DEF checkpointOf, Exists, Only, Appended
  <2> QED BY <1>2, <2>1, <2>2 DEF batchOf, settled
<1>4. kept(e) = DOMAIN e.records
  <2>1. DOMAIN << >> = {}
    OBVIOUS
  <2> QED BY <1>3, <2>1 DEF kept
<1>5. Following(e.records, DOMAIN e.records, checkpointOf(d)) /\ s \in Nat \ {0}
  BY AppendedRecords
<1>6. \A j \in DOMAIN d.records : j \in DOMAIN e.records /\ e.records[j] = d.records[j]
  BY DEF Appended, Appendable
<1>7. CheckpointOK(e)
  BY <1>1, <1>3 DEF Recoverable, CheckpointOK
<1>8. RecordsOK(e)
  <2>1. IsFiniteSet(DOMAIN e.records)
    BY DEF IsDirectory, Files
  <2>2. \A j \in DOMAIN e.records : j \in Identity /\ e.records[j] \in [receipt : Receipt, sequence : Nat \ {0}]
    BY <1>2, <1>5, <1>6 DEF Appended, Appendable
  <2>3. Following(e.records, kept(e), settled(e))
    BY <1>2, <1>3, <1>4, <1>5
  <2> QED BY <2>1, <2>2, <2>3 DEF RecordsOK
<1>9. SequencesOK(e)
  <2>1. DOMAIN << >> = {}
    OBVIOUS
  <2>2. ASSUME NEW q \in DOMAIN e.sequences
        PROVE  \E j \in DOMAIN e.records :
                 /\ q = e.records[j].sequence
                 /\ e.sequences[q] = [identity |-> j, receipt |-> e.records[j].receipt]
    <3>1. CASE q \in DOMAIN d.sequences /\ e.sequences[q] = d.sequences[q]
      <4>1. PICK j \in DOMAIN d.records :
              /\ q = d.records[j].sequence
              /\ d.sequences[q] = [identity |-> j, receipt |-> d.records[j].receipt]
        BY <1>1, <1>2, <2>1, <3>1 DEF Recoverable, SequencesOK, Named
      <4> QED BY <1>6, <3>1, <4>1
    <3>2. CASE q = s /\ e.sequences[q] = [identity |-> i, receipt |-> r]
      BY <3>2 DEF Appended
    <3> QED BY <3>1, <3>2 DEF Appended
  <2> QED BY <1>4, <2>2 DEF SequencesOK, Named
<1>10. TransactionOK(e)
  BY <1>3 DEF TransactionOK
<1>11. NoTransactionOK(e)
  <2>1. e.index = checkpointOf(e).indexed
    BY <1>1, <1>2, <1>3 DEF Recoverable, NoTransactionOK, Appended
  <2>2. Exists(e, "descriptor") <=> Exists(d, "descriptor")
    BY DEF Exists, Appended
  <2>3. Only(e, "descriptor") = Only(d, "descriptor")
    BY DEF Only, Appended
  <2> QED BY <1>1, <1>2, <1>3, <1>6, <2>1, <2>2, <2>3 DEF Recoverable, NoTransactionOK
<1>12. Known(e, bg, rf, hd, cf)
  <2>1. \A j : covers(d, j) <=> covers(e, j)
    BY <1>3 DEF covers
  <2>2. ASSUME NEW a, RefKept(d, a, cf) PROVE RefKept(e, a, cf)
    BY <1>3, <1>6, <2>1, <2>2 DEF RefKept
  <2>3. ASSUME NEW b, BatchKept(d, b) PROVE BatchKept(e, b)
    <3>1. /\ Exists(d, "descriptor") => Exists(e, "descriptor")
          /\ Only(e, "descriptor") = Only(d, "descriptor")
      BY DEF Exists, Only, Appended
    <3> QED BY <1>3, <2>1, <2>3, <3>1 DEF BatchKept
  <2>4. \A j \in DOMAIN e.records : j.generation <= bg[j.operation]
    <3>1. \A j \in DOMAIN d.records : j.generation <= bg[j.operation]
      BY <1>1 DEF Known
    <3>2. i.generation <= bg[i.operation]
      BY SameAttempt DEF Appendable
    <3> QED BY <3>1, <3>2 DEF Appended
  <2> QED BY <1>1, <1>3, <2>2, <2>3, <2>4 DEF Known
<1> QED BY <1>7, <1>8, <1>9, <1>10, <1>11, <1>12 DEF Recoverable

\* Three stages, one after the other.
LEMMA TripleOfStages == ASSUME NEW a, NEW b, NEW c PROVE <<a, b, c>> = <<a, b>> \o <<c>>
<1>1. <<a, b>> \in Seq({a, b, c}) /\ <<c>> \in Seq({a, b, c}) /\ <<a, b, c>> \in Seq({a, b, c})
  OBVIOUS
<1>2. Len(<<a, b>>) = 2 /\ Len(<<c>>) = 1 /\ Len(<<a, b, c>>) = 3
  OBVIOUS
<1>3. <<a, b>> \o <<c>> \in Seq({a, b, c}) /\ Len(<<a, b>> \o <<c>>) = 3
  BY <1>1, <1>2, ConcatProperties
<1>4. \A i \in 1 .. 3 : (<<a, b>> \o <<c>>)[i] = IF i <= 2 THEN <<a, b>>[i] ELSE <<c>>[i - 2]
  BY <1>1, <1>2, ConcatProperties
<1>5. (<<a, b>> \o <<c>>)[1] = a /\ (<<a, b>> \o <<c>>)[2] = b /\ (<<a, b>> \o <<c>>)[3] = c
  BY <1>4
<1>6. \A i \in 1 .. 3 : <<a, b, c>>[i] = (<<a, b>> \o <<c>>)[i]
  BY <1>5
<1> QED BY <1>1, <1>2, <1>3, <1>6, SeqEqual

\* Two stages of writes that touch different files.
LEMMA TwoQueues ==
  ASSUME NEW us, Queue(us), NEW ws, Queue(ws),
         \A v \in pending(us), w \in pending(ws) : v.file # w.file
  PROVE  /\ Queue(us \o ws) /\ pending(us \o ws) = pending(us) \cup pending(ws)
         /\ \A Q : Closed(us \o ws, Q) =>
              /\ Closed(us, Q) /\ Closed(ws, Q)
              /\ (\E w \in pending(ws) : w \in Q) => pending(us) \subseteq Q
<1>1. \A v \in pending(us), w \in pending(ws) :
        v # w /\ (agree(v, w) => puts(v, v.file, v.key) /\ removes(w, w.file, w.key))
  BY DEF agree
<1> QED BY <1>1, QueueConcat

appendStages(i, r, s) ==
  <<{put("records", i, [receipt |-> r, sequence |-> s])},
    {put("sequences", s, [identity |-> i, receipt |-> r])},
    {remove("reservations", i)}>>

appendedUsage(u) ==
  [u EXCEPT !.used = @ + RecordCharge, !.records = @ + 1,
            !.reservations = @ - 1, !.accepted = @ + 1]

\* The writes of an append: every prefix of them leaves the directory as it was, or
\* with the receipt.
LEMMA AppendQueue ==
  ASSUME NEW d, IsDirectory(d), NEW i, i \notin DOMAIN d.records, NEW r, NEW s, s \notin DOMAIN d.sequences
  PROVE  /\ Queue(appendStages(i, r, s))
         /\ \A v \in pending(appendStages(i, r, s)) : v.file \notin {"marker", "usage", "publication"}
         /\ \A Q \in SUBSET pending(appendStages(i, r, s)) : Closed(appendStages(i, r, s), Q) =>
              \/ same(d, after(d, Q))
              \/ Appended(d, after(d, Q), i, r, s)
         /\ Appended(d, after(d, pending(appendStages(i, r, s))), i, r, s)
         /\ s \in DOMAIN after(d, pending(appendStages(i, r, s))).sequences
         /\ \A q \in DOMAIN d.sequences : q \in DOMAIN after(d, pending(appendStages(i, r, s))).sequences
         /\ DOMAIN after(d, pending(appendStages(i, r, s))).reservations = DOMAIN d.reservations \ {i}
<1> DEFINE A == put("records", i, [receipt |-> r, sequence |-> s])
           B == put("sequences", s, [identity |-> i, receipt |-> r])
           C == remove("reservations", i)
           ws == appendStages(i, r, s)
<1>1. /\ A.file = "records" /\ A.key = i /\ A.content = <<[receipt |-> r, sequence |-> s]>>
      /\ B.file = "sequences" /\ B.key = s /\ B.content = <<[identity |-> i, receipt |-> r]>>
      /\ C.file = "reservations" /\ C.key = i /\ C.content = << >>
  BY DEF put, remove
<1>2. ws = (<<{A}>> \o <<{B}>>) \o <<{C}>>
  <2>1. ws = <<{A}, {B}, {C}>>
    BY DEF appendStages
  <2> HIDE DEF A, B, C, ws
  <2>2. <<{A}, {B}, {C}>> = <<{A}, {B}>> \o <<{C}>>
    BY TripleOfStages
  <2>3. <<{A}, {B}>> = <<{A}>> \o <<{B}>>
    BY PairOfStages
  <2> QED BY <2>1, <2>2, <2>3
<1> HIDE DEF A, B, C
<1>3. /\ A.content # << >> /\ A.content[1] = [receipt |-> r, sequence |-> s]
      /\ B.content # << >> /\ B.content[1] = [identity |-> i, receipt |-> r]
      /\ A # B /\ A # C /\ B # C
  BY <1>1
<1>4. IsWrite(A) /\ IsWrite(B) /\ IsWrite(C)
  BY <1>1 DEF IsWrite, Files, SingleFiles
<1>5. /\ Queue(<<{A}>>) /\ pending(<<{A}>>) = {A} /\ Queue(<<{B}>>) /\ pending(<<{B}>>) = {B}
      /\ Queue(<<{C}>>) /\ pending(<<{C}>>) = {C}
  BY <1>4, QueueStage, FS_Singleton
<1>6. /\ Queue(<<{A}>> \o <<{B}>>) /\ pending(<<{A}>> \o <<{B}>>) = {A} \cup {B}
      /\ \A Q : Closed(<<{A}>> \o <<{B}>>, Q) => (B \in Q => A \in Q)
  <2>1. \A v \in pending(<<{A}>>), w \in pending(<<{B}>>) : v.file # w.file
    BY <1>1, <1>5
  <2> QED BY <1>5, <2>1, TwoQueues
<1>7. /\ Queue(ws) /\ pending(ws) = {A} \cup {B} \cup {C}
      /\ \A Q : Closed(ws, Q) => (B \in Q => A \in Q) /\ (C \in Q => A \in Q /\ B \in Q)
  <2>1. PICK xs : xs = <<{A}>> \o <<{B}>>
    OBVIOUS
  <2>2. \A v \in pending(xs), w \in pending(<<{C}>>) : v.file # w.file
    BY <1>1, <1>5, <1>6, <2>1
  <2>3. /\ Queue(xs \o <<{C}>>) /\ pending(xs \o <<{C}>>) = pending(xs) \cup pending(<<{C}>>)
        /\ \A Q : Closed(xs \o <<{C}>>, Q) =>
             /\ Closed(xs, Q) /\ Closed(<<{C}>>, Q)
             /\ (\E w \in pending(<<{C}>>) : w \in Q) => pending(xs) \subseteq Q
    BY ZenonT(60), <1>5, <1>6, <2>1, <2>2, TwoQueues
  <2>4. ws = xs \o <<{C}>>
    BY <1>2, <2>1
  <2> HIDE DEF ws
  <2> QED BY <1>5, <1>6, <2>1, <2>3, <2>4
<1> HIDE DEF ws
<1>8. ASSUME NEW Q \in SUBSET {A, B, C}
      PROVE  /\ \A f \in {"index", "checkpoint", "descriptor", "publication"} : after(d, Q)[f] = d[f]
             /\ A \notin Q => after(d, Q)["records"] = d["records"]
             /\ B \notin Q => after(d, Q)["sequences"] = d["sequences"]
             /\ A \in Q =>
                  /\ DOMAIN after(d, Q)["records"] = DOMAIN d["records"] \cup {i}
                  /\ after(d, Q)["records"][i] = [receipt |-> r, sequence |-> s]
                  /\ \A j \in DOMAIN d["records"] : j # i => after(d, Q)["records"][j] = d["records"][j]
             /\ B \in Q =>
                  /\ DOMAIN after(d, Q)["sequences"] = DOMAIN d["sequences"] \cup {s}
                  /\ after(d, Q)["sequences"][s] = [identity |-> i, receipt |-> r]
                  /\ \A j \in DOMAIN d["sequences"] : j # s => after(d, Q)["sequences"][j] = d["sequences"][j]
             /\ C \in Q => DOMAIN after(d, Q)["reservations"] = DOMAIN d["reservations"] \ {i}
  <2>1. ASSUME NEW f \in {"index", "checkpoint", "descriptor", "publication"}
        PROVE  after(d, Q)[f] = d[f]
    <3>1. f \in Files /\ \A v \in Q : v.file # f
      BY <1>1, <2>1 DEF Files
    <3> QED BY <3>1, AfterUntouched
  <2>2. "records" \in Files /\ "sequences" \in Files /\ "reservations" \in Files
    BY DEF Files
  <2>3. A \notin Q => after(d, Q)["records"] = d["records"]
    <3>1. A \notin Q => \A v \in Q : v.file # "records"
      BY <1>1
    <3> QED BY <2>2, <3>1, AfterUntouched
  <2>4. B \notin Q => after(d, Q)["sequences"] = d["sequences"]
    <3>1. B \notin Q => \A v \in Q : v.file # "sequences"
      BY <1>1
    <3> QED BY <2>2, <3>1, AfterUntouched
  <2>5. ASSUME A \in Q
        PROVE  /\ DOMAIN after(d, Q)["records"] = DOMAIN d["records"] \cup {i}
               /\ after(d, Q)["records"][i] = [receipt |-> r, sequence |-> s]
               /\ \A j \in DOMAIN d["records"] : j # i => after(d, Q)["records"][j] = d["records"][j]
    <3>1. \A v \in Q : v.file = "records" => v = A
      BY <1>1
    <3>2. /\ \A v \in Q : v.file = "records" => v.content # << >>
          /\ \A v, w \in Q : v.file = "records" /\ w.file = "records" /\ v.key = w.key => v = w
      BY <1>3, <3>1
    <3> QED BY <1>1, <1>3, <2>2, <2>5, <3>1, <3>2, AfterPuts
  <2>6. ASSUME B \in Q
        PROVE  /\ DOMAIN after(d, Q)["sequences"] = DOMAIN d["sequences"] \cup {s}
               /\ after(d, Q)["sequences"][s] = [identity |-> i, receipt |-> r]
               /\ \A j \in DOMAIN d["sequences"] : j # s => after(d, Q)["sequences"][j] = d["sequences"][j]
    <3>1. \A v \in Q : v.file = "sequences" => v = B
      BY <1>1
    <3>2. /\ \A v \in Q : v.file = "sequences" => v.content # << >>
          /\ \A v, w \in Q : v.file = "sequences" /\ w.file = "sequences" /\ v.key = w.key => v = w
      BY <1>3, <3>1
    <3> QED BY <1>1, <1>3, <2>2, <2>6, <3>1, <3>2, AfterPuts
  <2>7. ASSUME C \in Q PROVE DOMAIN after(d, Q)["reservations"] = DOMAIN d["reservations"] \ {i}
    <3>1. \A v \in Q : v.file = "reservations" => v = C
      BY <1>1
    <3>2. \A v \in Q : v.file = "reservations" => v.content = << >>
      BY <1>1, <3>1
    <3> QED BY <1>1, <2>2, <2>7, <3>1, <3>2, AfterRemoves
  <2> QED BY <2>1, <2>3, <2>4, <2>5, <2>6, <2>7
<1>9. ASSUME NEW Q \in SUBSET {A, B, C}, B \in Q => A \in Q
      PROVE  \/ same(d, after(d, Q)) /\ A \notin Q
             \/ Appended(d, after(d, Q), i, r, s)
  <2>1. CASE A \notin Q
    BY <1>8, <1>9, <2>1 DEF same
  <2>2. CASE A \in Q
    <3>1. \A q \in DOMAIN after(d, Q)["sequences"] :
            \/ q \in DOMAIN d["sequences"] /\ after(d, Q)["sequences"][q] = d["sequences"][q]
            \/ q = s /\ after(d, Q)["sequences"][q] = [identity |-> i, receipt |-> r]
      BY <1>8
    <3> QED BY <1>8, <2>2, <3>1 DEF Appended
  <2> QED BY <2>1, <2>2
<1>10. pending(ws) \in SUBSET {A, B, C} /\ A \in pending(ws) /\ B \in pending(ws) /\ C \in pending(ws)
  BY <1>7
<1>11. \A Q \in SUBSET pending(ws) : Closed(ws, Q) =>
         same(d, after(d, Q)) \/ Appended(d, after(d, Q), i, r, s)
  BY <1>7, <1>9, <1>10
<1>12. Appended(d, after(d, pending(ws)), i, r, s)
  BY <1>9, <1>10
<1>13. \A v \in pending(ws) : v.file \notin {"marker", "usage", "publication"}
  BY <1>1, <1>7
<1>14. /\ s \in DOMAIN after(d, pending(ws)).sequences
       /\ \A q \in DOMAIN d.sequences : q \in DOMAIN after(d, pending(ws)).sequences
       /\ DOMAIN after(d, pending(ws)).reservations = DOMAIN d.reservations \ {i}
  BY <1>8, <1>10
<1> QED BY <1>7, <1>11, <1>12, <1>13, <1>14 DEF ws

\* An append is safe at each of its writes, and stores the receipt.
LEMMA AppendSafe ==
  ASSUME NEW bg, NEW rf, NEW hd, NEW cf, NEW d, Good(d, bg, rf, hd, cf), ~needsRebuild(d),
         NEW i, NEW r, Appendable(d, i, r, bg), i \in DOMAIN d.reservations,
         NEW s, s = nextSequence(usageOf(d)),
         NEW u, u = appendedUsage(usageOf(d))
  PROVE  \E e : /\ MutationSafe(d, appendStages(i, r, s), e, u, bg, rf, hd, cf)
                /\ i \in DOMAIN e.records /\ e.records[i].receipt = r
<1>1. PICK ws : ws = appendStages(i, r, s)
  OBVIOUS
<1>2. PICK e : e = after(d, pending(ws))
  OBVIOUS
<1>3. Recoverable(d) /\ TrustedOK(d) /\ Known(d, bg, rf, hd, cf)
  BY DEF Good
<1>4. /\ IsDirectory(d) /\ settledReservations(d) = {} /\ usageOf(d) = accountedUsage(d)
      /\ kept(d) = DOMAIN d.records /\ batchOf(d) = << >>
  BY <1>3, TrustedFacts
<1>5. PICK c : c = checkpointOf(d).sequence
  OBVIOUS
<1>6. PICK n : n = Cardinality(DOMAIN d.records)
  OBVIOUS
<1>7. /\ n \in Nat /\ c \in Nat /\ usageOf(d).accepted = c + n /\ usageOf(d).records = n
      /\ \A j \in DOMAIN d.records : d.records[j].sequence \in c + 1 .. c + n
  BY <1>3, <1>5, <1>6, TrustedCounts
<1>8. s = c + n + 1
  BY <1>7 DEF nextSequence
<1>9. s \notin DOMAIN d.sequences
  <2>1. DOMAIN << >> = {}
    OBVIOUS
  <2>2. \A q \in DOMAIN d.sequences : \E j \in DOMAIN d.records : q = d.records[j].sequence
    BY <1>3, <1>4, <2>1 DEF Recoverable, SequencesOK, Named
  <2> QED BY <1>7, <1>8, <2>2
<1>10. /\ Queue(ws)
       /\ \A v \in pending(ws) : v.file \notin {"marker", "usage", "publication"}
       /\ \A Q \in SUBSET pending(ws) : Closed(ws, Q) =>
            same(d, after(d, Q)) \/ Appended(d, after(d, Q), i, r, s)
       /\ Appended(d, e, i, r, s) /\ s \in DOMAIN e.sequences
       /\ \A q \in DOMAIN d.sequences : q \in DOMAIN e.sequences
       /\ DOMAIN e.reservations = DOMAIN d.reservations \ {i}
  BY <1>1, <1>2, <1>4, <1>9, AppendQueue DEF Appendable
<1>11. ASSUME NEW Q \in SUBSET pending(ws) PROVE IsDirectory(after(d, Q))
  <2>1. IsFiniteSet(Q) /\ \A w \in Q : IsWrite(w)
    BY <1>10, FS_Subset DEF Queue
  <2> QED BY <1>4, <2>1, AfterIsDirectory
<1>12. ASSUME NEW Q \in SUBSET pending(ws), Closed(ws, Q)
       PROVE  Recoverable(after(d, Q)) /\ Known(after(d, Q), bg, rf, hd, cf)
  <2>1. CASE same(d, after(d, Q))
    BY <1>3, <1>11, <2>1, SameRecoverable, SameKnown
  <2>2. CASE Appended(d, after(d, Q), i, r, s)
    BY <1>11, <2>2, AppendedGood
  <2> QED BY <1>10, <1>12, <2>1, <2>2
<1>13. IsFiniteSet(DOMAIN e.reservations) /\ IsFiniteSet(DOMAIN e.index)
  BY <1>2, <1>11 DEF IsDirectory, Files
<1>14. \A j \in DOMAIN e.records : e.records[j].sequence \in DOMAIN e.sequences
  <2>1. \A j \in DOMAIN d.records : d.records[j].sequence \in DOMAIN d.sequences
    BY <1>3 DEF TrustedOK
  <2> QED BY <1>10, <2>1 DEF Appended
<1>15. settledReservations(e) = {}
  BY <1>4, <1>10 DEF settledReservations, Appended
<1>16. u = usageWith(e, u.blocked)
  <2>1. IsFiniteSet(DOMAIN d.reservations) /\ IsFiniteSet(DOMAIN d.records) /\ IsFiniteSet(DOMAIN d.index)
    BY <1>4 DEF IsDirectory, Files
  <2>2. accountedUsage(e).records = n + 1
    <3>1. Cardinality(DOMAIN d.records \cup {i}) = n + 1
      BY <1>6, <2>1, FS_AddElement DEF Appendable
    <3> QED BY <1>10, <3>1 DEF accountedUsage, Appended
  <2>3. PICK m : m = Cardinality(DOMAIN d.reservations)
    OBVIOUS
  <2>4. m \in Nat /\ accountedUsage(d).reservations = m /\ accountedUsage(e).reservations = m - 1
    <3>1. Cardinality(DOMAIN d.reservations \ {i}) = m - 1 /\ m \in Nat
      BY <2>1, <2>3, FS_RemoveElement, FS_CardinalityType
    <3>2. DOMAIN d.reservations \ settledReservations(d) = DOMAIN d.reservations
      BY <1>4
    <3>3. DOMAIN e.reservations \ settledReservations(e) = DOMAIN d.reservations \ {i}
      BY <1>10, <1>15
    <3> QED BY <2>3, <3>1, <3>2, <3>3 DEF accountedUsage
  <2>5. checkpointOf(e) = checkpointOf(d)
    BY <1>10 DEF checkpointOf, Exists, Only, Appended
  <2>6. accountedUsage(e).accepted = c + n + 1 /\ accountedUsage(d).accepted = c + n
    <3>1. accountedUsage(e).accepted = c + accountedUsage(e).records
      BY <1>5, <2>5 DEF accountedUsage
    <3> QED BY <1>4, <1>7, <2>2, <3>1
  <2>7. accountedUsage(e).keys = accountedUsage(d).keys
    BY <1>10 DEF accountedUsage, Appended
  <2>8. PICK x : x = Cardinality(DOMAIN d.index) * IndexCharge
    OBVIOUS
  <2>9. PICK y : y = charge(d, "checkpoint", CheckpointCharge)
    OBVIOUS
  <2>10. PICK z : z = charge(d, "descriptor", DescriptorCharge)
    OBVIOUS
  <2>11. charge(e, "checkpoint", CheckpointCharge) = y /\ charge(e, "descriptor", DescriptorCharge) = z
    BY <1>10, <2>9, <2>10 DEF charge, Exists, Appended
  <2>12. x \in Nat /\ y \in Nat /\ z \in Nat /\ RecordCharge \in Nat
    <3>1. Cardinality(DOMAIN d.index) \in Nat
      BY <2>1, FS_CardinalityType
    <3>2. IndexCharge \in Nat /\ RecordCharge \in Nat /\ y \in Nat /\ z \in Nat
      BY <2>9, <2>10, ChargeAssumption DEF charge
    <3>3. \A p, q \in Nat : p * q \in Nat
      OBVIOUS
    <3> QED BY <2>8, <3>1, <3>2, <3>3
  <2>13. accountedUsage(d).used = n * RecordCharge + x + y + z
    BY <1>6, <2>8, <2>9, <2>10 DEF accountedUsage
  <2>14. accountedUsage(e).used = (n + 1) * RecordCharge + x + y + z
    <3>1. accountedUsage(e).used = accountedUsage(e).records * RecordCharge
            + Cardinality(DOMAIN e.index) * IndexCharge + charge(e, "checkpoint", CheckpointCharge)
            + charge(e, "descriptor", DescriptorCharge)
      BY DEF accountedUsage
    <3>2. DOMAIN e.index = DOMAIN d.index
      BY <1>10 DEF Appended
    <3> QED BY <2>2, <2>8, <2>11, <3>1, <3>2
  <2>15. accountedUsage(e).used = accountedUsage(d).used + RecordCharge
    <3>1. (n + 1) * RecordCharge = n * RecordCharge + RecordCharge /\ n * RecordCharge \in Nat
      BY <1>7, <2>12
    <3>2. PICK p : p = n * RecordCharge
      OBVIOUS
    <3> QED BY <2>12, <2>13, <2>14, <3>1, <3>2
  <2>16. PICK a : a = accountedUsage(d)
    OBVIOUS
  <2>17. a = usage(a.used, a.records, a.reservations, a.accepted, a.keys, a.blocked)
    BY <2>16 DEF accountedUsage, usage
  <2>18. u = usage(a.used + RecordCharge, a.records + 1, a.reservations - 1, a.accepted + 1, a.keys, a.blocked)
    <3>1. u = appendedUsage(a)
      BY <1>4, <2>16
    <3> QED BY <2>17, <3>1 DEF appendedUsage, usage
  <2>19. /\ accountedUsage(e).used = a.used + RecordCharge
         /\ accountedUsage(e).records = a.records + 1
         /\ accountedUsage(e).reservations = a.reservations - 1
         /\ accountedUsage(e).accepted = a.accepted + 1 /\ accountedUsage(e).keys = a.keys
    BY <1>4, <1>7, <2>2, <2>4, <2>6, <2>7, <2>15, <2>16
  <2> QED BY <2>18, <2>19, UsageIs
<1>17. Good(d, bg, rf, hd, cf) /\ ~needsRebuild(d)
  OBVIOUS
<1>18. MutationOK(d, ws, e, u, bg, rf, hd, cf)
  BY <1>2, <1>10, <1>12, <1>13, <1>14, <1>15, <1>16, <1>17 DEF MutationOK
<1>19. MutationSafe(d, ws, e, u, bg, rf, hd, cf)
  BY <1>18, Mutation
<1>20. i \in DOMAIN e.records /\ e.records[i].receipt = r
  BY <1>10 DEF Appended
<1> QED BY <1>1, <1>19, <1>20

-----------------------------------------------------------------------------
(* Batches.                                                                 *)

\* A set of natural numbers up to n has a largest one.
LEMMA Largest ==
  ASSUME NEW n \in Nat, NEW J \in SUBSET (1 .. n), J # {}
  PROVE  \E x \in J : \A y \in J : y <= x
<1> DEFINE T == {n - j : j \in J}
<1>1. T \subseteq Nat /\ T # {}
  <2>1. \A j \in J : n - j \in Nat
    OBVIOUS
  <2>2. PICK j \in J : TRUE
    OBVIOUS
  <2>3. n - j \in T
    BY <2>2
  <2> QED BY <2>1, <2>3
<1>2. PICK t \in T : \A s \in T : ~(<<s, t>> \in OpToRel(<, Nat))
  <2> HIDE DEF T
  <2> QED BY <1>1, WFMin, NatLessThanWellFounded
<1>3. \A s \in T : ~(s < t)
  BY <1>1, <1>2 DEF OpToRel
<1>4. PICK x \in J : t = n - x
  OBVIOUS
<1>5. ASSUME NEW y \in J PROVE y <= x
  <2>1. n - y \in T
    OBVIOUS
  <2>2. ~(n - y < n - x)
    BY <1>3, <1>4, <2>1
  <2> QED BY <2>2
<1> QED BY <1>5

\* The records of a batch have consecutive numbers.
LEMMA BatchFacts ==
  ASSUME NEW b, IsBatch(b)
  PROVE  /\ Len(b) \in Nat /\ Len(b) >= 1 /\ DOMAIN b = 1 .. Len(b)
         /\ 1 \in DOMAIN b /\ Len(b) \in DOMAIN b
         /\ \A k \in DOMAIN b : /\ b[k] \in Ref /\ b[k].identity \in Identity /\ b[k].receipt \in Receipt
                                /\ b[k].sequence \in Nat \ {0}
                                /\ b[k].sequence = b[1].sequence + k - 1
         /\ b[Len(b)].sequence = b[1].sequence + Len(b) - 1
<1>1. b \in Seq(Ref) /\ b # << >>
  BY DEF IsBatch
<1>2. Len(b) \in Nat /\ DOMAIN b = 1 .. Len(b) /\ \A k \in DOMAIN b : b[k] \in Ref
  BY <1>1, LenProperties
<1>3. Len(b) # 0
  BY <1>1, <1>2, EmptySeq
<1>4. 1 \in DOMAIN b /\ Len(b) \in DOMAIN b /\ Len(b) >= 1
  BY <1>2, <1>3
<1>5. \A k \in DOMAIN b : b[k].sequence = b[1].sequence + k - 1
  BY DEF IsBatch
<1>6. \A k \in DOMAIN b : /\ b[k].identity \in Identity /\ b[k].receipt \in Receipt
                          /\ b[k].sequence \in Nat \ {0}
  BY <1>2 DEF Ref
<1> QED BY <1>2, <1>4, <1>5, <1>6

\* They have different identities.
LEMMA BatchDistinct ==
  ASSUME NEW b, IsBatch(b), NEW j \in DOMAIN b, NEW k \in DOMAIN b
  PROVE  /\ b[j].identity = b[k].identity => j = k
         /\ b[j].sequence = b[k].sequence => j = k
<1>1. /\ DOMAIN b = 1 .. Len(b) /\ Len(b) \in Nat
      /\ b[j].identity \in Identity /\ b[k].identity \in Identity
      /\ b[j].sequence = b[1].sequence + j - 1 /\ b[k].sequence = b[1].sequence + k - 1
      /\ b[1].sequence \in Nat
  BY BatchFacts
<1>2. b[j].identity.operation = b[k].identity.operation =>
        /\ j < k => b[j].identity.generation < b[k].identity.generation
        /\ k < j => b[k].identity.generation < b[j].identity.generation
  BY DEF IsBatch
<1>3. b[j].identity = b[k].identity => j = k
  BY <1>1, <1>2, SameAttempt
<1>4. b[j].sequence = b[k].sequence => j = k
  BY <1>1
<1> QED BY <1>3, <1>4

\* The entry of an operation is its last receipt in the batch.
LEMMA EntryFacts ==
  ASSUME NEW b, IsBatch(b), NEW o \in operationsOf(b)
  PROVE  \E k \in DOMAIN b :
           /\ entry(b, o) = b[k] /\ b[k].identity.operation = o
           /\ \A j \in DOMAIN b : b[j].identity.operation = o =>
                /\ j <= k /\ b[j].identity.generation <= b[k].identity.generation
                /\ b[j].identity = b[k].identity => j = k
<1> DEFINE J == {j \in DOMAIN b : b[j].identity.operation = o}
           n == Len(b)
<1>1. n \in Nat /\ DOMAIN b = 1 .. n
  BY BatchFacts
<1>2. J \in SUBSET (1 .. n) /\ J # {}
  BY <1>1 DEF operationsOf
<1> HIDE DEF n
<1>3. PICK k \in J : \A j \in J : j <= k
  <2> HIDE DEF J
  <2> QED BY <1>1, <1>2, Largest
<1>4. \A j \in DOMAIN b : b[j].identity \in Identity /\ b[j].sequence = b[1].sequence + j - 1 /\ b[j].sequence \in Nat
  BY BatchFacts
<1>5. b[1].sequence \in Nat
  BY BatchFacts
<1>6. \A j \in J : b[j].sequence <= b[k].sequence
  BY <1>1, <1>3, <1>4, <1>5
<1>7. refsOf(b, o) = {b[j] : j \in J}
  BY DEF refsOf
<1>8. b[k] \in refsOf(b, o) /\ \A q \in refsOf(b, o) : q.sequence <= b[k].sequence
  BY <1>6, <1>7
<1>9. ASSUME NEW r \in refsOf(b, o), \A q \in refsOf(b, o) : q.sequence <= r.sequence PROVE r = b[k]
  <2>1. PICK j \in J : r = b[j]
    BY <1>7
  <2>2. b[k].sequence <= b[j].sequence /\ b[j].sequence <= b[k].sequence
    BY <1>6, <1>8, <1>9, <2>1
  <2>3. b[k].sequence = b[j].sequence
    BY <1>4, <2>2
  <2> QED BY <2>1, <2>3, BatchDistinct
<1>10. entry(b, o) = b[k]
  <2>1. \E r \in refsOf(b, o) : \A q \in refsOf(b, o) : q.sequence <= r.sequence
    BY <1>8
  <2>2. /\ entry(b, o) \in refsOf(b, o)
        /\ \A q \in refsOf(b, o) : q.sequence <= entry(b, o).sequence
    BY <2>1 DEF entry
  <2> QED BY <1>9, <2>2
<1>11. ASSUME NEW j \in DOMAIN b, b[j].identity.operation = o
       PROVE  j <= k /\ b[j].identity.generation <= b[k].identity.generation
              /\ (b[j].identity = b[k].identity => j = k)
  <2>1. j <= k
    BY <1>3, <1>11
  <2>2. b[j].identity = b[k].identity => j = k
    BY BatchDistinct
  <2>3. j < k => b[j].identity.generation < b[k].identity.generation
    BY <1>11 DEF IsBatch
  <2>4. b[j].identity.generation \in Nat /\ b[k].identity.generation \in Nat
    BY <1>4, <1>11, SameAttempt
  <2> QED BY <1>1, <2>1, <2>2, <2>3, <2>4
<1> QED BY <1>10, <1>11

\* What settled and its parts are, in flight or not.
LEMMA SettledEntry ==
  ASSUME NEW d, Recoverable(d), InFlight(d), NEW o \in operationsOf(batchOf(d))
  PROVE  o \in DOMAIN settled(d).indexed /\ settled(d).indexed[o] = entry(batchOf(d), o)
<1>1. TransactionOK(d)
  BY DEF Recoverable
<1>2. CASE replays(d, transaction(d))
  BY <1>1, <1>2 DEF settled, TransactionOK
<1>3. CASE ~replays(d, transaction(d))
  <2>1. settled(d) = checkpointAfter(d, batchOf(d))
    BY <1>3 DEF settled
  <2> QED BY <2>1 DEF checkpointAfter
<1> QED BY <1>2, <1>3

\* A batch in flight covers its receipts.
LEMMA BatchCovered ==
  ASSUME NEW d, Recoverable(d), InFlight(d), NEW k \in DOMAIN batchOf(d)
  PROVE  /\ covers(d, batchOf(d)[k].identity)
         /\ settled(d).indexed[batchOf(d)[k].identity.operation].identity = batchOf(d)[k].identity
              => settled(d).indexed[batchOf(d)[k].identity.operation].receipt = batchOf(d)[k].receipt
         /\ batchOf(d)[k].sequence <= settled(d).sequence
<1>1. PICK b : b = batchOf(d)
  OBVIOUS
<1>2. PICK o : o = b[k].identity.operation
  OBVIOUS
<1>3. IsBatch(b) /\ o \in operationsOf(b)
  BY <1>1, <1>2 DEF Recoverable, TransactionOK, operationsOf
<1>4. PICK l \in DOMAIN b :
        /\ entry(b, o) = b[l] /\ b[l].identity.operation = o
        /\ \A j \in DOMAIN b : b[j].identity.operation = o =>
             /\ j <= l /\ b[j].identity.generation <= b[l].identity.generation
             /\ b[j].identity = b[l].identity => j = l
  BY <1>3, EntryFacts
<1>5. o \in DOMAIN settled(d).indexed /\ settled(d).indexed[o] = b[l]
  BY <1>1, <1>3, <1>4, SettledEntry
<1>6. covers(d, b[k].identity)
  BY <1>1, <1>2, <1>4, <1>5 DEF covers
<1>7. b[l].identity = b[k].identity => l = k
  BY <1>1, <1>3, BatchDistinct
<1>8. b[k].sequence <= settled(d).sequence
  <2>1. b[Len(b)].sequence = settled(d).sequence
    <3>1. TransactionOK(d)
      BY DEF Recoverable
    <3>2. CASE replays(d, transaction(d))
      BY <1>1, <3>1, <3>2 DEF settled, replays, TransactionOK, batchOf
    <3>3. CASE ~replays(d, transaction(d))
      <4>1. settled(d) = checkpointAfter(d, b)
        BY <1>1, <3>3 DEF settled
      <4> QED BY <4>1 DEF checkpointAfter
    <3> QED BY <3>2, <3>3
  <2>2. /\ b[k].sequence = b[1].sequence + k - 1 /\ b[Len(b)].sequence = b[1].sequence + Len(b) - 1
        /\ b[1].sequence \in Nat /\ k \in 1 .. Len(b) /\ Len(b) \in Nat
    BY <1>1, <1>3, BatchFacts
  <2> QED BY <2>1, <2>2
<1> QED BY <1>1, <1>2, <1>5, <1>6, <1>7, <1>8

-----------------------------------------------------------------------------
(* A transaction that is being applied.                                     *)

\* The index o of e is that of d.
sameIndex(d, e, o) ==
  /\ o \in DOMAIN e.index <=> o \in DOMAIN d.index
  /\ o \in DOMAIN d.index => e.index[o] = d.index[o]

\* e is d with a part of its transaction applied.
Advancing(d, e) ==
  /\ e.publication = d.publication
  /\ \A i \in DOMAIN e.records : i \in DOMAIN d.records /\ e.records[i] = d.records[i]
  /\ \A i \in kept(d) : i \in DOMAIN e.records
  /\ \A s \in DOMAIN e.sequences : s \in DOMAIN d.sequences /\ e.sequences[s] = d.sequences[s]
  /\ \A k \in DOMAIN batchOf(d) :
       batchOf(d)[k].identity \in DOMAIN e.records /\ batchOf(d)[k].sequence \in DOMAIN d.sequences
         => batchOf(d)[k].sequence \in DOMAIN e.sequences
  /\ \A o \in operationsOf(batchOf(d)) :
       \/ o \in DOMAIN e.index /\ e.index[o] = entry(batchOf(d), o)
       \/ sameIndex(d, e, o)
  /\ \A o : o \notin operationsOf(batchOf(d)) => sameIndex(d, e, o)
  /\ \/ e.checkpoint = d.checkpoint
     \/ /\ ~replays(d, transaction(d)) /\ Exists(e, "checkpoint")
        /\ Only(e, "checkpoint") = checkpointAfter(d, batchOf(d))
  /\ \/ e.descriptor = d.descriptor
     \/ ~Exists(e, "descriptor") /\ replays(e, transaction(d))

\* While a transaction is applied, the checkpoint it leads to and the records that
\* stay are the same.
LEMMA AdvancingParts ==
  ASSUME NEW d, Recoverable(d), InFlight(d), NEW e, Advancing(d, e)
  PROVE  /\ InFlight(e) /\ transaction(e) = transaction(d) /\ batchOf(e) = batchOf(d)
         /\ settled(e) = settled(d) /\ kept(e) = kept(d)
         /\ \/ /\ checkpointOf(e) = checkpointOf(d)
               /\ replays(e, transaction(e)) <=> replays(d, transaction(d))
            \/ /\ checkpointOf(e) = checkpointAfter(d, batchOf(d))
               /\ ~replays(d, transaction(d)) /\ replays(e, transaction(e))
<1>1. InFlight(e) /\ transaction(e) = transaction(d)
  BY DEF Advancing, InFlight, transaction, Exists, Only
<1>2. batchOf(e) = batchOf(d) /\ transaction(d).batch = batchOf(d)
  BY <1>1 DEF batchOf
<1>5. kept(e) = kept(d)
  BY <1>2 DEF kept, Advancing
<1>3. CASE e.checkpoint = d.checkpoint
  <2>1. checkpointOf(e) = checkpointOf(d)
    BY <1>3 DEF checkpointOf, Exists, Only
  <2>2. replays(e, transaction(e)) <=> replays(d, transaction(d))
    BY <1>1, <2>1 DEF replays
  <2>3. checkpointAfter(d, batchOf(d)) = checkpointAfter(e, batchOf(e))
    BY <1>2, <2>1 DEF checkpointAfter
  <2>4. settled(e) = settled(d)
    BY <1>1, <2>1, <2>2, <2>3 DEF settled
  <2> QED BY <1>1, <1>2, <1>5, <2>1, <2>2, <2>4
<1>4. CASE /\ ~replays(d, transaction(d)) /\ Exists(e, "checkpoint")
           /\ Only(e, "checkpoint") = checkpointAfter(d, batchOf(d))
  <2>1. checkpointOf(e) = checkpointAfter(d, batchOf(d))
    BY <1>4 DEF checkpointOf
  <2>2. replays(e, transaction(e))
    BY <1>1, <1>2, <2>1 DEF replays, checkpointAfter
  <2>3. settled(e) = settled(d)
    BY <1>1, <1>4, <2>1, <2>2 DEF settled
  <2> QED BY <1>1, <1>2, <1>4, <1>5, <2>1, <2>2, <2>3
<1> QED BY <1>1, <1>2, <1>3, <1>4, <1>5 DEF Advancing

\* Records that stay keep their order.
LEMMA SameFollowing ==
  ASSUME NEW records, NEW recs, NEW K, NEW cp, Following(records, K, cp),
         \A i \in K : recs[i] = records[i]
  PROVE  Following(recs, K, cp)
BY DEF Following

\* A partly applied transaction can be recovered.
LEMMA AdvancingRecoverable ==
  ASSUME NEW d, Recoverable(d), InFlight(d), NEW e, Advancing(d, e), IsDirectory(e)
  PROVE  Recoverable(e)
<1>1. PICK b : b = batchOf(d)
  OBVIOUS
<1>2. PICK tx : tx = transaction(d)
  OBVIOUS
<1>3. /\ InFlight(e) /\ transaction(e) = tx /\ batchOf(e) = b
      /\ settled(e) = settled(d) /\ kept(e) = kept(d)
      /\ \/ /\ checkpointOf(e) = checkpointOf(d)
            /\ replays(e, tx) <=> replays(d, tx)
         \/ /\ checkpointOf(e) = checkpointAfter(d, b)
            /\ ~replays(d, tx) /\ replays(e, tx)
  BY <1>1, <1>2, AdvancingParts
<1>4. CheckpointOK(d) /\ RecordsOK(d) /\ SequencesOK(d) /\ TransactionOK(d)
  BY DEF Recoverable
<1>5. CheckpointOK(e)
  <2>1. CASE checkpointOf(e) = checkpointOf(d)
    BY <1>3, <1>4, <2>1 DEF CheckpointOK
  <2>2. CASE checkpointOf(e) = checkpointAfter(d, b) /\ replays(e, tx)
    <3>1. checkpointOf(e) = settled(e)
      BY <1>3, <2>2 DEF settled
    <3>2. checkpointOf(e).sequence \in Nat
      BY <1>3, <1>4, <3>1 DEF CheckpointOK
    <3>3. checkpointOf(e).indexed = [o \in DOMAIN checkpointOf(e).indexed |-> checkpointOf(e).indexed[o]]
      BY <2>2 DEF checkpointAfter
    <3> QED BY <1>3, <1>4, <3>2, <3>3 DEF CheckpointOK
  <2> QED BY <1>3, <2>1, <2>2
<1>6. RecordsOK(e)
  <2>1. \A i \in kept(d) : e.records[i] = d.records[i]
    BY DEF Advancing
  <2>2. Following(e.records, kept(e), settled(e))
    BY <1>3, <1>4, <2>1, SameFollowing DEF RecordsOK
  <2>3. IsFiniteSet(DOMAIN e.records)
    BY DEF IsDirectory, Files
  <2>4. \A i \in DOMAIN e.records : i \in Identity /\ e.records[i] \in [receipt : Receipt, sequence : Nat \ {0}]
    BY <1>4 DEF RecordsOK, Advancing
  <2> QED BY <2>2, <2>3, <2>4 DEF RecordsOK
<1>7. SequencesOK(e)
  <2>1. ASSUME NEW s \in DOMAIN e.sequences
        PROVE  \/ \E i \in kept(d) : s = e.records[i].sequence
                    /\ e.sequences[s] = [identity |-> i, receipt |-> e.records[i].receipt]
               \/ \E k \in DOMAIN b : s = b[k].sequence
                    /\ e.sequences[s] = [identity |-> b[k].identity, receipt |-> b[k].receipt]
    <3>1. s \in DOMAIN d.sequences /\ e.sequences[s] = d.sequences[s]
      BY DEF Advancing
    <3>2. \A i \in kept(d) : e.records[i] = d.records[i]
      BY DEF Advancing
    <3>3. \/ \E i \in kept(d) : s = d.records[i].sequence
               /\ d.sequences[s] = [identity |-> i, receipt |-> d.records[i].receipt]
          \/ \E k \in DOMAIN b : s = b[k].sequence
               /\ d.sequences[s] = [identity |-> b[k].identity, receipt |-> b[k].receipt]
      BY <1>1, <1>4, <3>1 DEF SequencesOK, Named
    <3> QED BY <3>1, <3>2, <3>3
  <2> QED BY <1>3, <2>1 DEF SequencesOK, Named
<1>8. TransactionOK(e)
  <2>1. IsBatch(b) /\ (Exists(d, "descriptor") => Only(d, "descriptor") = b)
    BY <1>1, <1>4 DEF TransactionOK
  <2>2. \/ /\ replays(e, tx)
           /\ \A o \in operationsOf(b) :
                o \in DOMAIN checkpointOf(e).indexed /\ checkpointOf(e).indexed[o] = entry(b, o)
        \/ /\ ~replays(e, tx) /\ checkpointOf(e).sequence + 1 = b[1].sequence
           /\ Exists(e, "descriptor")
    <3>1. CASE checkpointOf(e) = checkpointAfter(d, b) /\ replays(e, tx)
      BY <3>1 DEF checkpointAfter
    <3>2. CASE checkpointOf(e) = checkpointOf(d) /\ replays(d, tx) /\ replays(e, tx)
      BY <1>1, <1>2, <1>4, <3>2 DEF TransactionOK
    <3>3. CASE checkpointOf(e) = checkpointOf(d) /\ ~replays(d, tx) /\ ~replays(e, tx)
      <4>1. Exists(d, "descriptor") /\ checkpointOf(d).sequence + 1 = b[1].sequence
        BY <1>1, <1>2, <1>4, <3>3 DEF TransactionOK
      <4>2. e.descriptor = d.descriptor
        BY <1>2, <3>3 DEF Advancing
      <4>3. Exists(e, "descriptor")
        BY <4>1, <4>2 DEF Exists
      <4> QED BY <3>3, <4>1, <4>3
    <3> QED BY <1>3, <3>1, <3>2, <3>3
  <2>3. Exists(e, "descriptor") => Only(e, "descriptor") = b
    BY <2>1 DEF Advancing, Exists, Only
  <2>4. ASSUME NEW k \in DOMAIN b, b[k].identity \in DOMAIN e.records PROVE storedAs(e, b[k])
    <3>1. b[k].identity \in DOMAIN d.records /\ e.records[b[k].identity] = d.records[b[k].identity]
      BY <2>4 DEF Advancing
    <3>2. storedAs(d, b[k])
      BY <1>1, <1>4, <3>1 DEF TransactionOK
    <3>3. b[k].sequence \in DOMAIN e.sequences
      BY <1>1, <2>4, <3>2 DEF Advancing, storedAs
    <3>4. e.sequences[b[k].sequence] = d.sequences[b[k].sequence]
      BY <3>3 DEF Advancing
    <3> QED BY <2>4, <3>1, <3>2, <3>3, <3>4 DEF storedAs
  <2>5. ASSUME NEW o \in operationsOf(b)
        PROVE  IF o \in DOMAIN e.index
               THEN \/ e.index[o] = entry(b, o)
                    \/ o \in DOMAIN tx.previous /\ e.index[o] = tx.previous[o]
               ELSE o \notin DOMAIN tx.previous
    <3>1. IF o \in DOMAIN d.index
          THEN \/ d.index[o] = entry(b, o)
               \/ o \in DOMAIN tx.previous /\ d.index[o] = tx.previous[o]
          ELSE o \notin DOMAIN tx.previous
      BY <1>1, <1>2, <1>4 DEF TransactionOK
    <3>2. (o \in DOMAIN e.index /\ e.index[o] = entry(b, o)) \/ sameIndex(d, e, o)
      BY <1>1 DEF Advancing
    <3> QED BY <3>1, <3>2 DEF sameIndex
  <2>6. ASSUME NEW o, o \notin operationsOf(b)
        PROVE  /\ o \in DOMAIN e.index <=> o \in DOMAIN checkpointOf(e).indexed
               /\ o \in DOMAIN e.index => e.index[o] = checkpointOf(e).indexed[o]
    <3>1. /\ o \in DOMAIN d.index <=> o \in DOMAIN checkpointOf(d).indexed
          /\ o \in DOMAIN d.index => d.index[o] = checkpointOf(d).indexed[o]
      BY <1>1, <1>4, <2>6 DEF TransactionOK
    <3>2. sameIndex(d, e, o)
      BY <1>1, <2>6 DEF Advancing
    <3>3. /\ o \in DOMAIN checkpointOf(e).indexed <=> o \in DOMAIN checkpointOf(d).indexed
          /\ o \in DOMAIN checkpointOf(d).indexed => checkpointOf(e).indexed[o] = checkpointOf(d).indexed[o]
      <4>1. CASE checkpointOf(e) = checkpointAfter(d, b)
        BY <2>6, <4>1 DEF checkpointAfter
      <4> QED BY <1>3, <4>1
    <3> QED BY <3>1, <3>2, <3>3 DEF sameIndex
  <2> QED BY <1>3, <2>1, <2>2, <2>3, <2>4, <2>5, <2>6 DEF TransactionOK
<1>9. NoTransactionOK(e)
  BY <1>3 DEF NoTransactionOK
<1> QED BY <1>5, <1>6, <1>7, <1>8, <1>9 DEF Recoverable

\* A receipt of the batch that is removed is covered by the batch.
LEMMA RefRemoved ==
  ASSUME NEW d, Recoverable(d), InFlight(d), NEW cf, batchOf(d) \in cf, NEW a, RefKept(d, a, cf),
         NEW e, settled(e) = settled(d),
         a.identity \in kept(d) =>
           a.identity \in DOMAIN e.records /\ e.records[a.identity] = d.records[a.identity]
  PROVE  RefKept(e, a, cf)
<1>1. \A j : covers(e, j) <=> covers(d, j)
  BY DEF covers
<1>2. CASE a.identity \in kept(d) /\ d.records[a.identity].receipt = a.receipt
  BY <1>2 DEF RefKept
<1>3. CASE a.identity \in DOMAIN d.records /\ a.identity \notin kept(d) /\ d.records[a.identity].receipt = a.receipt
  <2>1. PICK k \in DOMAIN batchOf(d) : batchOf(d)[k].identity = a.identity
    BY <1>3 DEF kept
  <2>2. batchOf(d)[k].receipt = a.receipt
    <3>1. storedAs(d, batchOf(d)[k])
      BY <1>3, <2>1 DEF Recoverable, TransactionOK
    <3> QED BY <1>3, <2>1, <3>1 DEF storedAs
  <2>3. /\ covers(d, a.identity)
        /\ settled(d).indexed[a.identity.operation].identity = a.identity
             => settled(d).indexed[a.identity.operation].receipt = a.receipt
    BY <2>1, <2>2, BatchCovered
  <2> QED BY <1>1, <2>1, <2>2, <2>3 DEF RefKept
<1>4. CASE a.identity \notin DOMAIN d.records \/ d.records[a.identity].receipt # a.receipt
  BY <1>1, <1>4 DEF RefKept
<1> QED BY <1>2, <1>3, <1>4 DEF kept

\* Callers lose nothing while it is applied.
LEMMA AdvancingKnown ==
  ASSUME NEW bg, NEW rf, NEW hd, NEW cf, NEW d, Recoverable(d), InFlight(d),
         Known(d, bg, rf, hd, cf), NEW e, Advancing(d, e)
  PROVE  Known(e, bg, rf, hd, cf)
<1>1. InFlight(e) /\ batchOf(e) = batchOf(d) /\ settled(e) = settled(d)
  BY AdvancingParts
<1>2. \A i \in kept(d) : i \in DOMAIN e.records /\ e.records[i] = d.records[i]
  BY DEF Advancing
<1>3. batchOf(d) \in cf
  BY DEF Known
<1>4. ASSUME NEW a \in rf PROVE RefKept(e, a, cf)
  <2>1. RefKept(d, a, cf)
    BY DEF Known
  <2> QED BY <1>1, <1>2, <1>3, <2>1, RefRemoved
<1>5. \A j : covers(e, j) <=> covers(d, j)
  BY <1>1 DEF covers
<1>6. ASSUME NEW b \in hd PROVE BatchKept(e, b)
  BY <1>1, <1>5 DEF Known, BatchKept
<1>7. \A i \in DOMAIN e.records : i.generation <= bg[i.operation]
  BY DEF Known, Advancing
<1> QED BY <1>1, <1>4, <1>6, <1>7 DEF Known

-----------------------------------------------------------------------------
(* A transaction that was applied, and is gone.                             *)

Completed(d, f) ==
  /\ ~InFlight(f)
  /\ DOMAIN f.records = kept(d) /\ \A i \in kept(d) : f.records[i] = d.records[i]
  /\ \A s \in DOMAIN f.sequences :
       /\ s \in DOMAIN d.sequences /\ f.sequences[s] = d.sequences[s]
       /\ \A k \in DOMAIN batchOf(d) : s # batchOf(d)[k].sequence
  /\ \A o \in operationsOf(batchOf(d)) : o \in DOMAIN f.index /\ f.index[o] = entry(batchOf(d), o)
  /\ \A o : o \notin operationsOf(batchOf(d)) => sameIndex(d, f, o)
  /\ checkpointOf(f) = settled(d)
  /\ ~Exists(f, "descriptor")

\* The index after the transaction is a partial function.
LEMMA SettledIsFunction ==
  ASSUME NEW d, Recoverable(d)
  PROVE  settled(d).indexed = [o \in DOMAIN settled(d).indexed |-> settled(d).indexed[o]]
<1>1. CASE InFlight(d) /\ ~replays(d, transaction(d))
  <2>1. settled(d) = checkpointAfter(d, batchOf(d))
    BY <1>1 DEF settled
  <2> QED BY <2>1 DEF checkpointAfter
<1>2. CASE ~(InFlight(d) /\ ~replays(d, transaction(d)))
  BY <1>2 DEF settled, Recoverable, CheckpointOK
<1> QED BY <1>1, <1>2

\* Once the transaction is applied and removed, the directory can be recovered.
LEMMA CompletedRecoverable ==
  ASSUME NEW d, Recoverable(d), InFlight(d), NEW f, Completed(d, f), IsDirectory(f)
  PROVE  Recoverable(f) /\ settled(f) = settled(d) /\ kept(f) = kept(d)
<1>1. PICK b : b = batchOf(d)
  OBVIOUS
<1>2. CheckpointOK(d) /\ RecordsOK(d) /\ SequencesOK(d) /\ TransactionOK(d)
  BY DEF Recoverable
<1>3. ~InFlight(f) /\ batchOf(f) = << >> /\ settled(f) = settled(d) /\ checkpointOf(f) = settled(d)
  BY DEF Completed, batchOf, settled
<1>4. kept(f) = kept(d)
  <2>1. DOMAIN << >> = {}
    OBVIOUS
  <2> QED BY <1>3, <2>1 DEF kept, Completed
<1>5. CheckpointOK(f)
  BY <1>2, <1>3, SettledIsFunction DEF CheckpointOK
<1>6. RecordsOK(f)
  <2>1. \A i \in kept(d) : f.records[i] = d.records[i]
    BY DEF Completed
  <2>2. Following(f.records, kept(f), settled(f))
    BY <1>2, <1>3, <1>4, <2>1, SameFollowing DEF RecordsOK
  <2>3. IsFiniteSet(DOMAIN f.records)
    BY DEF IsDirectory, Files
  <2>4. \A i \in DOMAIN f.records : i \in Identity /\ f.records[i] \in [receipt : Receipt, sequence : Nat \ {0}]
    BY <1>2, <2>1 DEF RecordsOK, Completed, kept
  <2> QED BY <2>2, <2>3, <2>4 DEF RecordsOK
<1>7. SequencesOK(f)
  <2>1. ASSUME NEW s \in DOMAIN f.sequences
        PROVE  \E i \in kept(d) : s = f.records[i].sequence
                    /\ f.sequences[s] = [identity |-> i, receipt |-> f.records[i].receipt]
    <3>1. /\ s \in DOMAIN d.sequences /\ f.sequences[s] = d.sequences[s]
          /\ \A k \in DOMAIN batchOf(d) : s # batchOf(d)[k].sequence
      BY DEF Completed
    <3>2. \A i \in kept(d) : f.records[i] = d.records[i]
      BY DEF Completed
    <3>3. \E i \in kept(d) : s = d.records[i].sequence
            /\ d.sequences[s] = [identity |-> i, receipt |-> d.records[i].receipt]
      BY <1>2, <3>1 DEF SequencesOK, Named
    <3> QED BY <3>1, <3>2, <3>3
  <2> QED BY <1>4, <2>1 DEF SequencesOK, Named
<1>8. TransactionOK(f)
  BY <1>3 DEF TransactionOK
<1>9. NoTransactionOK(f)
  <2>1. ASSUME NEW o PROVE /\ o \in DOMAIN f.index <=> o \in DOMAIN settled(d).indexed
                           /\ o \in DOMAIN f.index => f.index[o] = settled(d).indexed[o]
    <3>1. CASE o \in operationsOf(b)
      BY <1>1, <3>1, SettledEntry DEF Completed
    <3>2. CASE o \notin operationsOf(b)
      <4>1. sameIndex(d, f, o)
        BY <1>1, <3>2 DEF Completed
      <4>2. /\ o \in DOMAIN d.index <=> o \in DOMAIN checkpointOf(d).indexed
            /\ o \in DOMAIN d.index => d.index[o] = checkpointOf(d).indexed[o]
        BY <1>1, <1>2, <3>2 DEF TransactionOK
      <4>3. /\ o \in DOMAIN settled(d).indexed <=> o \in DOMAIN checkpointOf(d).indexed
            /\ o \in DOMAIN checkpointOf(d).indexed => settled(d).indexed[o] = checkpointOf(d).indexed[o]
        <5>1. CASE settled(d) = checkpointAfter(d, b)
          BY <3>2, <5>1 DEF checkpointAfter
        <5> QED BY <1>1, <5>1 DEF settled
      <4> QED BY <4>1, <4>2, <4>3 DEF sameIndex
    <3> QED BY <3>1, <3>2
  <2>2. DOMAIN f.index = DOMAIN settled(d).indexed
    BY <2>1
  <2>3. f.index = [o \in DOMAIN f.index |-> f.index[o]]
    BY DEF IsDirectory, Files
  <2>4. \A o \in DOMAIN f.index : f.index[o] = settled(d).indexed[o]
    BY <2>1
  <2>5. f.index = settled(d).indexed
    BY <2>2, <2>3, <2>4, SettledIsFunction
  <2> QED BY <1>3, <2>5 DEF NoTransactionOK, Completed
<1> QED BY <1>3, <1>4, <1>5, <1>6, <1>7, <1>8, <1>9 DEF Recoverable

\* Callers lose nothing by its removal.
LEMMA CompletedKnown ==
  ASSUME NEW bg, NEW rf, NEW hd, NEW cf, NEW d, Recoverable(d), InFlight(d),
         Known(d, bg, rf, hd, cf), NEW f, Completed(d, f), IsDirectory(f)
  PROVE  Known(f, bg, rf, hd, cf)
<1>1. ~InFlight(f) /\ settled(f) = settled(d)
  BY CompletedRecoverable DEF Completed
<1>2. \A i \in kept(d) : i \in DOMAIN f.records /\ f.records[i] = d.records[i]
  BY DEF Completed
<1>3. batchOf(d) \in cf
  BY DEF Known
<1>4. ASSUME NEW a \in rf PROVE RefKept(f, a, cf)
  <2>1. RefKept(d, a, cf)
    BY DEF Known
  <2> QED BY <1>1, <1>2, <1>3, <2>1, RefRemoved
<1>5. \A j : covers(f, j) <=> covers(d, j)
  BY <1>1 DEF covers
<1>6. ASSUME NEW b \in hd PROVE BatchKept(f, b)
  BY <1>1, <1>5 DEF Known, BatchKept
<1>7. \A i \in DOMAIN f.records : i.generation <= bg[i.operation]
  BY DEF Known, Completed, kept
<1> QED BY <1>1, <1>4, <1>6, <1>7 DEF Known

-----------------------------------------------------------------------------
(* The writes that apply a transaction.                                     *)

\* Two stages for every receipt.
LEMMA Halves ==
  ASSUME NEW k \in Nat
  PROVE  /\ (2 * k - 1) % 2 = 1 /\ (2 * k - 1 + 1) \div 2 = k
         /\ (2 * k) % 2 = 0 /\ (2 * k) \div 2 = k
OBVIOUS

\* Of every receipt the record first, then its sequence.
RemovalsAre(ws, b, n) ==
  /\ DOMAIN ws = 1 .. 2 * n
  /\ \A k \in 1 .. n : /\ 2 * k - 1 \in 1 .. 2 * n /\ 2 * k \in 1 .. 2 * n
                       /\ ws[2 * k - 1] = {remove("records", b[k].identity)}
                       /\ ws[2 * k] = {remove("sequences", b[k].sequence)}
  /\ \A m \in 1 .. 2 * n : \E k \in 1 .. n : m = 2 * k - 1 \/ m = 2 * k

\* The stages of removals name, in turn, the record and the sequence file of each
\* receipt of the batch.
LEMMA RemovalStages ==
  ASSUME NEW b, IsBatch(b), NEW d, NEW n, n = Len(b), NEW ws, ws = removals(d, b)
  PROVE  RemovalsAre(ws, b, n)
<1>1. n \in Nat
  BY BatchFacts
<1>2. DOMAIN ws = 1 .. 2 * n
  BY DEF removals
<1>3. ASSUME NEW k \in 1 .. n
      PROVE  /\ 2 * k - 1 \in 1 .. 2 * n /\ 2 * k \in 1 .. 2 * n
             /\ ws[2 * k - 1] = {remove("records", b[k].identity)}
             /\ ws[2 * k] = {remove("sequences", b[k].sequence)}
  <2>1. 2 * k - 1 \in 1 .. 2 * n /\ 2 * k \in 1 .. 2 * n
    BY <1>1
  <2>2. /\ (2 * k - 1) % 2 = 1 /\ (2 * k - 1 + 1) \div 2 = k
        /\ (2 * k) % 2 = 0 /\ (2 * k) \div 2 = k
    BY <1>1, Halves
  <2>3. \A m \in 1 .. 2 * n : ws[m] = IF m % 2 = 1 THEN {remove("records", b[(m + 1) \div 2].identity)}
                                      ELSE {remove("sequences", b[m \div 2].sequence)}
    BY DEF removals
  <2>4. ws[2 * k - 1] = {remove("records", b[k].identity)}
    BY <2>1, <2>2, <2>3
  <2>5. ws[2 * k] = {remove("sequences", b[k].sequence)}
    <3>1. PICK m \in 1 .. 2 * n : m = 2 * k
      BY <2>1
    <3>2. m % 2 # 1 /\ m \div 2 = k
      BY <2>2, <3>1
    <3>3. ws[m] = {remove("sequences", b[m \div 2].sequence)}
      BY <2>3, <3>2
    <3> QED BY <3>1, <3>2, <3>3
  <2> QED BY <2>1, <2>4, <2>5
<1>4. ASSUME NEW m \in 1 .. 2 * n PROVE \E k \in 1 .. n : m = 2 * k - 1 \/ m = 2 * k
  <2>1. (m + 1) \div 2 \in 1 .. n /\ (m = 2 * ((m + 1) \div 2) - 1 \/ m = 2 * ((m + 1) \div 2))
    BY <1>1
  <2> QED BY <2>1
<1> QED BY <1>2, <1>3, <1>4 DEF RemovalsAre

recordRemovals(b) == {remove("records", b[k].identity) : k \in DOMAIN b}
sequenceRemovals(b) == {remove("sequences", b[k].sequence) : k \in DOMAIN b}

\* A batch has finitely many files.
LEMMA FiniteImages ==
  ASSUME NEW b, IsBatch(b)
  PROVE  /\ IsFiniteSet(recordRemovals(b)) /\ IsFiniteSet(sequenceRemovals(b))
         /\ IsFiniteSet(operationsOf(b))
<1>1. IsFiniteSet(DOMAIN b)
  <2>1. Len(b) \in Nat /\ DOMAIN b = 1 .. Len(b)
    BY BatchFacts
  <2>2. IsFiniteSet(1 .. Len(b))
    BY <2>1, FS_Interval
  <2> QED BY <2>1, <2>2
<1>2. IsFiniteSet(recordRemovals(b))
  <2> DEFINE g == [k \in DOMAIN b |-> remove("records", b[k].identity)]
  <2>1. g \in Surjection(DOMAIN b, recordRemovals(b))
    BY DEF Surjection, recordRemovals
  <2> HIDE DEF g
  <2> QED BY <1>1, <2>1, FS_Surjection
<1>3. IsFiniteSet(sequenceRemovals(b))
  <2> DEFINE g == [k \in DOMAIN b |-> remove("sequences", b[k].sequence)]
  <2>1. g \in Surjection(DOMAIN b, sequenceRemovals(b))
    BY DEF Surjection, sequenceRemovals
  <2> HIDE DEF g
  <2> QED BY <1>1, <2>1, FS_Surjection
<1>4. IsFiniteSet(operationsOf(b))
  <2> DEFINE g == [k \in DOMAIN b |-> b[k].identity.operation]
  <2>1. g \in Surjection(DOMAIN b, operationsOf(b))
    BY DEF Surjection, operationsOf
  <2> HIDE DEF g
  <2> QED BY <1>1, <2>1, FS_Surjection
<1> QED BY <1>2, <1>3, <1>4

\* The removals are a queue.
LEMMA RemovalQueue ==
  ASSUME NEW b, IsBatch(b), NEW d, NEW ws, ws = removals(d, b)
  PROVE  /\ Queue(ws) /\ pending(ws) = recordRemovals(b) \cup sequenceRemovals(b)
         /\ \A Q : Closed(ws, Q) => \A k \in DOMAIN b :
              remove("sequences", b[k].sequence) \in Q => remove("records", b[k].identity) \in Q
<1>1. PICK n : n = Len(b)
  OBVIOUS
<1>2. n \in Nat /\ DOMAIN b = 1 .. n
  BY <1>1, BatchFacts
<1>3. /\ DOMAIN ws = 1 .. 2 * n
      /\ \A k \in 1 .. n : /\ 2 * k - 1 \in 1 .. 2 * n /\ 2 * k \in 1 .. 2 * n
                           /\ ws[2 * k - 1] = {remove("records", b[k].identity)}
                           /\ ws[2 * k] = {remove("sequences", b[k].sequence)}
      /\ \A m \in 1 .. 2 * n : \E k \in 1 .. n : m = 2 * k - 1 \/ m = 2 * k
  <2>1. RemovalsAre(ws, b, n)
    BY <1>1, RemovalStages
  <2> QED BY <2>1 DEF RemovalsAre
<1>4. ASSUME NEW f, NEW k
      PROVE  remove(f, k).file = f /\ remove(f, k).key = k
  BY DEF remove
<1>5. ASSUME NEW m \in 1 .. 2 * n, NEW v \in ws[m]
      PROVE  \E k \in 1 .. n : \/ m = 2 * k - 1 /\ v = remove("records", b[k].identity)
                               \/ m = 2 * k /\ v = remove("sequences", b[k].sequence)
  <2>1. PICK k \in 1 .. n : m = 2 * k - 1 \/ m = 2 * k
    BY <1>3
  <2>2. CASE m = 2 * k - 1
    BY <1>3, <2>2
  <2>3. CASE m = 2 * k
    BY <1>3, <2>3
  <2> QED BY <2>1, <2>2, <2>3
<1>6. pending(ws) = recordRemovals(b) \cup sequenceRemovals(b)
  <2>1. ASSUME NEW v \in pending(ws) PROVE v \in recordRemovals(b) \cup sequenceRemovals(b)
    <3>1. PICK m \in 1 .. 2 * n : v \in ws[m]
      BY <1>3 DEF pending
    <3> QED BY <1>2, <1>5, <3>1 DEF recordRemovals, sequenceRemovals
  <2>2. ASSUME NEW v \in recordRemovals(b) PROVE v \in pending(ws)
    <3>1. PICK k \in 1 .. n : v = remove("records", b[k].identity)
      BY <1>2 DEF recordRemovals
    <3>2. PICK m \in 1 .. 2 * n : m = 2 * k - 1 /\ ws[m] = {remove("records", b[k].identity)}
      BY <1>3
    <3> QED BY <1>3, <3>1, <3>2 DEF pending
  <2>3. ASSUME NEW v \in sequenceRemovals(b) PROVE v \in pending(ws)
    <3>1. PICK k \in 1 .. n : v = remove("sequences", b[k].sequence)
      BY <1>2 DEF sequenceRemovals
    <3>2. PICK m \in 1 .. 2 * n : m = 2 * k /\ ws[m] = {remove("sequences", b[k].sequence)}
      BY <1>3
    <3> QED BY <1>3, <3>1, <3>2 DEF pending
  <2> QED BY <2>1, <2>2, <2>3
<1>7. IsFiniteSet(pending(ws)) /\ \A w \in pending(ws) : IsWrite(w)
  <2>1. IsFiniteSet(pending(ws))
    BY <1>6, FiniteImages, FS_Union
  <2>2. \A w \in pending(ws) : w.file \in {"records", "sequences"}
    BY <1>4, <1>6 DEF recordRemovals, sequenceRemovals
  <2> QED BY <2>1, <2>2 DEF IsWrite, Files, SingleFiles
<1>8. ws \in Seq(SUBSET pending(ws))
  <2>1. PICK m : m = 2 * n
    OBVIOUS
  <2>2. m \in Nat /\ DOMAIN ws = 1 .. m
    BY <1>2, <1>3, <2>1
  <2>3. ws = [k \in DOMAIN ws |-> ws[k]]
    BY DEF removals
  <2>4. \A k \in DOMAIN ws : ws[k] \in SUBSET pending(ws)
    BY DEF pending
  <2>5. ws \in [1 .. m -> SUBSET pending(ws)]
    BY <2>2, <2>3, <2>4
  <2> QED BY <2>2, <2>5, FunctionIsSeq
<1>9. ASSUME NEW i \in 1 .. 2 * n, NEW j \in 1 .. 2 * n, NEW v \in ws[i], NEW w \in ws[j],
             v.file = w.file, v.key = w.key
      PROVE  i = j /\ v = w
  <2>1. PICK k \in 1 .. n : \/ i = 2 * k - 1 /\ v = remove("records", b[k].identity)
                            \/ i = 2 * k /\ v = remove("sequences", b[k].sequence)
    BY <1>5
  <2>2. PICK l \in 1 .. n : \/ j = 2 * l - 1 /\ w = remove("records", b[l].identity)
                            \/ j = 2 * l /\ w = remove("sequences", b[l].sequence)
    BY <1>5
  <2>3. "records" # "sequences"
    OBVIOUS
  <2>4. CASE i = 2 * k - 1 /\ v = remove("records", b[k].identity)
    <3>1. j = 2 * l - 1 /\ w = remove("records", b[l].identity)
      BY <1>4, <1>9, <2>2, <2>3, <2>4
    <3>2. b[k].identity = b[l].identity
      BY <1>4, <1>9, <2>4, <3>1
    <3>3. k = l
      BY <1>2, <3>2, BatchDistinct
    <3> QED BY <2>4, <3>1, <3>3
  <2>5. CASE i = 2 * k /\ v = remove("sequences", b[k].sequence)
    <3>1. j = 2 * l /\ w = remove("sequences", b[l].sequence)
      BY <1>4, <1>9, <2>2, <2>3, <2>5
    <3>2. b[k].sequence = b[l].sequence
      BY <1>4, <1>9, <2>5, <3>1
    <3>3. k = l
      BY <1>2, <3>2, BatchDistinct
    <3> QED BY <2>5, <3>1, <3>3
  <2> QED BY <2>1, <2>4, <2>5
<1>10. Orderly(ws)
  <2> SUFFICES ASSUME NEW i \in 1 .. 2 * n, NEW j \in 1 .. 2 * n, NEW v \in ws[i], NEW w \in ws[j]
               PROVE  (v = w => i = j) /\ ~agree(v, w)
    BY <1>3 DEF Orderly
  <2>1. v.file = w.file /\ v.key = w.key => i = j /\ v = w
    BY <1>9
  <2> QED BY <2>1 DEF agree
<1>11. ASSUME NEW Q, Closed(ws, Q), NEW k \in DOMAIN b, remove("sequences", b[k].sequence) \in Q
       PROVE  remove("records", b[k].identity) \in Q
  <2>1. PICK i \in 1 .. 2 * n : i = 2 * k - 1 /\ ws[i] = {remove("records", b[k].identity)}
    BY <1>2, <1>3
  <2>2. PICK j \in 1 .. 2 * n : j = 2 * k /\ ws[j] = {remove("sequences", b[k].sequence)}
    BY <1>2, <1>3
  <2>3. i < j
    BY <1>2, <2>1, <2>2
  <2> QED BY <1>3, <1>11, <2>1, <2>2, <2>3 DEF Closed
<1> QED BY <1>6, <1>7, <1>8, <1>10, <1>11 DEF Queue

indexWrites(b) == {put("index", o, entry(b, o)) : o \in operationsOf(b)}
checkpointWrites(d, tx) == IF replays(d, tx) THEN {} ELSE only("checkpoint", checkpointAfter(d, tx.batch))
descriptorWrites(d) == IF Exists(d, "descriptor") THEN drop("descriptor") ELSE {}

applyWrites(d, tx) ==
  (((recordRemovals(tx.batch) \cup sequenceRemovals(tx.batch)) \cup indexWrites(tx.batch))
     \cup checkpointWrites(d, tx)) \cup descriptorWrites(d)

\* What a crash may find done of them.
ApplyPart(d, tx, Q) ==
  /\ Q \in SUBSET applyWrites(d, tx)
  /\ \A k \in DOMAIN tx.batch :
       remove("sequences", tx.batch[k].sequence) \in Q => remove("records", tx.batch[k].identity) \in Q
  /\ (\E w \in descriptorWrites(d) : w \in Q) => checkpointWrites(d, tx) \subseteq Q

\* The files that applyPublicationTransactionLocked writes.
LEMMA ApplyKinds ==
  ASSUME NEW d, NEW tx, NEW v \in applyWrites(d, tx)
  PROVE  \/ /\ v.file = "records" /\ v.content = << >> /\ v \in recordRemovals(tx.batch)
            /\ \E k \in DOMAIN tx.batch : v.key = tx.batch[k].identity
         \/ /\ v.file = "sequences" /\ v.content = << >> /\ v \in sequenceRemovals(tx.batch)
            /\ \E k \in DOMAIN tx.batch : v.key = tx.batch[k].sequence
         \/ /\ v.file = "index" /\ v.content # << >> /\ v \in indexWrites(tx.batch)
            /\ v.key \in operationsOf(tx.batch) /\ v.content[1] = entry(tx.batch, v.key)
            /\ v = put("index", v.key, entry(tx.batch, v.key))
         \/ /\ v.file = "checkpoint" /\ v.content # << >> /\ v.key = "only"
            /\ v.content[1] = checkpointAfter(d, tx.batch) /\ ~replays(d, tx)
            /\ v = put("checkpoint", "only", checkpointAfter(d, tx.batch))
         \/ /\ v.file = "descriptor" /\ v.content = << >> /\ v.key = "only"
            /\ v = remove("descriptor", "only") /\ Exists(d, "descriptor")
<1>1. CASE v \in recordRemovals(tx.batch)
  BY <1>1 DEF recordRemovals, remove
<1>2. CASE v \in sequenceRemovals(tx.batch)
  BY <1>2 DEF sequenceRemovals, remove
<1>3. CASE v \in indexWrites(tx.batch)
  <2>1. PICK o \in operationsOf(tx.batch) : v = put("index", o, entry(tx.batch, o))
    BY <1>3 DEF indexWrites
  <2>2. v.file = "index" /\ v.key = o /\ v.content = <<entry(tx.batch, o)>>
    BY <2>1 DEF put
  <2>3. v.content # << >> /\ v.content[1] = entry(tx.batch, o)
    BY <2>2
  <2> QED BY <1>3, <2>1, <2>2, <2>3
<1>4. CASE v \in checkpointWrites(d, tx)
  <2>1. ~replays(d, tx) /\ v = put("checkpoint", "only", checkpointAfter(d, tx.batch))
    BY <1>4 DEF checkpointWrites, only
  <2>2. v.file = "checkpoint" /\ v.key = "only" /\ v.content = <<checkpointAfter(d, tx.batch)>>
    BY <2>1 DEF put
  <2>3. v.content # << >> /\ v.content[1] = checkpointAfter(d, tx.batch)
    BY <2>2
  <2> QED BY <2>1, <2>2, <2>3
<1>5. CASE v \in descriptorWrites(d)
  <2>1. Exists(d, "descriptor") /\ v = remove("descriptor", "only")
    BY <1>5 DEF descriptorWrites, drop
  <2>2. v.file = "descriptor" /\ v.key = "only" /\ v.content = << >>
    BY <2>1 DEF remove
  <2> QED BY <2>1, <2>2
<1> QED BY <1>1, <1>2, <1>3, <1>4, <1>5 DEF applyWrites

\* Its writes are a queue; a prefix with the checkpoint has all index entries, and
\* one without the descriptor has the checkpoint.
LEMMA ApplyQueue ==
  ASSUME NEW d, NEW tx, IsBatch(tx.batch), NEW ws, ws = applyStages(d, tx)
  PROVE  /\ Queue(ws) /\ pending(ws) = applyWrites(d, tx)
         /\ \A Q \in SUBSET pending(ws) : Closed(ws, Q) => ApplyPart(d, tx, Q)
<1>1. PICK b : b = tx.batch
  OBVIOUS
<1>2. PICK rs : rs = removals(d, b)
  OBVIOUS
<1>3. PICK I : I = indexWrites(b)
  OBVIOUS
<1>4. PICK C : C = checkpointWrites(d, tx)
  OBVIOUS
<1>5. PICK D : D = descriptorWrites(d)
  OBVIOUS
<1>6. ws = ((rs \o <<I>>) \o <<C>>) \o <<D>>
  BY <1>1, <1>2, <1>3, <1>4, <1>5 DEF applyStages, indexWrites, checkpointWrites, descriptorWrites
<1>7. /\ Queue(rs) /\ pending(rs) = recordRemovals(b) \cup sequenceRemovals(b)
      /\ \A Q : Closed(rs, Q) => \A k \in DOMAIN b :
           remove("sequences", b[k].sequence) \in Q => remove("records", b[k].identity) \in Q
  BY <1>1, <1>2, RemovalQueue
<1>8. /\ \A v \in recordRemovals(b) : v.file = "records"
      /\ \A v \in sequenceRemovals(b) : v.file = "sequences"
      /\ \A v \in I : v.file = "index"
      /\ \A v \in C : v.file = "checkpoint" /\ v.key = "only" /\ C = {v}
      /\ \A v \in D : v.file = "descriptor" /\ v.key = "only" /\ D = {v}
  <2>1. \A v \in recordRemovals(b) : v.file = "records"
    BY DEF recordRemovals, remove
  <2>2. \A v \in sequenceRemovals(b) : v.file = "sequences"
    BY DEF sequenceRemovals, remove
  <2>3. \A v \in I : v.file = "index"
    BY <1>3 DEF indexWrites, put
  <2>4. \A v \in C : v.file = "checkpoint" /\ v.key = "only" /\ C = {v}
    BY <1>4 DEF checkpointWrites, only, put
  <2>5. \A v \in D : v.file = "descriptor" /\ v.key = "only" /\ D = {v}
    BY <1>5 DEF descriptorWrites, drop, remove
  <2> QED BY <2>1, <2>2, <2>3, <2>4, <2>5
<1>9. Queue(<<I>>) /\ pending(<<I>>) = I
  <2>1. IsFiniteSet(I)
    <3> DEFINE g == [o \in operationsOf(b) |-> put("index", o, entry(b, o))]
    <3>1. g \in Surjection(operationsOf(b), I)
      BY <1>3 DEF Surjection, indexWrites
    <3> HIDE DEF g
    <3> QED BY <1>1, <3>1, FiniteImages, FS_Surjection
  <2>2. \A v, w \in I : v.file = w.file /\ v.key = w.key => v = w
    BY <1>3 DEF indexWrites, put
  <2>3. \A v \in I : IsWrite(v)
    BY <1>8 DEF IsWrite, Files, SingleFiles
  <2> QED BY <2>1, <2>2, <2>3, QueueStage
<1>10. Queue(<<C>>) /\ pending(<<C>>) = C
  <2>1. IsFiniteSet(C)
    <3>1. CASE C = {}
      BY <3>1, FS_EmptySet
    <3>2. CASE C # {}
      <4>1. PICK v \in C : C = {v}
        BY <1>8, <3>2
      <4> QED BY <4>1, FS_Singleton
    <3> QED BY <3>1, <3>2
  <2>2. \A v \in C : IsWrite(v)
    BY <1>8 DEF IsWrite, Files
  <2>3. \A v, w \in C : v = w
    BY <1>8
  <2> QED BY <2>1, <2>2, <2>3, QueueStage
<1>11. Queue(<<D>>) /\ pending(<<D>>) = D
  <2>1. IsFiniteSet(D)
    <3>1. CASE D = {}
      BY <3>1, FS_EmptySet
    <3>2. CASE D # {}
      <4>1. PICK v \in D : D = {v}
        BY <1>8, <3>2
      <4> QED BY <4>1, FS_Singleton
    <3> QED BY <3>1, <3>2
  <2>2. \A v \in D : IsWrite(v)
    BY <1>8 DEF IsWrite, Files
  <2>3. \A v, w \in D : v = w
    BY <1>8
  <2> QED BY <2>1, <2>2, <2>3, QueueStage
<1>12. PICK xs : xs = rs \o <<I>>
  OBVIOUS
<1>13. /\ Queue(xs) /\ pending(xs) = pending(rs) \cup I
       /\ \A Q : Closed(xs, Q) => Closed(rs, Q)
  <2>1. \A v \in pending(rs), w \in pending(<<I>>) : v.file # w.file
    BY <1>7, <1>8, <1>9
  <2> QED BY <1>7, <1>9, <1>12, <2>1, TwoQueues
<1>14. PICK ys : ys = xs \o <<C>>
  OBVIOUS
<1>15. /\ Queue(ys) /\ pending(ys) = pending(xs) \cup C
       /\ \A Q : Closed(ys, Q) => Closed(xs, Q)
  <2>1. \A v \in pending(xs), w \in pending(<<C>>) : v.file # w.file
    BY <1>7, <1>8, <1>10, <1>13
  <2> QED BY <1>10, <1>13, <1>14, <2>1, TwoQueues
<1>16. ws = ys \o <<D>>
  BY <1>6, <1>12, <1>14
<1>17. /\ Queue(ws) /\ pending(ws) = pending(ys) \cup D
       /\ \A Q : Closed(ws, Q) => Closed(ys, Q) /\ ((\E w \in D : w \in Q) => pending(ys) \subseteq Q)
  <2>1. \A v \in pending(ys), w \in pending(<<D>>) : v.file # w.file
    BY <1>7, <1>8, <1>11, <1>13, <1>15
  <2>2. /\ Queue(ys \o <<D>>) /\ pending(ys \o <<D>>) = pending(ys) \cup pending(<<D>>)
        /\ \A Q : Closed(ys \o <<D>>, Q) =>
             /\ Closed(ys, Q) /\ Closed(<<D>>, Q)
             /\ (\E w \in pending(<<D>>) : w \in Q) => pending(ys) \subseteq Q
    BY <1>11, <1>15, <2>1, TwoQueues
  <2> QED BY <1>11, <1>16, <2>2
<1>18. pending(ws) = applyWrites(d, tx)
  BY <1>1, <1>3, <1>4, <1>5, <1>7, <1>13, <1>15, <1>17 DEF applyWrites
<1>19. ASSUME NEW Q \in SUBSET pending(ws), Closed(ws, Q) PROVE ApplyPart(d, tx, Q)
  <2>1. Closed(rs, Q) /\ ((\E w \in D : w \in Q) => C \subseteq Q)
    BY <1>13, <1>15, <1>17, <1>19
  <2> QED BY <1>1, <1>4, <1>5, <1>7, <1>18, <2>1 DEF ApplyPart
<1> QED BY <1>17, <1>18, <1>19

\* The files after some of the writes.
ApplyFiles(d, b, tx, Q, e) ==
  /\ \A i : i \in DOMAIN e.records <=>
              i \in DOMAIN d.records /\ ~\E v \in Q : v.file = "records" /\ v.key = i
  /\ \A i \in DOMAIN e.records : e.records[i] = d.records[i]
  /\ \A s : s \in DOMAIN e.sequences <=>
              s \in DOMAIN d.sequences /\ ~\E v \in Q : v.file = "sequences" /\ v.key = s
  /\ \A s \in DOMAIN e.sequences : e.sequences[s] = d.sequences[s]
  /\ \A o : IF \E v \in Q : v.file = "index" /\ v.key = o
            THEN o \in operationsOf(b) /\ o \in DOMAIN e.index /\ e.index[o] = entry(b, o)
            ELSE sameIndex(d, e, o)
  /\ e.checkpoint = d.checkpoint \/ \E v \in Q : v.file = "checkpoint"
  /\ (\E v \in Q : v.file = "checkpoint") =>
       /\ ~replays(d, tx) /\ Exists(e, "checkpoint") /\ Only(e, "checkpoint") = checkpointAfter(d, b)
  /\ e.descriptor = d.descriptor \/ \E v \in Q : v.file = "descriptor"
  /\ (\E v \in Q : v.file = "descriptor") => ~Exists(e, "descriptor")
  /\ e.publication = d.publication

\* The files once a prefix of them is done.
LEMMA AfterApply ==
  ASSUME NEW d, IsDirectory(d), NEW tx, NEW b, b = tx.batch, NEW Q, Q \in SUBSET applyWrites(d, tx)
  PROVE  ApplyFiles(d, b, tx, Q, after(d, Q))
<1>1. PICK e : e = after(d, Q)
  OBVIOUS
<1>2. ASSUME NEW v \in Q
      PROVE  \/ v.file = "records" /\ v.content = << >>
             \/ v.file = "sequences" /\ v.content = << >>
             \/ /\ v.file = "index" /\ v.content # << >> /\ v.key \in operationsOf(b)
                /\ v.content[1] = entry(b, v.key) /\ v = put("index", v.key, entry(b, v.key))
             \/ /\ v.file = "checkpoint" /\ v.content # << >> /\ v.key = "only"
                /\ v.content[1] = checkpointAfter(d, b) /\ ~replays(d, tx)
                /\ v = put("checkpoint", "only", checkpointAfter(d, b))
             \/ v.file = "descriptor" /\ v.content = << >> /\ v.key = "only"
  BY ApplyKinds
<1>3. /\ "records" \in Files /\ "sequences" \in Files /\ "index" \in Files /\ "checkpoint" \in Files
      /\ "descriptor" \in Files /\ "publication" \in Files
  BY DEF Files
<1>4. /\ \A v \in Q : v.file = "records" => v.content = << >>
      /\ \A v \in Q : v.file = "sequences" => v.content = << >>
      /\ \A v \in Q : v.file = "descriptor" => v.content = << >> /\ v.key = "only"
      /\ \A v \in Q : v.file # "publication"
      /\ \A v \in Q : v.file = "checkpoint" =>
           /\ v.content # << >> /\ v.key = "only" /\ v.content[1] = checkpointAfter(d, b)
           /\ ~replays(d, tx) /\ v = put("checkpoint", "only", checkpointAfter(d, b))
      /\ \A v \in Q : v.file = "index" =>
           /\ v.content # << >> /\ v.key \in operationsOf(b)
           /\ v.content[1] = entry(b, v.key) /\ v = put("index", v.key, entry(b, v.key))
  BY <1>2
<1>5. /\ \A i : i \in DOMAIN e["records"] <=>
                  i \in DOMAIN d["records"] /\ ~\E v \in Q : v.file = "records" /\ v.key = i
      /\ \A i \in DOMAIN e["records"] : e["records"][i] = d["records"][i]
  BY <1>1, <1>3, <1>4, AfterRemoves
<1>6. /\ \A i : i \in DOMAIN e["sequences"] <=>
                  i \in DOMAIN d["sequences"] /\ ~\E v \in Q : v.file = "sequences" /\ v.key = i
      /\ \A i \in DOMAIN e["sequences"] : e["sequences"][i] = d["sequences"][i]
  BY <1>1, <1>3, <1>4, AfterRemoves
<1>7. /\ \A k : k \in DOMAIN e["index"] <=>
                  k \in DOMAIN d["index"] \/ \E v \in Q : v.file = "index" /\ v.key = k
      /\ \A v \in Q : v.file = "index" => e["index"][v.key] = v.content[1]
      /\ \A k \in DOMAIN d["index"] : (~\E v \in Q : v.file = "index" /\ v.key = k) =>
                                      e["index"][k] = d["index"][k]
  <2>1. /\ \A v \in Q : v.file = "index" => v.content # << >>
        /\ \A v, w \in Q : v.file = "index" /\ w.file = "index" /\ v.key = w.key => v = w
    BY <1>4
  <2> QED BY <1>1, <1>3, <2>1, AfterPuts
<1>8. \A o : IF \E v \in Q : v.file = "index" /\ v.key = o
             THEN o \in operationsOf(b) /\ o \in DOMAIN e.index /\ e.index[o] = entry(b, o)
             ELSE sameIndex(d, e, o)
  BY <1>4, <1>7 DEF sameIndex
<1>9. e.checkpoint = d.checkpoint \/ \E v \in Q : v.file = "checkpoint"
  BY <1>1, <1>3, AfterUntouched
<1>10. ASSUME NEW v \in Q, v.file = "checkpoint"
       PROVE  ~replays(d, tx) /\ Exists(e, "checkpoint") /\ Only(e, "checkpoint") = checkpointAfter(d, b)
  <2>1. /\ \A u \in Q : u.file = "checkpoint" => u.content # << >>
        /\ \A u, w \in Q : u.file = "checkpoint" /\ w.file = "checkpoint" /\ u.key = w.key => u = w
    BY <1>4
  <2>2. /\ v.key = "only" /\ v.content[1] = checkpointAfter(d, b) /\ ~replays(d, tx)
    BY <1>4, <1>10
  <2>3. "only" \in DOMAIN e["checkpoint"] /\ e["checkpoint"]["only"] = v.content[1]
    BY <1>1, <1>3, <1>10, <2>1, <2>2, AfterPuts
  <2> QED BY <2>2, <2>3 DEF Exists, Only
<1>11. e.descriptor = d.descriptor \/ \E v \in Q : v.file = "descriptor"
  BY <1>1, <1>3, AfterUntouched
<1>12. ASSUME NEW v \in Q, v.file = "descriptor" PROVE ~Exists(e, "descriptor")
  <2>1. \A k : k \in DOMAIN e["descriptor"] <=>
                  k \in DOMAIN d["descriptor"] /\ ~\E u \in Q : u.file = "descriptor" /\ u.key = k
    BY <1>1, <1>3, <1>4, AfterRemoves
  <2>2. \A k \in DOMAIN d["descriptor"] : k = "only"
    BY DEF IsDirectory, SingleFiles
  <2>3. v.key = "only"
    BY <1>4, <1>12
  <2> QED BY <1>12, <2>1, <2>2, <2>3 DEF Exists
<1>13. e.publication = d.publication
  BY <1>1, <1>3, <1>4, AfterUntouched
<1>14. ApplyFiles(d, b, tx, Q, e)
  BY <1>5, <1>6, <1>8, <1>9, <1>10, <1>11, <1>12, <1>13 DEF ApplyFiles
<1> QED BY <1>1, <1>14

\* Each prefix advances the transaction.
LEMMA ApplyAdvances ==
  ASSUME NEW d, Recoverable(d), InFlight(d), NEW tx, tx = transaction(d), NEW Q, ApplyPart(d, tx, Q)
  PROVE  Advancing(d, after(d, Q))
<1>1. PICK b : b = tx.batch
  OBVIOUS
<1>2. b = batchOf(d) /\ IsBatch(b) /\ IsDirectory(d) /\ TransactionOK(d)
  BY <1>1 DEF batchOf, Recoverable, TransactionOK
<1>3. PICK e : e = after(d, Q)
  OBVIOUS
<1>4. ApplyFiles(d, b, tx, Q, e)
  BY <1>1, <1>2, <1>3, AfterApply DEF ApplyPart
<1>5. \A v \in Q : /\ v.file = "records" => v \in recordRemovals(b)
                   /\ v.file = "sequences" => v \in sequenceRemovals(b)
                   /\ v.file = "descriptor" => v \in descriptorWrites(d)
  <2>1. ASSUME NEW v \in Q
        PROVE  /\ v.file = "records" => v \in recordRemovals(b)
               /\ v.file = "sequences" => v \in sequenceRemovals(b)
               /\ v.file = "descriptor" => v \in descriptorWrites(d)
    <3>1. v \in applyWrites(d, tx)
      BY DEF ApplyPart
    <3> QED BY <1>1, <3>1, ApplyKinds DEF descriptorWrites, drop
  <2> QED BY <2>1
<1>6. \A i \in DOMAIN e.records : i \in DOMAIN d.records /\ e.records[i] = d.records[i]
  BY <1>4 DEF ApplyFiles
<1>7. ASSUME NEW i \in kept(d) PROVE i \in DOMAIN e.records
  <2>1. i \in DOMAIN d.records /\ \A k \in DOMAIN b : b[k].identity # i
    BY <1>2 DEF kept
  <2>2. \A v \in recordRemovals(b) : \E k \in DOMAIN b : v.key = b[k].identity
    BY DEF recordRemovals, remove
  <2>3. ~\E v \in Q : v.file = "records" /\ v.key = i
    BY <1>5, <2>1, <2>2
  <2> QED BY <1>4, <2>1, <2>3 DEF ApplyFiles
<1>8. \A s \in DOMAIN e.sequences : s \in DOMAIN d.sequences /\ e.sequences[s] = d.sequences[s]
  BY <1>4 DEF ApplyFiles
<1>9. ASSUME NEW k \in DOMAIN b, b[k].identity \in DOMAIN e.records, b[k].sequence \in DOMAIN d.sequences
      PROVE  b[k].sequence \in DOMAIN e.sequences
  <2> SUFFICES ASSUME NEW v \in Q, v.file = "sequences", v.key = b[k].sequence
               PROVE  FALSE
    BY <1>4, <1>9 DEF ApplyFiles
  <2>1. PICK l \in DOMAIN b : v = remove("sequences", b[l].sequence)
    BY <1>5 DEF sequenceRemovals
  <2>2. v.key = b[l].sequence
    BY <2>1 DEF remove
  <2>3. l = k
    BY <1>2, <2>2, BatchDistinct
  <2>4. remove("records", b[k].identity) \in Q
    BY <1>1, <2>1, <2>3 DEF ApplyPart
  <2>5. remove("records", b[k].identity).file = "records" /\ remove("records", b[k].identity).key = b[k].identity
    BY DEF remove
  <2>6. ~\E u \in Q : u.file = "records" /\ u.key = b[k].identity
    BY <1>4, <1>9 DEF ApplyFiles
  <2> QED BY <2>4, <2>5, <2>6
<1>10. \A o \in operationsOf(b) : \/ o \in DOMAIN e.index /\ e.index[o] = entry(b, o)
                                  \/ sameIndex(d, e, o)
  BY <1>4 DEF ApplyFiles
<1>11. \A o : o \notin operationsOf(b) => sameIndex(d, e, o)
  BY <1>4 DEF ApplyFiles
<1>12. \/ e.checkpoint = d.checkpoint
       \/ ~replays(d, tx) /\ Exists(e, "checkpoint") /\ Only(e, "checkpoint") = checkpointAfter(d, b)
  BY <1>4 DEF ApplyFiles
<1>13. \/ e.descriptor = d.descriptor
       \/ ~Exists(e, "descriptor") /\ replays(e, tx)
  <2> SUFFICES ASSUME NEW v \in Q, v.file = "descriptor" PROVE ~Exists(e, "descriptor") /\ replays(e, tx)
    BY <1>4 DEF ApplyFiles
  <2>1. ~Exists(e, "descriptor")
    BY <1>4 DEF ApplyFiles
  <2>2. checkpointWrites(d, tx) \subseteq Q
    BY <1>5 DEF ApplyPart
  <2>3. CASE replays(d, tx)
    <3>1. e.checkpoint = d.checkpoint
      BY <1>4, <2>3 DEF ApplyFiles
    <3>2. checkpointOf(e) = checkpointOf(d)
      BY <3>1 DEF checkpointOf, Exists, Only
    <3> QED BY <2>1, <2>3, <3>2 DEF replays
  <2>4. CASE ~replays(d, tx)
    <3>1. put("checkpoint", "only", checkpointAfter(d, b)) \in Q
      BY <1>1, <2>2, <2>4 DEF checkpointWrites, only
    <3>2. put("checkpoint", "only", checkpointAfter(d, b)).file = "checkpoint"
      BY DEF put
    <3>3. Exists(e, "checkpoint") /\ Only(e, "checkpoint") = checkpointAfter(d, b)
      BY <1>4, <3>1, <3>2 DEF ApplyFiles
    <3>4. checkpointOf(e) = checkpointAfter(d, b)
      BY <3>3 DEF checkpointOf
    <3> QED BY <1>1, <2>1, <3>4 DEF replays, checkpointAfter
  <2> QED BY <2>3, <2>4
<1>14. e.publication = d.publication
  BY <1>4 DEF ApplyFiles
<1>15. Advancing(d, e)
  BY <1>2, <1>6, <1>7, <1>8, <1>9, <1>10, <1>11, <1>12, <1>13, <1>14 DEF Advancing
<1> QED BY <1>3, <1>15

\* All of them, and the transaction is gone.
LEMMA ApplyCompletes ==
  ASSUME NEW d, Recoverable(d), InFlight(d), NEW tx, tx = transaction(d),
         NEW e, e = after(d, applyWrites(d, tx)),
         NEW f, ~InFlight(f), f.records = e.records, f.sequences = e.sequences, f.index = e.index,
         f.checkpoint = e.checkpoint, f.descriptor = e.descriptor
  PROVE  Completed(d, f)
<1>1. PICK b : b = tx.batch
  OBVIOUS
<1>2. b = batchOf(d) /\ IsBatch(b) /\ IsDirectory(d) /\ TransactionOK(d)
  BY <1>1 DEF batchOf, Recoverable, TransactionOK
<1>3. PICK Q : Q = applyWrites(d, tx)
  OBVIOUS
<1>4. ApplyFiles(d, b, tx, Q, e)
  BY <1>1, <1>2, <1>3, AfterApply
<1>5. ASSUME NEW k \in DOMAIN b
      PROVE  /\ \E v \in Q : v.file = "records" /\ v.key = b[k].identity
             /\ \E v \in Q : v.file = "sequences" /\ v.key = b[k].sequence
  <2>1. remove("records", b[k].identity) \in Q /\ remove("sequences", b[k].sequence) \in Q
    BY <1>1, <1>3 DEF applyWrites, recordRemovals, sequenceRemovals
  <2>2. /\ remove("records", b[k].identity).file = "records"
        /\ remove("records", b[k].identity).key = b[k].identity
        /\ remove("sequences", b[k].sequence).file = "sequences"
        /\ remove("sequences", b[k].sequence).key = b[k].sequence
    BY DEF remove
  <2> QED BY <2>1, <2>2
<1>6. ASSUME NEW o \in operationsOf(b) PROVE \E v \in Q : v.file = "index" /\ v.key = o
  <2>1. put("index", o, entry(b, o)) \in Q
    BY <1>1, <1>3 DEF applyWrites, indexWrites
  <2>2. put("index", o, entry(b, o)).file = "index" /\ put("index", o, entry(b, o)).key = o
    BY DEF put
  <2> QED BY <2>1, <2>2
<1>7. DOMAIN f.records = kept(d) /\ \A i \in kept(d) : f.records[i] = d.records[i]
  <2>1. ASSUME NEW i PROVE i \in DOMAIN e.records <=> i \in kept(d)
    <3>1. ASSUME i \in DOMAIN e.records PROVE i \in kept(d)
      BY <1>2, <1>4, <1>5, <3>1 DEF ApplyFiles, kept
    <3>2. ASSUME i \in kept(d) PROVE i \in DOMAIN e.records
      <4>1. i \in DOMAIN d.records /\ \A k \in DOMAIN b : b[k].identity # i
        BY <1>2, <3>2 DEF kept
      <4>2. ASSUME NEW v \in Q, v.file = "records" PROVE \E k \in DOMAIN b : v.key = b[k].identity
        BY <1>1, <1>3, <4>2, ApplyKinds
      <4>3. ~\E v \in Q : v.file = "records" /\ v.key = i
        BY <4>1, <4>2
      <4> QED BY <1>4, <4>1, <4>3 DEF ApplyFiles
    <3> QED BY <3>1, <3>2
  <2>2. DOMAIN e.records = kept(d)
    BY <2>1
  <2> QED BY <1>4, <2>2 DEF ApplyFiles
<1>8. ASSUME NEW s \in DOMAIN f.sequences
      PROVE  /\ s \in DOMAIN d.sequences /\ f.sequences[s] = d.sequences[s]
             /\ \A k \in DOMAIN b : s # b[k].sequence
  BY <1>4, <1>5 DEF ApplyFiles
<1>9. \A o \in operationsOf(b) : o \in DOMAIN f.index /\ f.index[o] = entry(b, o)
  BY <1>4, <1>6 DEF ApplyFiles
<1>10. \A o : o \notin operationsOf(b) => sameIndex(d, f, o)
  BY <1>4 DEF ApplyFiles, sameIndex
<1>11. checkpointOf(f) = checkpointOf(e)
  BY DEF checkpointOf, Exists, Only
<1>12. checkpointOf(e) = settled(d)
  <2>1. CASE replays(d, tx)
    <3>1. e.checkpoint = d.checkpoint
      BY <1>4, <2>1 DEF ApplyFiles
    <3>2. checkpointOf(e) = checkpointOf(d)
      BY <3>1 DEF checkpointOf, Exists, Only
    <3> QED BY <2>1, <3>2 DEF settled
  <2>2. CASE ~replays(d, tx)
    <3>1. put("checkpoint", "only", checkpointAfter(d, b)) \in Q
      BY <1>1, <1>3, <2>2 DEF applyWrites, checkpointWrites, only
    <3>2. put("checkpoint", "only", checkpointAfter(d, b)).file = "checkpoint"
      BY DEF put
    <3>3. Exists(e, "checkpoint") /\ Only(e, "checkpoint") = checkpointAfter(d, b)
      BY <1>4, <3>1, <3>2 DEF ApplyFiles
    <3> QED BY <1>2, <2>2, <3>3 DEF checkpointOf, settled
  <2> QED BY <2>1, <2>2
<1>13. ~Exists(f, "descriptor")
  <2>1. CASE Exists(d, "descriptor")
    <3>1. remove("descriptor", "only") \in Q /\ remove("descriptor", "only").file = "descriptor"
      BY <1>3, <2>1 DEF applyWrites, descriptorWrites, drop, remove
    <3> QED BY <1>4, <3>1 DEF ApplyFiles, Exists
  <2>2. CASE ~Exists(d, "descriptor")
    <3>1. \A v \in Q : v.file # "descriptor"
      BY <1>3, <2>2, ApplyKinds
    <3> QED BY <1>4, <2>2, <3>1 DEF ApplyFiles, Exists
  <2> QED BY <2>1, <2>2
<1> QED BY <1>2, <1>7, <1>8, <1>9, <1>10, <1>11, <1>12, <1>13 DEF Completed

-----------------------------------------------------------------------------
(* A transaction that was written and of which nothing was applied.         *)

Transacts(d, p, b) ==
  /\ p.records = d.records /\ p.sequences = d.sequences /\ p.index = d.index
  /\ p.checkpoint = d.checkpoint /\ p.descriptor = d.descriptor
  /\ InFlight(p) /\ transaction(p) = transactionOf(d, b)

\* What is frozen can be published.
Frozen(d, b) ==
  /\ Recoverable(d) /\ TrustedOK(d) /\ ~needsRebuild(d)
  /\ Exists(d, "descriptor") /\ Only(d, "descriptor") = b

FrozenParts(d, b, R, x, n) ==
  /\ IsBatch(b) /\ x \in Nat /\ n \in Nat /\ n >= 1
  /\ b[1].sequence = x + 1 /\ b[Len(b)].sequence = x + n
  /\ \A k \in DOMAIN b :
       /\ b[k].identity \in DOMAIN R
       /\ R[b[k].identity].receipt = b[k].receipt
       /\ R[b[k].identity].sequence = b[k].sequence
       /\ b[k].sequence \in x + 1 .. x + n
  /\ \A s \in x + 1 .. x + n : \E k \in DOMAIN b : b[k].sequence = s
  /\ \A k \in DOMAIN b : storedAs(d, b[k])

\* A frozen batch is the first of the pending records, and is stored.
LEMMA FrozenBatch ==
  ASSUME NEW d, NEW b, Frozen(d, b), NEW R, R = d.records, NEW c, c = checkpointOf(d),
         NEW x, x = c.sequence, NEW n, n = Len(b)
  PROVE  FrozenParts(d, b, R, x, n)
<1>1. NoTransactionOK(d) /\ ~InFlight(d) /\ CheckpointOK(d) /\ SequencesOK(d)
      /\ kept(d) = DOMAIN d.records /\ batchOf(d) = << >>
      /\ Following(d.records, DOMAIN d.records, checkpointOf(d))
  BY TrustedFacts DEF Frozen, Recoverable
<1>2. /\ IsBatch(b) /\ b[1].sequence = c.sequence + 1 /\ c.sequence \in Nat
      /\ \A k \in DOMAIN b :
           /\ b[k].identity \in DOMAIN d.records
           /\ d.records[b[k].identity] = [receipt |-> b[k].receipt, sequence |-> b[k].sequence]
  BY <1>1 DEF NoTransactionOK, Frozen, CheckpointOK
<1>3. /\ Len(b) \in Nat /\ Len(b) >= 1 /\ DOMAIN b = 1 .. Len(b)
      /\ \A k \in DOMAIN b : b[k].sequence = b[1].sequence + k - 1
      /\ b[Len(b)].sequence = b[1].sequence + Len(b) - 1
  BY <1>2, BatchFacts
<1>b. /\ n \in Nat /\ x \in Nat /\ n >= 1 /\ DOMAIN b = 1 .. n
      /\ \A k \in 1 .. n : b[k].sequence = x + k
      /\ b[n].sequence = x + n
  <2>1. \A k \in 1 .. n : b[k].sequence = b[1].sequence + k - 1 /\ b[1].sequence = x + 1
    BY <1>2, <1>3
  <2>2. \A k \in 1 .. n : b[k].sequence = x + k
    BY <2>1, <1>2, <1>3
  <2> QED BY <1>2, <1>3, <2>2
<1>4. ASSUME NEW s \in x + 1 .. x + n PROVE \E k \in DOMAIN b : b[k].sequence = s
  <2>1. PICK k : k = s - x
    OBVIOUS
  <2>2. k \in 1 .. n /\ x + k = s
    BY <1>b, <2>1
  <2> QED BY <1>b, <2>2
<1>5. ASSUME NEW k \in DOMAIN b PROVE storedAs(d, b[k])
  <2>1. PICK i : i = b[k].identity
    OBVIOUS
  <2>2. /\ i \in DOMAIN d.records /\ d.records[i] = [receipt |-> b[k].receipt, sequence |-> b[k].sequence]
        /\ d.records[i].sequence = b[k].sequence /\ d.records[i].receipt = b[k].receipt
    BY <1>2, <2>1
  <2>3. d.records[i].sequence \in DOMAIN d.sequences
    BY <2>2 DEF Frozen, TrustedOK
  <2>4. PICK j \in DOMAIN d.records :
          /\ b[k].sequence = d.records[j].sequence
          /\ d.sequences[b[k].sequence] = [identity |-> j, receipt |-> d.records[j].receipt]
    BY <1>1, <2>2, <2>3 DEF SequencesOK, Named
  <2>5. i = j
    BY <1>1, <2>2, <2>4 DEF Following
  <2> QED BY <2>1, <2>2, <2>3, <2>4, <2>5 DEF storedAs
<1>6. ASSUME NEW k \in DOMAIN b
      PROVE  /\ d.records[b[k].identity].receipt = b[k].receipt
             /\ d.records[b[k].identity].sequence = b[k].sequence
             /\ b[k].sequence \in x + 1 .. x + n
  <2>1. b[k].sequence \in x + 1 .. x + n
    BY <1>b
  <2>2. PICK i : i = d.records[b[k].identity]
    OBVIOUS
  <2>3. i = [receipt |-> b[k].receipt, sequence |-> b[k].sequence]
    BY <1>2, <2>2
  <2>4. i.receipt = b[k].receipt /\ i.sequence = b[k].sequence
    BY <2>3
  <2> QED BY <2>1, <2>2, <2>4
<1> QED BY <1>2, <1>4, <1>5, <1>6, <1>b DEF FrozenParts

TransactionParts(d, b, p, R, c, cp) ==
  /\ batchOf(p) = b /\ ~replays(p, transaction(p)) /\ checkpointOf(p) = c
  /\ settled(p) = cp
  /\ \A i : i \in kept(p) <=> i \in DOMAIN R /\ \A k \in DOMAIN b : b[k].identity # i
  /\ transaction(p).batch = b
  /\ transaction(p).previous = Restrict(d.index, operationsOf(b) \cap DOMAIN d.index)

\* What a directory is once the transaction of a frozen batch is written.
LEMMA TransactedParts ==
  ASSUME NEW d, NEW b, Frozen(d, b), NEW p, Transacts(d, p, b), NEW R, R = d.records,
         NEW c, c = checkpointOf(d), NEW cp, cp = checkpointAfter(d, b)
  PROVE  TransactionParts(d, b, p, R, c, cp)
<1>1. transaction(p).batch = b
      /\ transaction(p).previous = Restrict(d.index, operationsOf(b) \cap DOMAIN d.index)
  BY DEF Transacts, transactionOf
<1>2. batchOf(p) = b
  BY <1>1 DEF batchOf, Transacts
<1>3. checkpointOf(p) = checkpointOf(d)
  BY DEF Transacts, checkpointOf, Exists, Only
<1>4. PICK x, n : x = c.sequence /\ n = Len(b)
  OBVIOUS
<1>5. x \in Nat /\ n \in Nat /\ n >= 1 /\ b[Len(b)].sequence = x + n
  BY <1>4, FrozenBatch DEF FrozenParts
<1>6. ~replays(p, transaction(p))
  BY <1>1, <1>3, <1>4, <1>5 DEF replays
<1>7. settled(p) = checkpointAfter(p, b)
  BY <1>2, <1>6 DEF settled, Transacts
<1>8. checkpointAfter(p, b) = checkpointAfter(d, b)
  BY <1>3 DEF checkpointAfter
<1>9. \A i : i \in kept(p) <=> i \in DOMAIN R /\ \A k \in DOMAIN b : b[k].identity # i
  BY <1>2 DEF kept, Transacts
<1> QED BY <1>1, <1>2, <1>3, <1>6, <1>7, <1>8, <1>9 DEF TransactionParts

\* The index entries of the batch replace older ones.
LEMMA TransactedIndex ==
  ASSUME NEW d, NEW b, Frozen(d, b), NEW cp, cp = checkpointAfter(d, b), NEW c, c = checkpointOf(d),
         NEW x, x = c.sequence, NEW n, n = Len(b)
  PROVE  /\ cp.sequence = x + n
         /\ DOMAIN cp.indexed = DOMAIN c.indexed \cup operationsOf(b)
         /\ \A o \in operationsOf(b) : \E k \in DOMAIN b :
              /\ cp.indexed[o] = b[k] /\ b[k].identity.operation = o
              /\ o \in DOMAIN c.indexed =>
                   c.indexed[o].identity.generation < b[k].identity.generation
         /\ \A o \in DOMAIN c.indexed : o \notin operationsOf(b) => cp.indexed[o] = c.indexed[o]
<1>1. FrozenParts(d, b, d.records, x, n)
  BY FrozenBatch
<1>2. Following(d.records, DOMAIN d.records, c)
  BY TrustedFacts DEF Frozen
<1>3. /\ cp.sequence = b[Len(b)].sequence
      /\ DOMAIN cp.indexed = DOMAIN c.indexed \cup operationsOf(b)
      /\ \A o \in DOMAIN cp.indexed :
           cp.indexed[o] = IF o \in operationsOf(b) THEN entry(b, o) ELSE c.indexed[o]
  BY DEF checkpointAfter
<1>4. ASSUME NEW o \in operationsOf(b)
      PROVE  \E k \in DOMAIN b :
              /\ cp.indexed[o] = b[k] /\ b[k].identity.operation = o
              /\ o \in DOMAIN c.indexed =>
                   c.indexed[o].identity.generation < b[k].identity.generation
  <2>1. PICK k \in DOMAIN b : entry(b, o) = b[k] /\ b[k].identity.operation = o
    BY <1>1, EntryFacts DEF FrozenParts
  <2>2. o \in DOMAIN c.indexed => c.indexed[o].identity.generation < b[k].identity.generation
    BY <1>1, <1>2, <2>1 DEF Following, FrozenParts
  <2> QED BY <1>3, <2>1, <2>2
<1>5. \A o \in DOMAIN c.indexed : o \notin operationsOf(b) => cp.indexed[o] = c.indexed[o]
  BY <1>3
<1>6. cp.sequence = x + n
  BY <1>1, <1>3 DEF FrozenParts
<1> QED BY <1>3, <1>4, <1>5, <1>6

\* From then on it can be recovered by applying the transaction.
LEMMA TransactedRecoverable ==
  ASSUME NEW d, NEW b, Frozen(d, b), NEW p, Transacts(d, p, b), IsDirectory(p)
  PROVE  Recoverable(p)
<1>1. PICK c : c = checkpointOf(d)
  OBVIOUS
<1>2. PICK cp : cp = checkpointAfter(d, b)
  OBVIOUS
<1>3. PICK n, x : n = Len(b) /\ x = c.sequence
  OBVIOUS
<1>4. PICK R : R = d.records
  OBVIOUS
<1>5. /\ IsBatch(b) /\ x \in Nat /\ b[1].sequence = x + 1
      /\ \A k \in DOMAIN b :
              /\ b[k].identity \in DOMAIN R
              /\ R[b[k].identity].receipt = b[k].receipt
              /\ R[b[k].identity].sequence = b[k].sequence
              /\ b[k].sequence \in x + 1 .. x + n
      /\ \A s \in x + 1 .. x + n : \E k \in DOMAIN b : b[k].sequence = s
      /\ \A k \in DOMAIN b : storedAs(d, b[k])
  <2>1. FrozenParts(d, b, R, x, n)
    BY <1>1, <1>3, <1>4, FrozenBatch
  <2> QED BY <2>1 DEF FrozenParts
<1>6. /\ batchOf(p) = b /\ ~replays(p, transaction(p)) /\ checkpointOf(p) = c
      /\ settled(p) = cp
      /\ \A i : i \in kept(p) <=> i \in DOMAIN R /\ \A k \in DOMAIN b : b[k].identity # i
      /\ transaction(p).batch = b
      /\ transaction(p).previous = Restrict(d.index, operationsOf(b) \cap DOMAIN d.index)
  <2>1. TransactionParts(d, b, p, R, c, cp)
    BY <1>1, <1>2, <1>4, TransactedParts
  <2> QED BY <2>1 DEF TransactionParts
<1>7. /\ cp.sequence = x + n
      /\ DOMAIN cp.indexed = DOMAIN c.indexed \cup operationsOf(b)
      /\ \A o \in operationsOf(b) : \E k \in DOMAIN b :
           /\ cp.indexed[o] = b[k] /\ b[k].identity.operation = o
           /\ o \in DOMAIN c.indexed => c.indexed[o].identity.generation < b[k].identity.generation
      /\ \A o \in DOMAIN c.indexed : o \notin operationsOf(b) => cp.indexed[o] = c.indexed[o]
  BY <1>1, <1>2, <1>3, TransactedIndex
<1>8. n \in Nat /\ n >= 1 /\ \A k \in DOMAIN b : b[k] \in Ref /\ b[k].sequence \in Nat
  BY <1>3, <1>5, BatchFacts
<1>9. /\ CheckpointOK(d) /\ SequencesOK(d) /\ NoTransactionOK(d) /\ RecordsOK(d)
      /\ settled(d) = c /\ kept(d) = DOMAIN R /\ batchOf(d) = << >> /\ ~InFlight(d)
      /\ Following(R, DOMAIN R, c)
      /\ \A i \in DOMAIN R : i \in Identity /\ R[i].sequence \in Nat
  BY <1>1, <1>4, TrustedFacts DEF Frozen, Recoverable
<1>10. CheckpointOK(p)
  <2>1. cp.sequence \in Nat
    BY <1>5, <1>7, <1>8
  <2>2. ASSUME NEW o \in DOMAIN cp.indexed
        PROVE  /\ cp.indexed[o] \in Ref /\ cp.indexed[o].identity.operation = o
               /\ cp.indexed[o].sequence <= cp.sequence
    <3>1. CASE o \in operationsOf(b)
      <4>1. PICK k \in DOMAIN b : cp.indexed[o] = b[k] /\ b[k].identity.operation = o
        BY <1>7, <3>1
      <4>2. b[k].sequence <= x + n
        BY <1>5, <1>8
      <4> QED BY <1>7, <1>8, <4>1, <4>2
    <3>2. CASE o \notin operationsOf(b)
      <4>1. o \in DOMAIN c.indexed /\ cp.indexed[o] = c.indexed[o]
        BY <1>7, <3>2
      <4>2. /\ c.indexed[o] \in Ref /\ c.indexed[o].identity.operation = o
            /\ c.indexed[o].sequence <= x
        BY <1>3, <1>9, <4>1 DEF CheckpointOK
      <4>3. c.indexed[o].sequence \in Nat
        BY <4>2 DEF Ref
      <4> QED BY <1>5, <1>7, <1>8, <4>1, <4>2, <4>3
    <3> QED BY <3>1, <3>2
  <2>3. c.sequence \in Nat /\ c.indexed = [o \in DOMAIN c.indexed |-> c.indexed[o]]
    BY <1>1, <1>9 DEF CheckpointOK
  <2> QED BY <1>6, <2>1, <2>2, <2>3 DEF CheckpointOK
<1>11. ASSUME NEW i \in kept(p) PROVE R[i].sequence > x + n
  <2>1. R[i].sequence >= x + 1 /\ i \in DOMAIN R /\ R[i].sequence \in Nat
    BY <1>3, <1>5, <1>6, <1>9 DEF Following
  <2>2. ASSUME R[i].sequence \in x + 1 .. x + n PROVE FALSE
    <3>1. PICK k \in DOMAIN b : b[k].sequence = R[i].sequence
      BY <1>5, <2>2
    <3>2. b[k].identity = i
      BY <1>5, <1>9, <2>1, <3>1 DEF Following
    <3> QED BY <1>6, <3>2
  <2> QED BY <1>5, <1>8, <2>1, <2>2
<1>12. Following(R, kept(p), cp)
  <2>1. ASSUME NEW i \in kept(p), i.operation \in DOMAIN cp.indexed
        PROVE  cp.indexed[i.operation].identity.generation < i.generation
    <3>1. i \in DOMAIN R
      BY <1>6
    <3>2. CASE i.operation \in operationsOf(b)
      <4>1. PICK k \in DOMAIN b : cp.indexed[i.operation] = b[k] /\ b[k].identity.operation = i.operation
        BY <1>7, <3>2
      <4>2. b[k].identity \in DOMAIN R /\ R[b[k].identity].sequence = b[k].sequence
        BY <1>5
      <4>3. b[k].sequence <= x + n /\ b[k].sequence \in Nat /\ R[i].sequence \in Nat
        BY <1>5, <1>8, <1>9, <3>1
      <4>4. R[b[k].identity].sequence < R[i].sequence
        BY <1>5, <1>8, <1>11, <2>1, <4>2, <4>3
      <4> QED BY <1>9, <3>1, <4>1, <4>2, <4>4 DEF Following
    <3>3. CASE i.operation \notin operationsOf(b)
      <4>1. i.operation \in DOMAIN c.indexed /\ cp.indexed[i.operation] = c.indexed[i.operation]
        BY <1>7, <2>1, <3>3
      <4> QED BY <1>9, <3>1, <4>1 DEF Following
    <3> QED BY <3>2, <3>3
  <2>2. ASSUME NEW i \in kept(p), NEW s \in cp.sequence + 1 .. R[i].sequence
        PROVE  \E j \in kept(p) : R[j].sequence = s
    <3>1. i \in DOMAIN R /\ s \in c.sequence + 1 .. R[i].sequence /\ s > x + n
      BY <1>3, <1>5, <1>6, <1>7, <1>8, <1>9
    <3>2. PICK j \in DOMAIN R : R[j].sequence = s
      BY <1>9, <3>1 DEF Following
    <3>3. ASSUME NEW k \in DOMAIN b, b[k].identity = j PROVE FALSE
      <4>1. R[j].sequence \in x + 1 .. x + n
        BY <1>5, <3>3
      <4> QED BY <1>5, <1>8, <3>1, <3>2, <4>1
    <3> QED BY <1>6, <3>2, <3>3
  <2>3. \A i, j \in kept(p) :
          /\ R[i].sequence = R[j].sequence => i = j
          /\ i.operation = j.operation /\ R[i].sequence < R[j].sequence => i.generation < j.generation
    BY <1>6, <1>9 DEF Following
  <2>4. \A i \in kept(p) : R[i].sequence > cp.sequence
    BY <1>7, <1>11
  <2> QED BY <2>1, <2>2, <2>3, <2>4 DEF Following
<1>13. RecordsOK(p)
  BY <1>4, <1>6, <1>9, <1>12 DEF RecordsOK, Transacts
<1>14. SequencesOK(p)
  <2>1. ASSUME NEW s \in DOMAIN d.sequences
        PROVE  \/ \E i \in kept(p) : s = R[i].sequence
                    /\ d.sequences[s] = [identity |-> i, receipt |-> R[i].receipt]
               \/ \E k \in DOMAIN b : s = b[k].sequence
                    /\ d.sequences[s] = [identity |-> b[k].identity, receipt |-> b[k].receipt]
    <3>1. PICK i \in DOMAIN R : s = R[i].sequence
            /\ d.sequences[s] = [identity |-> i, receipt |-> R[i].receipt]
      BY <1>4, <1>9 DEF SequencesOK, Named
    <3>2. CASE i \in kept(p)
      BY <3>1, <3>2
    <3>3. CASE i \notin kept(p)
      <4>1. PICK k \in DOMAIN b : b[k].identity = i
        BY <1>6, <3>3
      <4>2. s = b[k].sequence /\ R[i].receipt = b[k].receipt
        BY <1>5, <3>1, <4>1
      <4> QED BY <3>1, <4>1, <4>2
    <3> QED BY <3>2, <3>3
  <2> QED BY <1>4, <1>6, <2>1 DEF SequencesOK, Named, Transacts
<1>15. TransactionOK(p)
  <2>1. /\ checkpointOf(p).sequence + 1 = b[1].sequence
        /\ Exists(p, "descriptor") /\ Only(p, "descriptor") = b
    BY <1>3, <1>5, <1>6 DEF Transacts, Frozen, Exists, Only
  <2>2. \A k \in DOMAIN b : storedAs(p, b[k])
    BY <1>5 DEF storedAs, Transacts
  <2>3. ASSUME NEW o \in operationsOf(b)
        PROVE  IF o \in DOMAIN p.index
               THEN \/ p.index[o] = entry(b, o)
                    \/ o \in DOMAIN transaction(p).previous /\ p.index[o] = transaction(p).previous[o]
               ELSE o \notin DOMAIN transaction(p).previous
    <3>1. p.index = d.index
      BY DEF Transacts
    <3>2. DOMAIN transaction(p).previous = operationsOf(b) \cap DOMAIN d.index
      BY <1>6 DEF Restrict
    <3>3. o \in DOMAIN d.index => transaction(p).previous[o] = d.index[o]
      BY <1>6 DEF Restrict
    <3> QED BY <3>1, <3>2, <3>3
  <2>4. p.index = c.indexed
    BY <1>1, <1>9 DEF NoTransactionOK, Transacts
  <2> QED BY <1>5, <1>6, <2>1, <2>2, <2>3, <2>4 DEF TransactionOK
<1>16. NoTransactionOK(p)
  BY DEF NoTransactionOK, Transacts
<1> QED BY <1>10, <1>13, <1>14, <1>15, <1>16 DEF Recoverable

\* Callers lose nothing: the batch was confirmed.
LEMMA TransactedKnown ==
  ASSUME NEW bg, NEW rf, NEW hd, NEW cf, NEW d, NEW b, Frozen(d, b), Known(d, bg, rf, hd, cf), b \in cf,
         NEW p, Transacts(d, p, b), IsDirectory(p),
         \A a \in rf : a.identity \in Identity, \A e \in hd : IsBatch(e)
  PROVE  Known(p, bg, rf, hd, cf)
<1>1. PICK c : c = checkpointOf(d)
  OBVIOUS
<1>2. PICK cp : cp = checkpointAfter(d, b)
  OBVIOUS
<1>3. PICK x, n : x = c.sequence /\ n = Len(b)
  OBVIOUS
<1>4. /\ settled(d) = c /\ ~InFlight(d) /\ CheckpointOK(d)
  BY <1>1, TrustedFacts DEF Frozen, Recoverable
<1>5. settled(p) = cp /\ batchOf(p) = b /\ InFlight(p) /\ p.records = d.records
  <2>1. TransactionParts(d, b, p, d.records, c, cp)
    BY <1>1, <1>2, TransactedParts
  <2> QED BY <2>1 DEF TransactionParts, Transacts
<1>6. /\ cp.sequence = x + n
      /\ DOMAIN cp.indexed = DOMAIN c.indexed \cup operationsOf(b)
      /\ \A o \in operationsOf(b) : \E k \in DOMAIN b :
           /\ cp.indexed[o] = b[k] /\ b[k].identity.operation = o
           /\ o \in DOMAIN c.indexed => c.indexed[o].identity.generation < b[k].identity.generation
      /\ \A o \in DOMAIN c.indexed : o \notin operationsOf(b) => cp.indexed[o] = c.indexed[o]
  BY <1>1, <1>2, <1>3, TransactedIndex
<1>7. Recoverable(p)
  BY TransactedRecoverable
<1>8. IsBatch(b) /\ x \in Nat /\ n \in Nat /\ \A k \in DOMAIN b : b[k].identity \in Identity
  <2>1. FrozenParts(d, b, d.records, x, n)
    BY <1>1, <1>3, FrozenBatch
  <2> QED BY <2>1, BatchFacts DEF FrozenParts
<1>9. \A i \in Identity : i.generation \in Nat
  BY IdentityAssumption
<1>10. \A o \in DOMAIN c.indexed : c.indexed[o].identity \in Identity
  BY <1>1, <1>4 DEF CheckpointOK, Ref
<1>11. ASSUME NEW i \in Identity, covers(d, i)
       PROVE  /\ covers(p, i)
              /\ \/ cp.indexed[i.operation] = c.indexed[i.operation]
                 \/ cp.indexed[i.operation].identity # i
  <2>1. PICK o : o = i.operation
    OBVIOUS
  <2>2. o \in DOMAIN c.indexed /\ i.generation <= c.indexed[o].identity.generation
    BY <1>4, <1>11, <2>1 DEF covers
  <2>3. CASE o \in operationsOf(b)
    <3>1. PICK k \in DOMAIN b :
           /\ cp.indexed[o] = b[k] /\ b[k].identity.operation = o
           /\ c.indexed[o].identity.generation < b[k].identity.generation
      BY <1>6, <2>2, <2>3
    <3>2. PICK g, h : g = b[k].identity.generation /\ h = c.indexed[o].identity.generation
      OBVIOUS
    <3>3. g \in Nat /\ h \in Nat /\ i.generation \in Nat
      BY <1>8, <1>9, <1>10, <2>2, <3>2
    <3>4. i.generation < g
      BY <2>2, <3>1, <3>2, <3>3
    <3>5. i # b[k].identity /\ i.generation <= g
      BY <3>2, <3>3, <3>4
    <3> QED BY <1>5, <1>6, <2>1, <2>2, <3>1, <3>2, <3>5 DEF covers
  <2>4. CASE o \notin operationsOf(b)
    BY <1>5, <1>6, <2>1, <2>2, <2>4 DEF covers
  <2> QED BY <2>3, <2>4
<1>12. ASSUME NEW a \in rf PROVE RefKept(p, a, cf)
  <2>1. RefKept(d, a, cf)
    BY DEF Known
  <2>2. CASE a.identity \in DOMAIN d.records /\ d.records[a.identity].receipt = a.receipt
    BY <1>5, <2>2 DEF RefKept
  <2>3. CASE /\ covers(d, a.identity)
             /\ settled(d).indexed[a.identity.operation].identity = a.identity
                  => settled(d).indexed[a.identity.operation].receipt = a.receipt
             /\ \E e \in cf : \E k \in DOMAIN e :
                  e[k].identity = a.identity /\ e[k].receipt = a.receipt
    BY <1>4, <1>5, <1>11, <2>3 DEF RefKept
  <2> QED BY <2>1, <2>2, <2>3 DEF RefKept
<1>13. ASSUME NEW e \in hd PROVE BatchKept(p, e)
  <2>0. \A k \in DOMAIN e : e[k].identity \in Identity /\ e[k].sequence \in Nat
    BY BatchFacts
  <2>1. BatchKept(d, e)
    BY DEF Known
  <2>2. CASE \A k \in DOMAIN e : e[k].sequence <= settled(d).sequence /\ covers(d, e[k].identity)
    <3>1. ASSUME NEW k \in DOMAIN e PROVE e[k].sequence <= settled(p).sequence /\ covers(p, e[k].identity)
      <4>1. e[k].sequence <= x /\ e[k].sequence \in Nat
        BY <1>3, <1>4, <2>0, <2>2
      <4> QED BY <1>5, <1>6, <1>8, <1>11, <2>0, <2>2, <4>1
    <3> QED BY <3>1 DEF BatchKept
  <2>3. CASE Exists(d, "descriptor") /\ Only(d, "descriptor") = e
    <3>1. e = b
      BY <2>3 DEF Frozen
    <3>2. ASSUME NEW k \in DOMAIN b PROVE b[k].sequence <= settled(p).sequence /\ covers(p, b[k].identity)
      BY <1>5, <1>7, BatchCovered
    <3> QED BY <3>1, <3>2 DEF BatchKept
  <2> QED BY <2>1, <2>2, <2>3 DEF BatchKept
<1>14. ASSUME NEW o \in DOMAIN cp.indexed PROVE \E e \in cf : \E k \in DOMAIN e : e[k] = cp.indexed[o]
  <2>1. CASE o \in operationsOf(b)
    BY <1>6, <2>1
  <2>2. CASE o \notin operationsOf(b)
    <3>1. o \in DOMAIN c.indexed /\ cp.indexed[o] = c.indexed[o]
      BY <1>6, <2>2
    <3> QED BY <1>4, <3>1 DEF Known
  <2> QED BY <2>1, <2>2
<1> QED BY <1>5, <1>12, <1>13, <1>14 DEF Known

-----------------------------------------------------------------------------
(* The writes of a publication.                                             *)

\* A single file that was written holds what was written.
LEMMA OnlyPut ==
  ASSUME NEW d, NEW Q, NEW f \in SingleFiles, NEW c, NEW w, w = put(f, "only", c), w \in Q,
         \A v \in Q : v.file = f => v = w
  PROVE  Exists(after(d, Q), f) /\ Only(after(d, Q), f) = c
<1>1. w.file = f /\ w.key = "only" /\ w.content # << >> /\ w.content[1] = c
  <2>1. w.file = f /\ w.key = "only" /\ w.content = <<c>>
    BY DEF put
  <2>2. <<c>> # << >> /\ <<c>>[1] = c
    OBVIOUS
  <2> QED BY <2>1, <2>2
<1>2. f \in Files
  BY DEF SingleFiles, Files
<1>3. /\ \A v \in Q : v.file = f => v.content # << >>
      /\ \A v, u \in Q : v.file = f /\ u.file = f /\ v.key = u.key => v = u
  BY <1>1
<1>4. /\ "only" \in DOMAIN after(d, Q)[f]
      /\ after(d, Q)[f][w.key] = w.content[1]
  BY <1>1, <1>2, <1>3, AfterPuts
<1> QED BY <1>1, <1>4 DEF Exists, Only

\* A single file that was removed does not exist.
LEMMA OnlyDropped ==
  ASSUME NEW d, NEW Q, NEW f \in SingleFiles, remove(f, "only") \in Q, IsDirectory(after(d, Q))
  PROVE  ~Exists(after(d, Q), f)
<1>1. f \in Files
  BY DEF SingleFiles, Files
<1>2. removes(remove(f, "only"), f, "only")
  BY DEF removes, remove
<1>3. "only" \notin DOMAIN after(d, Q)[f]
  BY <1>1, <1>2, AfterKeys
<1> QED BY <1>3 DEF IsDirectory, Exists

\* Its first write is the transaction, its last one removes it.
publicationOf(tx, ws, u) == (<<only("publication", tx)>> \o ws) \o <<only("usage", u), drop("publication")>>

PublicationQueued(xs, ws, P, U, R) ==
  /\ Queue(xs) /\ pending(xs) = ({P} \cup pending(ws)) \cup ({U} \cup {R})
  /\ \A Q \in SUBSET pending(xs) : Closed(xs, Q) /\ Q # {} =>
       /\ P \in Q /\ (R \in Q => Q = pending(xs))
       /\ Closed(ws, Q \cap pending(ws))

\* The writes of a publication: the transaction first, its removal last.
LEMMA PublicationQueue ==
  ASSUME NEW tx, NEW u, NEW ws, Queue(ws), \A v \in pending(ws) : v.file \notin {"usage", "publication"},
         NEW P, P = put("publication", "only", tx), NEW U, U = put("usage", "only", u),
         NEW R, R = remove("publication", "only"), NEW xs, xs = publicationOf(tx, ws, u)
  PROVE  PublicationQueued(xs, ws, P, U, R)
<1> DEFINE heads == <<{P}>>
           tails == <<{U}>> \o <<{R}>>
<1>1. xs = (heads \o ws) \o tails
  <2>1. <<{U}, {R}>> = <<{U}>> \o <<{R}>>
    BY PairOfStages
  <2> QED BY <2>1 DEF publicationOf, only, drop
<1>2. /\ P.file = "publication" /\ P.key = "only" /\ P.content = <<tx>>
      /\ U.file = "usage" /\ U.key = "only" /\ U.content = <<u>>
      /\ R.file = "publication" /\ R.key = "only" /\ R.content = << >>
  BY DEF put, remove
<1>3. <<tx>> # << >> /\ <<u>> # << >>
  OBVIOUS
<1>4. IsWrite(P) /\ IsWrite(U) /\ IsWrite(R) /\ P # U /\ P # R /\ U # R
  BY <1>2, <1>3 DEF IsWrite, Files
<1>5. puts(P, P.file, P.key) /\ removes(R, R.file, R.key)
  BY <1>2, <1>3 DEF puts, removes
<1>6. Queue(heads) /\ pending(heads) = {P} /\ Queue(<<{U}>>) /\ pending(<<{U}>>) = {U}
      /\ Queue(<<{R}>>) /\ pending(<<{R}>>) = {R}
  BY <1>4, QueueStage, FS_Singleton
<1>7. Queue(tails) /\ pending(tails) = {U} \cup {R}
      /\ \A Q : Closed(tails, Q) => (R \in Q => U \in Q)
  <2>1. \A v \in pending(<<{U}>>), w \in pending(<<{R}>>) : v.file # w.file
    BY <1>2, <1>6
  <2>2. /\ Queue(<<{U}>> \o <<{R}>>)
        /\ pending(<<{U}>> \o <<{R}>>) = pending(<<{U}>>) \cup pending(<<{R}>>)
        /\ \A Q : Closed(<<{U}>> \o <<{R}>>, Q) =>
             /\ Closed(<<{U}>>, Q) /\ Closed(<<{R}>>, Q)
             /\ (\E w \in pending(<<{R}>>) : w \in Q) => pending(<<{U}>>) \subseteq Q
    BY <1>6, <2>1, TwoQueues
  <2> QED BY <1>6, <2>2
<1> HIDE DEF heads, tails
<1>8. Queue(heads \o ws) /\ pending(heads \o ws) = {P} \cup pending(ws)
      /\ \A Q : Closed(heads \o ws, Q) => Closed(ws, Q) /\ ((\E w \in pending(ws) : w \in Q) => P \in Q)
  <2>1. \A v \in pending(heads), w \in pending(ws) : v.file # w.file
    BY <1>2, <1>6
  <2>2. /\ Queue(heads \o ws) /\ pending(heads \o ws) = pending(heads) \cup pending(ws)
        /\ \A Q : Closed(heads \o ws, Q) =>
             /\ Closed(heads, Q) /\ Closed(ws, Q)
             /\ (\E w \in pending(ws) : w \in Q) => pending(heads) \subseteq Q
    BY <1>6, <2>1, TwoQueues
  <2> QED BY <1>6, <2>2
<1>9. Queue(xs) /\ pending(xs) = ({P} \cup pending(ws)) \cup ({U} \cup {R})
      /\ \A Q : Closed(xs, Q) =>
           /\ Closed(heads \o ws, Q) /\ Closed(tails, Q)
           /\ (\E w \in {U} \cup {R} : w \in Q) => {P} \cup pending(ws) \subseteq Q
  <2>1. ASSUME NEW v \in {P} \cup pending(ws), NEW w \in {U} \cup {R}
        PROVE  v # w /\ (agree(v, w) => puts(v, v.file, v.key) /\ removes(w, w.file, w.key))
    <3>1. CASE v = P
      BY <1>2, <1>4, <1>5, <3>1 DEF agree
    <3>2. CASE v \in pending(ws)
      BY <1>2, <3>2 DEF agree
    <3> QED BY <3>1, <3>2
  <2>2. /\ Queue((heads \o ws) \o tails)
        /\ pending((heads \o ws) \o tails) = pending(heads \o ws) \cup pending(tails)
        /\ \A Q : Closed((heads \o ws) \o tails, Q) =>
             /\ Closed(heads \o ws, Q) /\ Closed(tails, Q)
             /\ (\E w \in pending(tails) : w \in Q) => pending(heads \o ws) \subseteq Q
    BY <1>7, <1>8, <2>1, QueueConcat
  <2> QED BY <1>1, <1>7, <1>8, <2>2
<1>12. ASSUME NEW Q \in SUBSET pending(xs), Closed(xs, Q), Q # {}
       PROVE  /\ P \in Q /\ (R \in Q => Q = pending(xs))
              /\ Closed(ws, Q \cap pending(ws))
  <2>1. Closed(ws, Q)
    BY <1>8, <1>9, <1>12
  <2>2. Closed(ws, Q \cap pending(ws))
    BY <2>1 DEF Closed, pending
  <2>3. P \in Q
    BY <1>8, <1>9, <1>12
  <2>4. R \in Q => Q = pending(xs)
    BY <1>7, <1>9, <1>12
  <2> QED BY <2>2, <2>3, <2>4
<1> QED BY <1>9, <1>12 DEF PublicationQueued

\* What is written depends on the checkpoint and the descriptor only.
LEMMA SameApply ==
  ASSUME NEW d, NEW p, NEW tx, p.checkpoint = d.checkpoint, p.descriptor = d.descriptor
  PROVE  /\ checkpointOf(p) = checkpointOf(d)
         /\ applyStages(p, tx) = applyStages(d, tx)
         /\ applyWrites(p, tx) = applyWrites(d, tx)
         /\ descriptorWrites(p) = descriptorWrites(d)
         /\ checkpointWrites(p, tx) = checkpointWrites(d, tx)
<1>1. checkpointOf(p) = checkpointOf(d)
  BY DEF checkpointOf, Exists, Only
<1>2. (replays(p, tx) <=> replays(d, tx)) /\ checkpointAfter(p, tx.batch) = checkpointAfter(d, tx.batch)
  BY <1>1 DEF replays, checkpointAfter
<1>3. Exists(p, "descriptor") <=> Exists(d, "descriptor")
  BY DEF Exists
<1>4. removals(p, tx.batch) = removals(d, tx.batch)
  BY DEF removals
<1>5. /\ descriptorWrites(p) = descriptorWrites(d)
      /\ checkpointWrites(p, tx) = checkpointWrites(d, tx)
  BY <1>2, <1>3 DEF descriptorWrites, checkpointWrites
<1>6. applyWrites(p, tx) = applyWrites(d, tx)
  BY <1>5 DEF applyWrites
<1>7. applyStages(p, tx) = applyStages(d, tx)
  <2>1. (IF replays(p, tx) THEN {} ELSE only("checkpoint", checkpointAfter(p, tx.batch)))
          = (IF replays(d, tx) THEN {} ELSE only("checkpoint", checkpointAfter(d, tx.batch)))
    BY <1>2
  <2>2. (IF Exists(p, "descriptor") THEN drop("descriptor") ELSE {})
          = (IF Exists(d, "descriptor") THEN drop("descriptor") ELSE {})
    BY <1>3
  <2> QED BY <1>4, <2>1, <2>2 DEF applyStages
<1> QED BY <1>1, <1>5, <1>6, <1>7

\* applyPublicationTransactionLocked leaves reservations, marker and usage alone.
LEMMA ApplyUntouched ==
  ASSUME NEW d, NEW tx
  PROVE  \A v \in applyWrites(d, tx) : v.file \notin {"usage", "publication", "marker", "reservations"}
<1>1. ASSUME NEW v \in applyWrites(d, tx)
      PROVE  v.file \notin {"usage", "publication", "marker", "reservations"}
  BY ApplyKinds
<1> QED BY <1>1

\* A crash that finds the transaction: it is recovered from there.
LEMMA AdvancedGood ==
  ASSUME NEW bg, NEW rf, NEW hd, NEW cf, NEW p, Recoverable(p), InFlight(p), Known(p, bg, rf, hd, cf),
         NEW tx, tx = transaction(p), NEW Q, IsFiniteSet(Q), ApplyPart(p, tx, Q)
  PROVE  /\ Recoverable(after(p, Q)) /\ Known(after(p, Q), bg, rf, hd, cf) /\ InFlight(after(p, Q))
<1>1. Advancing(p, after(p, Q))
  BY ApplyAdvances
<1>2. IsDirectory(p) /\ IsBatch(tx.batch)
  BY DEF Recoverable, TransactionOK, batchOf
<1>3. \A w \in Q : IsWrite(w)
  <2>1. pending(applyStages(p, tx)) = applyWrites(p, tx) /\ Queue(applyStages(p, tx))
    BY <1>2, ApplyQueue
  <2> QED BY <2>1 DEF Queue, ApplyPart
<1>4. IsDirectory(after(p, Q))
  BY <1>2, <1>3, AfterIsDirectory
<1> QED BY <1>1, <1>4, AdvancingRecoverable, AdvancingKnown, AdvancingParts

\* The write of a transaction changes nothing else.
LEMMA TransactionWritten ==
  ASSUME NEW d, NEW b, Frozen(d, b), NEW tx, tx = transactionOf(d, b),
         NEW P, P = put("publication", "only", tx), NEW p, p = written(d, P)
  PROVE  Transacts(d, p, b) /\ IsDirectory(p) /\ p.reservations = d.reservations
<1>1. IsDirectory(d)
  BY DEF Frozen, Recoverable
<1>2. P.file = "publication" /\ P.key = "only" /\ P.content # << >> /\ P.content[1] = tx
  <2>1. P.file = "publication" /\ P.key = "only" /\ P.content = <<tx>>
    BY DEF put
  <2>2. <<tx>> # << >> /\ <<tx>>[1] = tx
    OBVIOUS
  <2> QED BY <2>1, <2>2
<1>3. IsWrite(P)
  BY <1>2 DEF IsWrite, Files
<1>4. IsDirectory(p)
  BY <1>1, <1>3, WrittenIsDirectory
<1>5. \A f \in Files : f # "publication" => p[f] = d[f]
  BY <1>1, <1>2, <1>3, WrittenFile DEF IsWrite
<1>6. p["publication"]["only"] = tx /\ "only" \in DOMAIN p["publication"]
  <2>1. "publication" \in Files
    BY DEF Files
  <2> QED BY <1>1, <1>2, <2>1, WrittenFile
<1>7. InFlight(p) /\ transaction(p) = tx
  BY <1>6 DEF InFlight, Exists, transaction, Only
<1> QED BY <1>4, <1>5, <1>7 DEF Transacts, Files

\* n receipts of N are removed, the first ones.
LEMMA KeptCount ==
  ASSUME NEW d, NEW b, Frozen(d, b), NEW p, Transacts(d, p, b), IsDirectory(p),
         NEW N, N = Cardinality(DOMAIN d.records), NEW n, n = Len(b), NEW m, m = Cardinality(kept(p))
  PROVE  /\ N \in Nat /\ n \in Nat /\ m \in Nat /\ N = n + m
         /\ checkpointOf(d).sequence \in Nat /\ settled(p).sequence = checkpointOf(d).sequence + n
<1>1. PICK c, cp : c = checkpointOf(d) /\ cp = checkpointAfter(d, b)
  OBVIOUS
<1>2. PICK x, R : x = c.sequence /\ R = d.records
  OBVIOUS
<1>3. FrozenParts(d, b, R, x, n)
  BY <1>1, <1>2, FrozenBatch
<1>4. TransactionParts(d, b, p, R, c, cp)
  BY <1>1, <1>2, TransactedParts
<1>5. cp.sequence = x + n
  BY <1>1, <1>2, TransactedIndex
<1>6. /\ x \in Nat /\ N \in Nat
      /\ \A i \in DOMAIN R : R[i].sequence \in x + 1 .. x + N
      /\ \A s \in x + 1 .. x + N : \E i \in DOMAIN R : R[i].sequence = s
  BY <1>1, <1>2, TrustedCounts DEF Frozen
<1>7. Recoverable(p) /\ p.records = R
  BY <1>2, TransactedRecoverable DEF Transacts
<1>8. /\ Following(R, kept(p), cp) /\ IsFiniteSet(DOMAIN R)
      /\ \A i \in DOMAIN R : R[i].sequence \in Nat
  BY <1>4, <1>7 DEF Recoverable, RecordsOK, TransactionParts
<1>9. kept(p) \subseteq DOMAIN R
  BY <1>4 DEF TransactionParts
<1>10. IsFiniteSet(kept(p))
  BY <1>8, <1>9, FS_Subset
<1>11. cp.sequence \in Nat /\ n \in Nat /\ n >= 1
  BY <1>3, <1>5 DEF FrozenParts
<1>12. m \in Nat /\ {R[i].sequence : i \in kept(p)} = cp.sequence + 1 .. cp.sequence + m
  <2>1. \A i \in kept(p) : R[i].sequence \in Nat
    BY <1>8, <1>9
  <2> QED BY <1>8, <1>10, <1>11, <2>1, NoGap
<1>13. \A s : (\E i \in kept(p) : R[i].sequence = s) <=> s \in x + n + 1 .. x + n + m
  <2>1. \A s : s \in {R[i].sequence : i \in kept(p)} <=> \E i \in kept(p) : R[i].sequence = s
    OBVIOUS
  <2>2. cp.sequence + 1 .. cp.sequence + m = x + n + 1 .. x + n + m
    BY <1>5
  <2> QED BY <1>12, <2>1, <2>2
<1>14. N >= n
  <2>1. PICK k \in DOMAIN b : b[k].sequence = x + n
    <3>1. x + n \in x + 1 .. x + n
      BY <1>6, <1>11
    <3> QED BY <1>3, <3>1 DEF FrozenParts
  <2>2. b[k].identity \in DOMAIN R /\ R[b[k].identity].sequence = x + n
    BY <1>3, <2>1 DEF FrozenParts
  <2>3. x + n \in x + 1 .. x + N
    BY <1>6, <2>2
  <2> QED BY <1>6, <1>11, <2>3
<1>15. ASSUME N > n PROVE N <= n + m
  <2>1. x + N \in x + 1 .. x + N
    BY <1>6, <1>11, <1>15
  <2>2. PICK i \in DOMAIN R : R[i].sequence = x + N
    BY <1>6, <2>1
  <2>3. ASSUME NEW k \in DOMAIN b, b[k].identity = i PROVE FALSE
    <3>1. R[i].sequence \in x + 1 .. x + n
      BY <1>3, <2>3 DEF FrozenParts
    <3> QED BY <1>6, <1>11, <1>15, <2>2, <3>1
  <2>4. i \in kept(p)
    BY <1>4, <2>3 DEF TransactionParts
  <2>5. x + N \in x + n + 1 .. x + n + m
    BY <1>13, <2>2, <2>4
  <2> QED BY <1>6, <1>11, <1>12, <2>5
<1>16. ASSUME m > 0 PROVE n + m <= N
  <2>1. x + n + m \in x + n + 1 .. x + n + m
    BY <1>6, <1>11, <1>12, <1>16
  <2>2. PICK i \in kept(p) : R[i].sequence = x + n + m
    BY <1>13, <2>1
  <2>3. x + n + m \in x + 1 .. x + N
    BY <1>6, <1>9, <2>2
  <2> QED BY <1>6, <1>11, <1>12, <2>3
<1>17. N = n + m
  <2>1. N \in Nat /\ n \in Nat /\ m \in Nat
    BY <1>6, <1>11, <1>12
  <2>2. CASE N > n
    <3>1. N <= n + m
      BY <1>15, <2>2
    <3>2. m > 0
      BY <2>1, <2>2, <3>1
    <3>3. n + m <= N
      BY <1>16, <3>2
    <3> QED BY <2>1, <3>1, <3>3
  <2>3. CASE ~(N > n)
    <3>1. N = n
      BY <1>14, <2>1, <2>3
    <3>2. ~(m > 0)
      <4>1. ASSUME m > 0 PROVE FALSE
        <5>1. n + m <= N
          BY <1>16, <4>1
        <5> QED BY <2>1, <3>1, <4>1, <5>1
      <4> QED BY <4>1
    <3> QED BY <2>1, <3>1, <3>2
  <2> QED BY <2>2, <2>3
<1> QED BY <1>1, <1>2, <1>4, <1>5, <1>6, <1>11, <1>12, <1>17 DEF TransactionParts

\* Products distribute over sums.
LEMMA Product ==
  ASSUME NEW a \in Int, NEW b \in Int, NEW c \in Int
  PROVE  (a + b) * c = a * c + b * c /\ a * c \in Int /\ b * c \in Int
<1>1. (a + b) * c = a * c + b * c
  BY Z3
<1>2. a * c \in Int /\ b * c \in Int
  OBVIOUS
<1> QED BY <1>1, <1>2

\* The size of the index after a publication.
LEMMA PublishedIndex ==
  ASSUME NEW d, NEW b, Frozen(d, b), NEW p, Transacts(d, p, b), IsDirectory(p),
         NEW f, Completed(p, f), IsDirectory(f), NEW tx, tx = transactionOf(d, b),
         NEW D, D = Cardinality(DOMAIN d.index),
         NEW h, h = Cardinality(operationsOf(tx.batch) \ DOMAIN tx.previous)
  PROVE  D \in Nat /\ h \in Nat /\ Cardinality(DOMAIN f.index) = D + h
<1>1. tx.batch = b /\ DOMAIN tx.previous = operationsOf(b) \cap DOMAIN d.index
  BY DEF transactionOf, Restrict
<1>2. PICK X, Y : X = DOMAIN d.index /\ Y = operationsOf(b) \ X
  OBVIOUS
<1>3. Y = operationsOf(tx.batch) \ DOMAIN tx.previous
  BY <1>1, <1>2
<1>4. batchOf(p) = b /\ p.index = d.index
  <2>1. PICK R, c, cp : R = d.records /\ c = checkpointOf(d) /\ cp = checkpointAfter(d, b)
    OBVIOUS
  <2>2. TransactionParts(d, b, p, R, c, cp)
    BY <2>1, TransactedParts
  <2> QED BY <2>2 DEF TransactionParts, Transacts
<1>5. DOMAIN f.index = X \cup Y
  <2>1. \A o : o \in DOMAIN f.index <=> o \in X \cup Y
    BY <1>2, <1>4 DEF Completed, sameIndex
  <2> QED BY <2>1
<1>6. IsFiniteSet(X)
  BY <1>2 DEF Frozen, Recoverable, IsDirectory, Files
<1>7. IsFiniteSet(Y)
  <2>1. PICK c, x, n : c = checkpointOf(d) /\ x = c.sequence /\ n = Len(b)
    OBVIOUS
  <2>2. FrozenParts(d, b, d.records, x, n)
    BY <2>1, FrozenBatch
  <2>3. IsFiniteSet(operationsOf(b))
    BY <2>2, FiniteImages DEF FrozenParts
  <2> QED BY <1>2, <2>3, FS_Difference
<1>8. X \cap Y = {}
  BY <1>2
<1>9. Cardinality(X \cap Y) = 0
  BY <1>8, FS_EmptySet
<1>10. Cardinality(X \cup Y) = Cardinality(X) + Cardinality(Y) - Cardinality(X \cap Y)
  BY <1>6, <1>7, FS_Union
<1>11. Cardinality(X) \in Nat /\ Cardinality(Y) \in Nat
  BY <1>6, <1>7, FS_CardinalityType
<1>12. D = Cardinality(X) /\ h = Cardinality(Y) /\ Cardinality(DOMAIN f.index) = Cardinality(X \cup Y)
  BY <1>2, <1>3, <1>5
<1>13. Cardinality(X \cup Y) = D + h - 0
  BY <1>9, <1>10, <1>12
<1>14. D \in Nat /\ h \in Nat
  BY <1>11, <1>12
<1>15. D + h - 0 = D + h
  BY <1>14
<1> QED BY <1>12, <1>13, <1>14, <1>15

\* applyOperationHistoryPublicationUsageDeltaLocked computes the usage that a
\* rebuild would find.
LEMMA PublishedUsage ==
  ASSUME NEW d, NEW b, Frozen(d, b), NEW p, Transacts(d, p, b), IsDirectory(p),
         NEW f, Completed(p, f), IsDirectory(f), Exists(f, "checkpoint"),
         f.reservations = d.reservations,
         NEW tx, tx = transactionOf(d, b), NEW u, u = publishedUsage(d, tx)
  PROVE  settledReservations(f) = {} /\ u = usageWith(f, u.blocked)
<1>1. PICK N, n, m : N = Cardinality(DOMAIN d.records) /\ n = Len(b) /\ m = Cardinality(kept(p))
  OBVIOUS
<1>2. PICK D, h : /\ D = Cardinality(DOMAIN d.index)
                  /\ h = Cardinality(operationsOf(tx.batch) \ DOMAIN tx.previous)
  OBVIOUS
<1>3. PICK v, g, q : v = usageOf(d) /\ g = charge(d, "checkpoint", CheckpointCharge)
                       /\ q = checkpointOf(d).sequence
  OBVIOUS
<1>4. /\ N \in Nat /\ n \in Nat /\ m \in Nat /\ N = n + m
      /\ q \in Nat /\ settled(p).sequence = q + n
  BY <1>1, <1>3, KeptCount
<1>5. D \in Nat /\ h \in Nat /\ Cardinality(DOMAIN f.index) = D + h
  BY <1>2, PublishedIndex
<1>6. settledReservations(d) = {} /\ v = accountedUsage(d)
  BY <1>3, TrustedFacts DEF Frozen
<1>7. DOMAIN f.records = kept(p) /\ p.records = d.records /\ kept(p) \subseteq DOMAIN d.records
  BY DEF Completed, Transacts, kept
<1>8. settledReservations(f) = {}
  BY <1>6, <1>7 DEF settledReservations
<1>9. tx.batch = b
  BY DEF transactionOf
<1>10. charge(d, "descriptor", DescriptorCharge) = DescriptorCharge
  BY DEF charge, Frozen
<1>11. PICK S : S = Cardinality(DOMAIN d.reservations)
  OBVIOUS
<1>12. v = usage(N * RecordCharge + D * IndexCharge + g + DescriptorCharge, N, S, q + N, D, v.blocked)
  <2>1. DOMAIN d.reservations \ settledReservations(d) = DOMAIN d.reservations
    BY <1>6
  <2> QED BY <1>1, <1>2, <1>3, <1>6, <1>10, <1>11, <2>1 DEF accountedUsage, usage
<1>13. /\ v.used = N * RecordCharge + D * IndexCharge + g + DescriptorCharge
       /\ v.records = N /\ v.reservations = S /\ v.accepted = q + N /\ v.keys = D
  BY <1>12, UsageParts
<1>14. u = usage(v.used - n * RecordCharge - DescriptorCharge + h * IndexCharge + CheckpointCharge - g,
                 v.records - n, v.reservations, v.accepted, v.keys + h, v.blocked)
  <2>1. u = [v EXCEPT !.records = @ - n, !.keys = @ + h,
                      !.used = @ - n * RecordCharge - DescriptorCharge + h * IndexCharge
                                 + CheckpointCharge - g]
    BY <1>1, <1>2, <1>3, <1>9 DEF publishedUsage
  <2> QED BY <1>12, <2>1 DEF usage
<1>15. g \in Nat /\ RecordCharge \in Nat /\ IndexCharge \in Nat /\ DescriptorCharge \in Nat /\ CheckpointCharge \in Nat
  BY <1>3, ChargeAssumption DEF charge
<1>16. v.used - n * RecordCharge - DescriptorCharge + h * IndexCharge + CheckpointCharge - g
         = m * RecordCharge + (D + h) * IndexCharge + CheckpointCharge
  <2>1. /\ (n + m) * RecordCharge = n * RecordCharge + m * RecordCharge
        /\ n * RecordCharge \in Int /\ m * RecordCharge \in Int
    BY <1>4, <1>15, Product
  <2>2. /\ (D + h) * IndexCharge = D * IndexCharge + h * IndexCharge
        /\ D * IndexCharge \in Int /\ h * IndexCharge \in Int
    BY <1>5, <1>15, Product
  <2>3. PICK a1, a2, a3, a4 : a1 = n * RecordCharge /\ a2 = m * RecordCharge
                                /\ a3 = D * IndexCharge /\ a4 = h * IndexCharge
    OBVIOUS
  <2>4. /\ a1 \in Int /\ a2 \in Int /\ a3 \in Int /\ a4 \in Int
        /\ N * RecordCharge = a1 + a2 /\ (D + h) * IndexCharge = a3 + a4
    BY <1>4, <2>1, <2>2, <2>3
  <2>5. v.used = a1 + a2 + a3 + g + DescriptorCharge
    BY <1>13, <2>3, <2>4
  <2>6. v.used - a1 - DescriptorCharge + a4 + CheckpointCharge - g = a2 + (a3 + a4) + CheckpointCharge
    BY <1>15, <2>4, <2>5
  <2> QED BY <2>3, <2>4, <2>6
<1>17. /\ accountedUsage(f).used = m * RecordCharge + (D + h) * IndexCharge + CheckpointCharge
       /\ accountedUsage(f).records = m /\ accountedUsage(f).reservations = S
       /\ accountedUsage(f).accepted = q + n + m /\ accountedUsage(f).keys = D + h
  <2>1. charge(f, "checkpoint", CheckpointCharge) = CheckpointCharge
    BY DEF charge
  <2>2. charge(f, "descriptor", DescriptorCharge) = 0
    BY DEF charge, Completed
  <2>3. Cardinality(DOMAIN f.records) = m /\ Cardinality(DOMAIN f.index) = D + h
    BY <1>1, <1>5, <1>7
  <2>4. Cardinality(DOMAIN f.reservations \ settledReservations(f)) = S
    <3>1. DOMAIN f.reservations \ settledReservations(f) = DOMAIN d.reservations
      BY <1>8
    <3> QED BY <1>11, <3>1
  <2>5. checkpointOf(f).sequence = q + n
    BY <1>4 DEF Completed
  <2>6. m * RecordCharge \in Int /\ (D + h) * IndexCharge \in Int
    BY <1>4, <1>5, <1>15
  <2> QED BY <1>15, <2>1, <2>2, <2>3, <2>4, <2>5, <2>6 DEF accountedUsage
<1>18. v.records - n = m /\ v.accepted = q + n + m
  BY <1>4, <1>13
<1>19. u = usage(m * RecordCharge + (D + h) * IndexCharge + CheckpointCharge, m, S, q + n + m, D + h, v.blocked)
  BY <1>13, <1>14, <1>16, <1>18
<1>20. u = usageWith(f, u.blocked)
  BY <1>17, <1>19, UsageIs
<1> QED BY <1>8, <1>20

\* The counter of refused calls is kept by a rebuild.
LEMMA UsageBlocked ==
  ASSUME NEW f, Exists(f, "usage")
  PROVE  accountedUsage(f) = usageWith(f, usageOf(f).blocked)
<1>1. PICK us, rc, rs, ac, ks, bl :
        /\ us = accountedUsage(f).used /\ rc = accountedUsage(f).records
        /\ rs = accountedUsage(f).reservations /\ ac = accountedUsage(f).accepted
        /\ ks = accountedUsage(f).keys /\ bl = usageOf(f).blocked
  OBVIOUS
<1>2. accountedUsage(f) = usage(us, rc, rs, ac, ks, bl)
  BY <1>1 DEF accountedUsage, usage
<1>3. accountedUsage(f).blocked = bl
  BY <1>2, UsageParts
<1> QED BY <1>1, <1>2, <1>3, UsageIs

Publishes(d, b, bg, rf, hd, cf) ==
  /\ Frozen(d, b) /\ Known(d, bg, rf, hd, cf) /\ b \in cf
  /\ \A a \in rf : a.identity \in Identity
  /\ \A e \in hd : IsBatch(e)

\* With the transaction and a part of what it takes: recoverable, and not trusted.
LEMMA PublishingGood ==
  ASSUME NEW bg, NEW rf, NEW hd, NEW cf, NEW d, NEW b, Publishes(d, b, bg, rf, hd, cf),
         NEW tx, tx = transactionOf(d, b), NEW P, P = put("publication", "only", tx),
         NEW T, T \subseteq applyWrites(d, tx), IsFiniteSet(T), ApplyPart(d, tx, T),
         NEW Q, IsFiniteSet(Q), \A w \in Q : IsWrite(w), P \in Q, T \subseteq Q,
         \A v \in Q : v \in T \/ v = P \/ v.file = "usage"
  PROVE  Good(after(d, Q), bg, rf, hd, cf)
<1>1. Frozen(d, b) /\ Known(d, bg, rf, hd, cf) /\ b \in cf
      /\ (\A a \in rf : a.identity \in Identity) /\ (\A e \in hd : IsBatch(e)) /\ IsDirectory(d)
  BY DEF Publishes, Frozen, Recoverable
<1>2. PICK p : p = written(d, P)
  OBVIOUS
<1>3. Transacts(d, p, b) /\ IsDirectory(p)
  BY <1>1, <1>2, TransactionWritten
<1>4. Recoverable(p) /\ Known(p, bg, rf, hd, cf)
  BY <1>1, <1>3, TransactedRecoverable, TransactedKnown
<1>5. InFlight(p) /\ tx = transaction(p) /\ p.checkpoint = d.checkpoint /\ p.descriptor = d.descriptor
  BY <1>3 DEF Transacts
<1>6. ApplyPart(p, tx, T)
  <2>1. /\ applyWrites(p, tx) = applyWrites(d, tx) /\ descriptorWrites(p) = descriptorWrites(d)
        /\ checkpointWrites(p, tx) = checkpointWrites(d, tx)
    BY <1>5, SameApply
  <2> QED BY <2>1 DEF ApplyPart
<1>7. /\ Recoverable(after(p, T)) /\ Known(after(p, T), bg, rf, hd, cf) /\ InFlight(after(p, T))
  BY <1>4, <1>5, <1>6, AdvancedGood
<1>8. P.file = "publication"
  BY DEF put
<1>9. \A v \in T : v.file \notin {"usage", "publication", "marker", "reservations"}
  BY ApplyUntouched
<1>10. after(p, T) = after(d, T \cup {P})
  <2>1. P \notin T /\ \A v \in T : ~agree(v, P)
    BY <1>8, <1>9 DEF agree
  <2>2. P.file \in Files
    BY <1>8 DEF Files
  <2> QED BY <1>1, <1>2, <2>1, <2>2, AfterWritten
<1>11. same(after(d, T \cup {P}), after(d, Q))
  <2>1. \A v : (v \in (T \cup {P}) \ Q) \/ (v \in Q \ (T \cup {P})) => v.file \in {"marker", "usage", "reservations"}
    OBVIOUS
  <2> QED BY <2>1, AfterSame
<1>12. IsDirectory(after(d, Q))
  BY <1>1, AfterIsDirectory
<1>13. Recoverable(after(d, Q)) /\ Known(after(d, Q), bg, rf, hd, cf)
  BY <1>7, <1>10, <1>11, <1>12, SameRecoverable, SameKnown
<1>14. needsRebuild(after(d, Q))
  <2>1. InFlight(after(d, Q))
    BY <1>7, <1>10, <1>11, SameParts
  <2> QED BY <2>1 DEF InFlight, needsRebuild
<1> QED BY <1>13, <1>14 DEF Good, TrustedOK

\* Without it, and all that it takes: the usage that was written is exact.
LEMMA PublishedGood ==
  ASSUME NEW bg, NEW rf, NEW hd, NEW cf, NEW d, NEW b, Publishes(d, b, bg, rf, hd, cf),
         NEW tx, tx = transactionOf(d, b), NEW P, P = put("publication", "only", tx),
         NEW u, u = publishedUsage(d, tx), NEW U, U = put("usage", "only", u),
         NEW T, T = applyWrites(d, tx), IsFiniteSet(T),
         NEW Q, IsFiniteSet(Q), \A w \in Q : IsWrite(w),
         Q = ({P} \cup T) \cup ({U} \cup {remove("publication", "only")}),
         NEW f, f = after(d, Q)
  PROVE  Good(f, bg, rf, hd, cf)
<1>1. Frozen(d, b) /\ Known(d, bg, rf, hd, cf) /\ b \in cf
      /\ (\A a \in rf : a.identity \in Identity) /\ (\A e \in hd : IsBatch(e)) /\ IsDirectory(d)
  BY DEF Publishes, Frozen, Recoverable
<1>2. PICK p : p = written(d, P)
  OBVIOUS
<1>3. Transacts(d, p, b) /\ IsDirectory(p)
  BY <1>1, <1>2, TransactionWritten
<1>4. Recoverable(p) /\ Known(p, bg, rf, hd, cf)
  BY <1>1, <1>3, TransactedRecoverable, TransactedKnown
<1>5. /\ InFlight(p) /\ tx = transaction(p) /\ p.checkpoint = d.checkpoint /\ p.descriptor = d.descriptor
      /\ p.records = d.records /\ p.sequences = d.sequences
  BY <1>3 DEF Transacts
<1>6. applyWrites(p, tx) = T
  BY <1>5, SameApply
<1>7. P.file = "publication" /\ U.file = "usage" /\ remove("publication", "only").file = "publication"
  BY DEF put, remove
<1>8. \A v \in T : v.file \notin {"usage", "publication", "marker", "reservations"}
  BY ApplyUntouched
<1>9. PICK e : e = after(p, T)
  OBVIOUS
<1>10. e = after(d, T \cup {P})
  <2>1. P \notin T /\ \A v \in T : ~agree(v, P)
    BY <1>7, <1>8 DEF agree
  <2>2. P.file \in Files
    BY <1>7 DEF Files
  <2> QED BY <1>1, <1>2, <1>9, <2>1, <2>2, AfterWritten
<1>11. ASSUME NEW k \in Files, k \notin {"usage", "publication"} PROVE f[k] = e[k]
  <2>1. \A v : v.file = k => (v \in T \cup {P} <=> v \in Q)
    BY <1>7, <1>11
  <2> QED BY <1>10, <2>1, AfterAgrees
<1>12. /\ f.records = e.records /\ f.sequences = e.sequences /\ f.index = e.index
       /\ f.checkpoint = e.checkpoint /\ f.descriptor = e.descriptor
  BY <1>11 DEF Files
<1>13. IsDirectory(f)
  BY <1>1, AfterIsDirectory
<1>14. ~InFlight(f)
  BY <1>13, OnlyDropped DEF InFlight, SingleFiles
<1>15. Completed(p, f)
  BY <1>4, <1>5, <1>6, <1>9, <1>12, <1>14, ApplyCompletes
<1>16. Recoverable(f) /\ Known(f, bg, rf, hd, cf)
  BY <1>4, <1>5, <1>13, <1>15, CompletedRecoverable, CompletedKnown
<1>17. f.reservations = d.reservations /\ f.marker = d.marker
  <2>1. \A v \in Q : v.file # "reservations" /\ v.file # "marker"
    BY <1>7, <1>8
  <2> QED BY <1>1, <2>1, AfterUntouched DEF Files
<1>18. Exists(f, "usage") /\ usageOf(f) = u
  <2>1. U \in Q /\ \A v \in Q : v.file = "usage" => v = U
    BY <1>7, <1>8
  <2> QED BY <2>1, OnlyPut DEF SingleFiles, usageOf
<1>19. ~needsRebuild(f)
  BY <1>1, <1>14, <1>17, <1>18 DEF needsRebuild, InFlight, Frozen, Exists
<1>20. PICK R, c, cp : R = d.records /\ c = checkpointOf(d) /\ cp = checkpointAfter(d, b)
  OBVIOUS
<1>21. TransactionParts(d, b, p, R, c, cp)
  BY <1>1, <1>3, <1>20, TransactedParts
<1>22. PICK x, n : x = c.sequence /\ n = Len(b)
  OBVIOUS
<1>23. FrozenParts(d, b, R, x, n)
  BY <1>1, <1>20, <1>22, FrozenBatch
<1>24. ApplyFiles(p, b, tx, T, e)
  <2>1. b = tx.batch
    BY DEF transactionOf
  <2> QED BY <1>3, <1>6, <1>9, <2>1, AfterApply
<1>25. Exists(f, "checkpoint")
  <2>1. ~replays(p, tx)
    BY <1>5, <1>21 DEF TransactionParts
  <2>2. put("checkpoint", "only", checkpointAfter(p, tx.batch)) \in T
    BY <1>6, <2>1 DEF applyWrites, checkpointWrites, only
  <2>3. put("checkpoint", "only", checkpointAfter(p, tx.batch)).file = "checkpoint"
    BY DEF put
  <2>4. Exists(e, "checkpoint")
    BY <1>24, <2>2, <2>3 DEF ApplyFiles
  <2> QED BY <1>12, <2>4 DEF Exists
<1>26. settledReservations(f) = {} /\ u = usageWith(f, u.blocked)
  BY <1>1, <1>3, <1>13, <1>15, <1>17, <1>25, PublishedUsage
<1>27. usageOf(f) = accountedUsage(f)
  <2>1. usageOf(f).blocked = u.blocked
    BY <1>18
  <2>2. accountedUsage(f) = usageWith(f, usageOf(f).blocked)
    BY <1>18, UsageBlocked
  <2> QED BY <1>18, <1>26, <2>1, <2>2
<1>28. ASSUME NEW i \in DOMAIN f.records PROVE f.records[i].sequence \in DOMAIN f.sequences
  <2>1. i \in kept(p) /\ f.records[i] = R[i]
    BY <1>5, <1>15, <1>20 DEF Completed
  <2>2. i \in DOMAIN R /\ \A k \in DOMAIN b : b[k].identity # i
    BY <1>21, <2>1 DEF TransactionParts
  <2>3. R[i].sequence \in DOMAIN p.sequences
    BY <1>1, <1>5, <1>20, <2>2 DEF Frozen, TrustedOK
  <2>4. ASSUME NEW v \in T, v.file = "sequences", v.key = R[i].sequence PROVE FALSE
    <3>1. PICK k \in DOMAIN tx.batch : v.key = tx.batch[k].sequence
      BY <2>4, ApplyKinds
    <3>2. k \in DOMAIN b /\ R[i].sequence = b[k].sequence
      BY <2>4, <3>1 DEF transactionOf
    <3>3. b[k].identity \in DOMAIN R /\ R[b[k].identity].sequence = R[i].sequence
      BY <1>23, <3>2 DEF FrozenParts
    <3>4. Following(R, DOMAIN R, c)
      BY <1>1, <1>20, TrustedFacts DEF Frozen
    <3> QED BY <2>2, <3>2, <3>3, <3>4 DEF Following
  <2>5. R[i].sequence \in DOMAIN e.sequences
    BY <1>24, <2>3, <2>4 DEF ApplyFiles
  <2> QED BY <1>12, <2>1, <2>5
<1>29. IsFiniteSet(DOMAIN f.reservations) /\ IsFiniteSet(DOMAIN f.index)
  BY <1>13 DEF IsDirectory, Files
<1>30. TrustedOK(f)
  BY <1>26, <1>27, <1>28, <1>29 DEF TrustedOK
<1> QED BY <1>16, <1>30 DEF Good

\* A publication is safe at each of its writes.
LEMMA PublicationSafe ==
  ASSUME NEW bg, NEW rf, NEW hd, NEW cf, NEW d, NEW b, Publishes(d, b, bg, rf, hd, cf),
         NEW tx, tx = transactionOf(d, b), NEW ws, ws = applyStages(d, tx),
         NEW u, u = publishedUsage(d, tx), NEW xs, xs = publicationOf(tx, ws, u)
  PROVE  Queue(xs) /\ Safe(d, xs, bg, rf, hd, cf)
<1>1. PICK P, U, R : P = put("publication", "only", tx) /\ U = put("usage", "only", u)
                       /\ R = remove("publication", "only")
  OBVIOUS
<1>2. IsBatch(tx.batch)
  <2>1. PICK c, x, n : c = checkpointOf(d) /\ x = c.sequence /\ n = Len(b)
    OBVIOUS
  <2>2. FrozenParts(d, b, d.records, x, n)
    BY <2>1, FrozenBatch DEF Publishes
  <2> QED BY <2>2 DEF FrozenParts, transactionOf
<1>3. /\ Queue(ws) /\ pending(ws) = applyWrites(d, tx)
      /\ \A Q \in SUBSET pending(ws) : Closed(ws, Q) => ApplyPart(d, tx, Q)
  BY <1>2, ApplyQueue
<1>4. \A v \in pending(ws) : v.file \notin {"usage", "publication"}
  BY <1>3, ApplyUntouched
<1>5. /\ Queue(xs) /\ pending(xs) = ({P} \cup pending(ws)) \cup ({U} \cup {R})
      /\ \A Q \in SUBSET pending(xs) : Closed(xs, Q) /\ Q # {} =>
              /\ P \in Q /\ (R \in Q => Q = pending(xs))
              /\ Closed(ws, Q \cap pending(ws))
  <2>1. PublicationQueued(xs, ws, P, U, R)
    BY <1>1, <1>3, <1>4, PublicationQueue
  <2> QED BY <2>1 DEF PublicationQueued
<1>6. ASSUME NEW Q \in SUBSET pending(xs), Closed(xs, Q)
      PROVE  Good(after(d, Q), bg, rf, hd, cf)
  <2>0. IsFiniteSet(Q) /\ \A w \in Q : IsWrite(w)
    BY <1>5, FS_Subset DEF Queue
  <2>1. CASE Q = {}
    <3>1. IsDirectory(d) /\ Good(d, bg, rf, hd, cf)
      BY DEF Publishes, Frozen, Recoverable, Good
    <3> QED BY <2>1, <3>1, AfterNothing
  <2>2. CASE Q # {} /\ R \notin Q
    <3>1. PICK T : T = Q \cap pending(ws)
      OBVIOUS
    <3>2. P \in Q /\ Closed(ws, T)
      BY <1>5, <1>6, <2>2, <3>1
    <3>3. T \in SUBSET pending(ws) /\ T \subseteq Q
      BY <3>1
    <3>4. T \subseteq applyWrites(d, tx) /\ ApplyPart(d, tx, T)
      BY <1>3, <3>2, <3>3
    <3>5. IsFiniteSet(T)
      BY <2>0, <3>3, FS_Subset
    <3>6. U.file = "usage"
      BY <1>1 DEF put
    <3>7. \A v \in Q : v \in T \/ v = P \/ v.file = "usage"
      BY <1>5, <2>2, <3>1, <3>6
    <3> QED BY <1>1, <2>0, <3>2, <3>3, <3>4, <3>5, <3>7, PublishingGood
  <2>3. CASE R \in Q
    <3>0. Q = pending(xs)
      BY <1>5, <1>6, <2>3
    <3>1. Q = ({P} \cup applyWrites(d, tx)) \cup ({U} \cup {remove("publication", "only")})
      BY <1>1, <1>3, <1>5, <3>0
    <3>2. IsFiniteSet(applyWrites(d, tx))
      BY <1>3 DEF Queue
    <3> QED BY <1>1, <2>0, <3>1, <3>2, PublishedGood
  <2> QED BY <2>1, <2>2, <2>3
<1> QED BY <1>5, <1>6 DEF Safe

\* A transaction that is written and refused.
LEMMA TransactionLeftSafe ==
  ASSUME NEW bg, NEW rf, NEW hd, NEW cf, NEW d, NEW b, Publishes(d, b, bg, rf, hd, cf),
         NEW tx, tx = transactionOf(d, b), NEW xs, xs = <<only("publication", tx)>>
  PROVE  Queue(xs) /\ Safe(d, xs, bg, rf, hd, cf)
<1>1. PICK P : P = put("publication", "only", tx)
  OBVIOUS
<1>2. xs = <<{P}>>
  BY <1>1 DEF only
<1>3. IsWrite(P)
  BY <1>1 DEF IsWrite, put, Files
<1>4. Queue(xs) /\ pending(xs) = {P}
  BY <1>2, <1>3, QueueStage, FS_Singleton
<1>5. ASSUME NEW Q \in SUBSET {P} PROVE Good(after(d, Q), bg, rf, hd, cf)
  <2>1. CASE Q = {}
    <3>1. IsDirectory(d) /\ Good(d, bg, rf, hd, cf)
      BY DEF Publishes, Frozen, Recoverable, Good
    <3> QED BY <2>1, <3>1, AfterNothing
  <2>2. CASE Q = {P}
    <3>1. ApplyPart(d, tx, {}) /\ IsFiniteSet({})
      BY FS_EmptySet DEF ApplyPart
    <3>2. IsFiniteSet(Q) /\ \A w \in Q : IsWrite(w)
      BY <1>3, <2>2, FS_Singleton
    <3>3. P \in Q /\ {} \subseteq Q /\ {} \subseteq applyWrites(d, tx) /\ \A v \in Q : v \in {} \/ v = P \/ v.file = "usage"
      BY <2>2
    <3> QED BY <1>1, <3>1, <3>2, <3>3, PublishingGood
  <2> QED BY <2>1, <2>2
<1> QED BY <1>4, <1>5 DEF Safe

-----------------------------------------------------------------------------
(* The writes of a rebuild, up to the removal of the transaction.           *)

theMarker == put("marker", "only", TRUE)

replayOf(d) ==
  <<marked>> \o (IF InFlight(d) THEN applyStages(d, transaction(d)) \o <<drop("publication")>> ELSE << >>)

MarkedOK(d, ws, bg, rf, hd, cf) ==
  /\ Good(d, bg, rf, hd, cf) /\ Queue(ws)
  /\ \A v \in pending(ws) : v.file # "marker"
  /\ \A Q \in SUBSET pending(ws) : Closed(ws, Q) =>
       Recoverable(after(d, Q)) /\ Known(after(d, Q), bg, rf, hd, cf)

marking(ws) == <<marked>> \o ws

\* The marker, and after it some of what is left.
LEMMA MarkedSafe ==
  ASSUME NEW bg, NEW rf, NEW hd, NEW cf, NEW d, NEW ws, MarkedOK(d, ws, bg, rf, hd, cf),
         NEW M, M = theMarker, NEW xs, xs = marking(ws)
  PROVE  /\ Queue(xs) /\ Safe(d, xs, bg, rf, hd, cf) /\ pending(xs) = {M} \cup pending(ws)
         /\ Exists(after(d, pending(xs)), "marker")
<1> USE DEF MarkedOK
<1>0. xs = <<{M}>> \o ws
  BY DEF marking, marked, only, theMarker
<1>1. M.file = "marker" /\ IsWrite(M)
  BY DEF put, IsWrite, Files, theMarker
<1>2. Queue(<<{M}>>) /\ pending(<<{M}>>) = {M}
  BY <1>1, QueueStage, FS_Singleton
<1>3. /\ Queue(xs) /\ pending(xs) = {M} \cup pending(ws)
      /\ \A Q : Closed(xs, Q) =>
           /\ Closed(<<{M}>>, Q) /\ Closed(ws, Q)
           /\ (\E w \in pending(ws) : w \in Q) => {M} \subseteq Q
  <2>1. \A v \in pending(<<{M}>>), w \in pending(ws) : v.file # w.file
    BY <1>1, <1>2
  <2>2. /\ Queue(<<{M}>> \o ws) /\ pending(<<{M}>> \o ws) = pending(<<{M}>>) \cup pending(ws)
        /\ \A Q : Closed(<<{M}>> \o ws, Q) =>
             /\ Closed(<<{M}>>, Q) /\ Closed(ws, Q)
             /\ (\E w \in pending(ws) : w \in Q) => pending(<<{M}>>) \subseteq Q
    BY <1>2, <2>1, TwoQueues
  <2> QED BY <1>0, <1>2, <2>2
<1>4. IsDirectory(d)
  BY DEF Good, Recoverable
<1>5. ASSUME NEW Q \in SUBSET pending(xs), M \in Q PROVE Exists(after(d, Q), "marker")
  <2>1. \A v \in Q : v.file = "marker" => v = M
    BY <1>3, <1>5
  <2>2. PICK c : M = put("marker", "only", c)
    BY DEF theMarker
  <2> QED BY <1>5, <2>1, <2>2, OnlyPut DEF SingleFiles
<1>6. ASSUME NEW Q \in SUBSET pending(xs), Closed(xs, Q) PROVE Good(after(d, Q), bg, rf, hd, cf)
  <2>1. CASE Q = {}
    BY <1>4, <2>1, AfterNothing
  <2>2. CASE Q # {}
    <3>1. M \in Q
      BY <1>3, <1>6, <2>2
    <3>2. PICK T : T = Q \cap pending(ws)
      OBVIOUS
    <3>a. Closed(ws, Q)
      BY <1>3, <1>6
    <3>3. Closed(ws, T) /\ T \in SUBSET pending(ws)
      BY <3>a, <3>2 DEF Closed, pending
    <3>4. Recoverable(after(d, T)) /\ Known(after(d, T), bg, rf, hd, cf)
      BY <3>3
    <3>5. same(after(d, T), after(d, Q))
      <4>1. \A v : (v \in T \ Q) \/ (v \in Q \ T) => v = M
        BY <1>3, <3>2
      <4> QED BY <1>1, <4>1, AfterSame
    <3>6. IsDirectory(after(d, Q))
      <4>1. IsFiniteSet(Q) /\ \A w \in Q : IsWrite(w)
        BY <1>3, FS_Subset DEF Queue
      <4> QED BY <1>4, <4>1, AfterIsDirectory
    <3>7. needsRebuild(after(d, Q))
      BY <1>5, <3>1 DEF needsRebuild
    <3> QED BY <3>4, <3>5, <3>6, <3>7, SameRecoverable, SameKnown DEF Good, TrustedOK
  <2> QED BY <2>1, <2>2
<1>7. M \in pending(xs)
  BY <1>3
<1> QED BY <1>3, <1>5, <1>6, <1>7 DEF Safe

\* No stages, no writes.
LEMMA NoStages == Queue(<< >>) /\ pending(<< >>) = {}
<1>1. pending(<< >>) = {}
  BY DEF pending
<1> QED BY <1>1, FS_EmptySet DEF Queue, Orderly

\* Nothing but the marker.
LEMMA MarkerSafe ==
  ASSUME NEW bg, NEW rf, NEW hd, NEW cf, NEW d, Good(d, bg, rf, hd, cf)
  PROVE  /\ Queue(<<marked>>) /\ Safe(d, <<marked>>, bg, rf, hd, cf)
         /\ pending(<<marked>>) = {theMarker}
         /\ Exists(after(d, pending(<<marked>>)), "marker")
         /\ \A e : e = after(d, pending(<<marked>>)) => same(d, e)
<1>1. PICK M : M = theMarker
  OBVIOUS
<1>2. <<marked>> = marking(<< >>)
  BY DEF marking
<1>3. IsDirectory(d)
  BY DEF Good, Recoverable
<1>4. \A Q \in SUBSET pending(<< >>) : Closed(<< >>, Q) =>
           Recoverable(after(d, Q)) /\ Known(after(d, Q), bg, rf, hd, cf)
  BY <1>3, NoStages, AfterNothing DEF Good
<1>5. \A v \in pending(<< >>) : v.file # "marker"
  BY NoStages
<1>6. /\ Queue(<<marked>>) /\ Safe(d, <<marked>>, bg, rf, hd, cf)
      /\ pending(<<marked>>) = {M} \cup pending(<< >>)
      /\ Exists(after(d, pending(<<marked>>)), "marker")
  <2>1. MarkedOK(d, << >>, bg, rf, hd, cf)
    BY <1>4, <1>5, NoStages DEF MarkedOK
  <2> QED BY <1>1, <1>2, <2>1, MarkedSafe
<1>7. pending(<<marked>>) = {M}
  BY <1>6, NoStages
<1>8. same(d, after(d, {M}))
  <2>1. same(after(d, {}), after(d, {M}))
    <3>1. M.file = "marker"
      BY <1>1 DEF put, theMarker
    <3> QED BY <3>1, AfterSame
  <2> QED BY <1>3, <2>1, AfterNothing
<1> QED BY <1>1, <1>6, <1>7, <1>8

\* The transaction is applied and then removed.
LEMMA ReplaySafe ==
  ASSUME NEW bg, NEW rf, NEW hd, NEW cf, NEW d, Good(d, bg, rf, hd, cf),
         NEW xs, xs = replayOf(d)
  PROVE  /\ Queue(xs) /\ Safe(d, xs, bg, rf, hd, cf)
         /\ Exists(after(d, pending(xs)), "marker") /\ ~InFlight(after(d, pending(xs)))
<1>1. CASE ~InFlight(d)
  <2>1. xs = <<marked>>
    BY <1>1 DEF replayOf
  <2>2. same(d, after(d, pending(<<marked>>)))
    BY MarkerSafe
  <2>3. ~InFlight(after(d, pending(<<marked>>)))
    BY <1>1, <2>2, SameParts
  <2>4. /\ Queue(<<marked>>) /\ Safe(d, <<marked>>, bg, rf, hd, cf)
        /\ Exists(after(d, pending(<<marked>>)), "marker")
    BY MarkerSafe
  <2> QED BY <2>1, <2>3, <2>4
<1>2. CASE InFlight(d)
  <2>1. PICK tx, M, R, us : /\ tx = transaction(d) /\ M = theMarker
                            /\ R = remove("publication", "only") /\ us = applyStages(d, tx)
    OBVIOUS
  <2>2. PICK ws : ws = us \o <<{R}>>
    OBVIOUS
  <2>3. xs = marking(ws)
    BY <1>2, <2>1, <2>2 DEF replayOf, drop, marking
  <2>4. IsBatch(tx.batch) /\ IsDirectory(d) /\ Recoverable(d) /\ Known(d, bg, rf, hd, cf)
    BY <1>2, <2>1 DEF Good, Recoverable, TransactionOK, batchOf
  <2>5. /\ Queue(us) /\ pending(us) = applyWrites(d, tx)
        /\ \A Q \in SUBSET pending(us) : Closed(us, Q) => ApplyPart(d, tx, Q)
    BY <2>1, <2>4, ApplyQueue
  <2>6. R.file = "publication" /\ IsWrite(R)
    BY <2>1 DEF IsWrite, Files, remove
  <2>7. Queue(<<{R}>>) /\ pending(<<{R}>>) = {R}
    BY <2>6, QueueStage, FS_Singleton
  <2>8. \A v \in applyWrites(d, tx) : v.file \notin {"usage", "publication", "marker", "reservations"}
    BY ApplyUntouched
  <2>9. /\ Queue(ws) /\ pending(ws) = pending(us) \cup {R}
        /\ \A Q : Closed(ws, Q) => Closed(us, Q) /\ (R \in Q => pending(us) \subseteq Q)
    <3>1. \A v \in pending(us), w \in pending(<<{R}>>) : v.file # w.file
      BY <2>5, <2>6, <2>7, <2>8
    <3>2. /\ Queue(us \o <<{R}>>) /\ pending(us \o <<{R}>>) = pending(us) \cup pending(<<{R}>>)
          /\ \A Q : Closed(us \o <<{R}>>, Q) =>
               /\ Closed(us, Q) /\ Closed(<<{R}>>, Q)
               /\ (\E w \in pending(<<{R}>>) : w \in Q) => pending(us) \subseteq Q
      BY <2>5, <2>7, <3>1, TwoQueues
    <3> QED BY <2>2, <2>7, <3>2
  <2>10. ASSUME NEW Q, IsFiniteSet(Q), \A w \in Q : IsWrite(w), R \in Q, NEW f, f = after(d, Q),
                applyWrites(d, tx) \subseteq Q,
                \A v \in Q : v \in applyWrites(d, tx) \/ v.file \in {"publication", "marker"}
         PROVE  Recoverable(f) /\ Known(f, bg, rf, hd, cf) /\ ~InFlight(f)
    <3>1. PICK e : e = after(d, applyWrites(d, tx))
      OBVIOUS
    <3>2. ASSUME NEW k \in Files, k \notin {"publication", "marker"} PROVE f[k] = e[k]
      <4>1. \A v : v.file = k => (v \in applyWrites(d, tx) <=> v \in Q)
        BY <2>10, <3>2
      <4> QED BY <2>10, <3>1, <4>1, AfterAgrees
    <3>3. /\ f.records = e.records /\ f.sequences = e.sequences /\ f.index = e.index
          /\ f.checkpoint = e.checkpoint /\ f.descriptor = e.descriptor
      BY <3>2 DEF Files
    <3>4. IsDirectory(f)
      BY <2>4, <2>10, AfterIsDirectory
    <3>5. ~InFlight(f)
      BY <2>1, <2>10, <3>4, OnlyDropped DEF InFlight, SingleFiles
    <3>6. Completed(d, f)
      BY <1>2, <2>1, <2>4, <3>1, <3>3, <3>5, ApplyCompletes
    <3> QED BY <1>2, <2>4, <3>4, <3>5, <3>6, CompletedRecoverable, CompletedKnown
  <2>11. ASSUME NEW Q \in SUBSET pending(ws), Closed(ws, Q)
         PROVE  Recoverable(after(d, Q)) /\ Known(after(d, Q), bg, rf, hd, cf)
    <3>1. IsFiniteSet(Q) /\ \A w \in Q : IsWrite(w)
      BY <2>9, FS_Subset DEF Queue
    <3>2. CASE R \in Q
      <4>1. applyWrites(d, tx) \subseteq Q
        BY <2>5, <2>9, <2>11, <3>2
      <4>2. \A v \in Q : v \in applyWrites(d, tx) \/ v.file \in {"publication", "marker"}
        BY <2>5, <2>6, <2>9
      <4> QED BY <2>10, <3>1, <3>2, <4>1, <4>2
    <3>3. CASE R \notin Q
      <4>1. Q \in SUBSET pending(us) /\ Closed(us, Q)
        BY <2>9, <2>11, <3>3
      <4>2. ApplyPart(d, tx, Q)
        BY <2>5, <4>1
      <4> QED BY <1>2, <2>1, <2>4, <3>1, <4>2, AdvancedGood
    <3> QED BY <3>2, <3>3
  <2>12. \A v \in pending(ws) : v.file # "marker"
    BY <2>5, <2>6, <2>8, <2>9
  <2>13. /\ Queue(xs) /\ Safe(d, xs, bg, rf, hd, cf) /\ pending(xs) = {M} \cup pending(ws)
         /\ Exists(after(d, pending(xs)), "marker")
    <3>1. MarkedOK(d, ws, bg, rf, hd, cf)
      BY <2>9, <2>11, <2>12 DEF MarkedOK
    <3> QED BY <2>1, <2>3, <3>1, MarkedSafe
  <2>14. ~InFlight(after(d, pending(xs)))
    <3>1. IsFiniteSet(pending(xs)) /\ \A w \in pending(xs) : IsWrite(w)
      BY <2>13 DEF Queue
    <3>2. R \in pending(xs) /\ applyWrites(d, tx) \subseteq pending(xs)
      BY <2>5, <2>9, <2>13
    <3>3. M.file = "marker"
      BY <2>1 DEF put, theMarker
    <3>4. \A v \in pending(xs) : v \in applyWrites(d, tx) \/ v.file \in {"publication", "marker"}
      BY <2>5, <2>6, <2>9, <2>13, <3>3
    <3> QED BY <2>10, <3>1, <3>2, <3>4
  <2> QED BY <2>13, <2>14
<1> QED BY <1>1, <1>2

-----------------------------------------------------------------------------
(* The rest of a rebuild.                                                   *)

\* e is d with some of the sequence files that were missing.
Sequenced(d, e) ==
  /\ e.records = d.records /\ e.index = d.index /\ e.checkpoint = d.checkpoint
  /\ e.descriptor = d.descriptor /\ e.publication = d.publication
  /\ \A s \in DOMAIN e.sequences :
       \/ s \in DOMAIN d.sequences /\ e.sequences[s] = d.sequences[s]
       \/ \E i \in DOMAIN d.records :
            s = d.records[i].sequence /\ e.sequences[s] = [identity |-> i, receipt |-> d.records[i].receipt]

\* Adding sequence files to the records they belong to keeps what can be recovered.
LEMMA SequencedGood ==
  ASSUME NEW bg, NEW rf, NEW hd, NEW cf, NEW d, Recoverable(d), Known(d, bg, rf, hd, cf), ~InFlight(d),
         NEW e, Sequenced(d, e), IsDirectory(e)
  PROVE  Recoverable(e) /\ Known(e, bg, rf, hd, cf)
<1>1. ~InFlight(e)
  BY DEF Sequenced, InFlight, Exists
<1>2. batchOf(e) = << >> /\ batchOf(d) = << >>
  BY <1>1 DEF batchOf
<1>3. checkpointOf(e) = checkpointOf(d)
  BY DEF Sequenced, checkpointOf, Exists, Only
<1>4. settled(e) = settled(d) /\ settled(d) = checkpointOf(d)
  BY <1>1, <1>3 DEF settled
<1>5. kept(e) = DOMAIN d.records /\ kept(d) = DOMAIN d.records
  <2>1. DOMAIN << >> = {}
    OBVIOUS
  <2> QED BY <1>2, <2>1 DEF kept, Sequenced
<1>6. (Exists(e, "descriptor") <=> Exists(d, "descriptor")) /\ Only(e, "descriptor") = Only(d, "descriptor")
  BY DEF Sequenced, Exists, Only
<1>7. CheckpointOK(e)
  BY <1>3, <1>4 DEF CheckpointOK, Recoverable
<1>8. RecordsOK(e)
  BY <1>4, <1>5 DEF RecordsOK, Recoverable, Sequenced
<1>9. SequencesOK(e)
  <2>1. ASSUME NEW s \in DOMAIN e.sequences
        PROVE  \E i \in DOMAIN d.records :
                 s = d.records[i].sequence /\ e.sequences[s] = [identity |-> i, receipt |-> d.records[i].receipt]
    <3>1. CASE s \in DOMAIN d.sequences /\ e.sequences[s] = d.sequences[s]
      <4>1. Named(d.sequences, d.records, DOMAIN d.records, << >>)
        BY <1>2, <1>5 DEF Recoverable, SequencesOK
      <4> QED BY <3>1, <4>1 DEF Named
    <3> QED BY <3>1 DEF Sequenced
  <2> QED BY <1>2, <1>5, <2>1 DEF SequencesOK, Named, Sequenced
<1>10. TransactionOK(e) /\ NoTransactionOK(e)
  <2>1. NoTransactionOK(d)
    BY DEF Recoverable
  <2> QED BY <1>1, <1>3, <1>6, <2>1 DEF TransactionOK, NoTransactionOK, Sequenced
<1>11. Known(e, bg, rf, hd, cf)
  BY <1>1, <1>4, <1>6 DEF Known, RefKept, BatchKept, covers, Sequenced
<1> QED BY <1>7, <1>8, <1>9, <1>10, <1>11 DEF Recoverable

removedReservations(d) == {remove("reservations", i) : i \in settledReservations(d)}

\* The files that the scan of a rebuild adds and removes.
LEMMA ScanWrites ==
  ASSUME NEW d, Recoverable(d), ~InFlight(d)
  PROVE  /\ IsFiniteSet(missingSequences(d)) /\ IsFiniteSet(removedReservations(d))
         /\ \A w \in missingSequences(d) :
              /\ IsWrite(w) /\ w.file = "sequences" /\ w.content # << >>
              /\ \E i \in DOMAIN d.records :
                   /\ w.key = d.records[i].sequence
                   /\ w.content[1] = [identity |-> i, receipt |-> d.records[i].receipt]
         /\ \A w \in removedReservations(d) :
              /\ IsWrite(w) /\ w.file = "reservations" /\ w.content = << >>
              /\ w.key \in settledReservations(d) /\ w = remove("reservations", w.key)
         /\ \A v, w \in missingSequences(d) : v.file = w.file /\ v.key = w.key => v = w
         /\ \A v, w \in removedReservations(d) : v.file = w.file /\ v.key = w.key => v = w
<1> DEFINE J == {j \in DOMAIN d.records : d.records[j].sequence \notin DOMAIN d.sequences}
           at(i) == put("sequences", d.records[i].sequence, [identity |-> i, receipt |-> d.records[i].receipt])
<1>1. missingSequences(d) = {at(i) : i \in J}
  BY DEF missingSequences
<1>2. IsFiniteSet(DOMAIN d.records) /\ IsFiniteSet(DOMAIN d.reservations)
  BY DEF Recoverable, IsDirectory, Files
<1>3. IsFiniteSet(J) /\ IsFiniteSet(settledReservations(d))
  <2>1. J \subseteq DOMAIN d.records /\ settledReservations(d) \subseteq DOMAIN d.records
    BY DEF settledReservations
  <2> QED BY <1>2, <2>1, FS_Subset
<1>4. ASSUME NEW i PROVE /\ at(i).file = "sequences" /\ at(i).key = d.records[i].sequence
                         /\ at(i).content # << >>
                         /\ at(i).content[1] = [identity |-> i, receipt |-> d.records[i].receipt]
  <2>1. PICK c : c = [identity |-> i, receipt |-> d.records[i].receipt]
    OBVIOUS
  <2>2. at(i).file = "sequences" /\ at(i).key = d.records[i].sequence /\ at(i).content = <<c>>
    BY <2>1 DEF put
  <2>3. <<c>> # << >> /\ <<c>>[1] = c
    OBVIOUS
  <2> QED BY <2>1, <2>2, <2>3
<1>5. ASSUME NEW i \in J, NEW j \in J, d.records[i].sequence = d.records[j].sequence PROVE i = j
  <2>1. kept(d) = DOMAIN d.records
    <3>1. batchOf(d) = << >> /\ DOMAIN << >> = {}
      BY DEF batchOf
    <3> QED BY <3>1 DEF kept
  <2> QED BY <1>5, <2>1 DEF Recoverable, RecordsOK, Following
<1> HIDE DEF J, at
<1>6. IsFiniteSet(missingSequences(d))
  <2> DEFINE T == {at(i) : i \in J}
             g == [i \in J |-> at(i)]
  <2>1. g \in [J -> T] /\ \A t \in T : \E i \in J : g[i] = t
    OBVIOUS
  <2>2. g \in Surjection(J, T)
    BY <2>1 DEF Surjection
  <2> QED BY <1>1, <1>3, <2>2, FS_Surjection
<1>7. IsFiniteSet(removedReservations(d))
  <2> DEFINE S == settledReservations(d)
             T == {remove("reservations", i) : i \in S}
             g == [i \in S |-> remove("reservations", i)]
  <2>1. g \in [S -> T] /\ \A t \in T : \E i \in S : g[i] = t
    OBVIOUS
  <2>2. g \in Surjection(S, T)
    BY <2>1 DEF Surjection
  <2> QED BY <1>3, <2>2, FS_Surjection DEF removedReservations
<1>8. ASSUME NEW w \in missingSequences(d)
      PROVE  /\ IsWrite(w) /\ w.file = "sequences" /\ w.content # << >>
             /\ \E i \in DOMAIN d.records :
                   /\ w.key = d.records[i].sequence
                   /\ w.content[1] = [identity |-> i, receipt |-> d.records[i].receipt]
  <2>1. PICK i \in J : w = at(i)
    BY <1>1
  <2>2. i \in DOMAIN d.records
    BY DEF J
  <2>3. /\ w.file = "sequences" /\ w.key = d.records[i].sequence
        /\ w.content # << >> /\ w.content[1] = [identity |-> i, receipt |-> d.records[i].receipt]
    BY <1>4, <2>1
  <2>4. IsWrite(w)
    BY <2>3 DEF IsWrite, Files, SingleFiles
  <2> QED BY <2>2, <2>3, <2>4
<1>9. ASSUME NEW w \in removedReservations(d)
      PROVE  /\ IsWrite(w) /\ w.file = "reservations" /\ w.content = << >>
             /\ w.key \in settledReservations(d) /\ w = remove("reservations", w.key)
  BY DEF removedReservations, remove, IsWrite, Files, SingleFiles
<1>10. ASSUME NEW v \in missingSequences(d), NEW w \in missingSequences(d), v.key = w.key PROVE v = w
  <2>1. PICK i \in J, j \in J : v = at(i) /\ w = at(j)
    BY <1>1
  <2>2. d.records[i].sequence = d.records[j].sequence
    BY <1>4, <1>10, <2>1
  <2> QED BY <1>5, <2>1, <2>2
<1> QED BY <1>6, <1>7, <1>8, <1>9, <1>10

\* The directory once some of them are done.
LEMMA AfterScan ==
  ASSUME NEW d, Recoverable(d), ~InFlight(d), NEW Q,
         \A v \in Q : v \in missingSequences(d) \/ v \in removedReservations(d)
  PROVE  /\ Sequenced(d, after(d, Q))
         /\ \A s : s \in DOMAIN after(d, Q).sequences <=>
                     s \in DOMAIN d.sequences \/ \E v \in Q : v.file = "sequences" /\ v.key = s
         /\ \A i : i \in DOMAIN after(d, Q).reservations <=>
                     i \in DOMAIN d.reservations /\ ~\E v \in Q : v.file = "reservations" /\ v.key = i
<1>1. PICK e : e = after(d, Q)
  OBVIOUS
<1>2. IsDirectory(d)
  BY DEF Recoverable
<1>3. \A v \in Q : /\ v.file \in {"sequences", "reservations"}
                   /\ v.file = "sequences" => v \in missingSequences(d) /\ v.content # << >>
                   /\ v.file = "reservations" => v.content = << >>
  BY ScanWrites
<1>4. \A f \in Files : f \notin {"sequences", "reservations"} => e[f] = d[f]
  <2>1. ASSUME NEW f \in Files, f \notin {"sequences", "reservations"} PROVE e[f] = d[f]
    <3>1. \A v \in Q : v.file # f
      BY <1>3, <2>1
    <3> QED BY <1>1, <1>2, <3>1, AfterUntouched
  <2> QED BY <2>1
<1>5. /\ e.records = d.records /\ e.index = d.index /\ e.checkpoint = d.checkpoint
      /\ e.descriptor = d.descriptor /\ e.publication = d.publication
  BY <1>4 DEF Files
<1>6. /\ \A k : k \in DOMAIN e.sequences <=>
                     k \in DOMAIN d.sequences \/ \E v \in Q : v.file = "sequences" /\ v.key = k
      /\ \A v \in Q : v.file = "sequences" => e.sequences[v.key] = v.content[1]
      /\ \A k \in DOMAIN d.sequences : (~\E v \in Q : v.file = "sequences" /\ v.key = k) =>
                                      e.sequences[k] = d.sequences[k]
  <2>1. "sequences" \in Files
    BY DEF Files
  <2>2. \A v, w \in Q : v.file = "sequences" /\ w.file = "sequences" /\ v.key = w.key => v = w
    BY <1>3, ScanWrites
  <2>3. \A v \in Q : v.file = "sequences" => v.content # << >>
    BY <1>3
  <2>4. /\ \A k : k \in DOMAIN after(d, Q)["sequences"] <=>
                     k \in DOMAIN d["sequences"] \/ \E v \in Q : v.file = "sequences" /\ v.key = k
        /\ \A v \in Q : v.file = "sequences" => after(d, Q)["sequences"][v.key] = v.content[1]
        /\ \A k \in DOMAIN d["sequences"] : (~\E v \in Q : v.file = "sequences" /\ v.key = k) =>
                                      after(d, Q)["sequences"][k] = d["sequences"][k]
    BY <2>1, <2>2, <2>3, AfterPuts
  <2> QED BY <1>1, <2>4
<1>7. \A i : i \in DOMAIN e.reservations <=>
               i \in DOMAIN d.reservations /\ ~\E v \in Q : v.file = "reservations" /\ v.key = i
  <2>1. "reservations" \in Files
    BY DEF Files
  <2>2. \A v \in Q : v.file = "reservations" => v.content = << >>
    BY <1>3
  <2>3. \A k : k \in DOMAIN after(d, Q)["reservations"] <=>
                     k \in DOMAIN d["reservations"] /\ ~\E v \in Q : v.file = "reservations" /\ v.key = k
    BY <2>1, <2>2, AfterRemoves
  <2> QED BY <1>1, <2>3
<1>8. ASSUME NEW s \in DOMAIN e.sequences
      PROVE  \/ s \in DOMAIN d.sequences /\ e.sequences[s] = d.sequences[s]
             \/ \E i \in DOMAIN d.records :
                  s = d.records[i].sequence /\ e.sequences[s] = [identity |-> i, receipt |-> d.records[i].receipt]
  <2>1. CASE \E v \in Q : v.file = "sequences" /\ v.key = s
    <3>1. PICK v \in Q : v.file = "sequences" /\ v.key = s
      BY <2>1
    <3>2. v \in missingSequences(d) /\ e.sequences[s] = v.content[1]
      BY <1>3, <1>6, <3>1
    <3>3. PICK i \in DOMAIN d.records :
            /\ v.key = d.records[i].sequence
            /\ v.content[1] = [identity |-> i, receipt |-> d.records[i].receipt]
      BY <3>2, ScanWrites
    <3> QED BY <3>1, <3>2, <3>3
  <2>2. CASE ~\E v \in Q : v.file = "sequences" /\ v.key = s
    BY <1>6, <2>2
  <2> QED BY <2>1, <2>2
<1>9. Sequenced(d, e)
  BY <1>5, <1>8 DEF Sequenced
<1> QED BY <1>1, <1>6, <1>7, <1>9

Scanned(d, bg, rf, hd, cf) ==
  /\ Good(d, bg, rf, hd, cf) /\ ~InFlight(d) /\ Exists(d, "marker")

\* As long as the marker is there.
LEMMA ScanningGood ==
  ASSUME NEW bg, NEW rf, NEW hd, NEW cf, NEW d, Scanned(d, bg, rf, hd, cf),
         NEW Q, IsFiniteSet(Q), \A w \in Q : IsWrite(w),
         \A v \in Q : v \in missingSequences(d) \/ v \in removedReservations(d) \/ v.file \in {"usage", "marker"}
  PROVE  /\ Recoverable(after(d, Q)) /\ Known(after(d, Q), bg, rf, hd, cf) /\ ~InFlight(after(d, Q))
         /\ (\A v \in Q : v.file # "marker") => Good(after(d, Q), bg, rf, hd, cf)
<1>1. Recoverable(d) /\ Known(d, bg, rf, hd, cf) /\ ~InFlight(d) /\ IsDirectory(d) /\ Exists(d, "marker")
  BY DEF Scanned, Good, Recoverable
<1>2. PICK T : T = {v \in Q : v \in missingSequences(d) \/ v \in removedReservations(d)}
  OBVIOUS
<1>3. IsFiniteSet(T) /\ (\A v \in T : IsWrite(v)) /\ \A v \in T : v \in missingSequences(d) \/ v \in removedReservations(d)
  BY <1>2, FS_Subset
<1>4. Sequenced(d, after(d, T))
  BY <1>1, <1>3, AfterScan
<1>5. IsDirectory(after(d, T)) /\ IsDirectory(after(d, Q))
  BY <1>1, <1>3, AfterIsDirectory
<1>6. Recoverable(after(d, T)) /\ Known(after(d, T), bg, rf, hd, cf)
  BY <1>1, <1>4, <1>5, SequencedGood
<1>7. same(after(d, T), after(d, Q))
  <2>1. \A v : (v \in T \ Q) \/ (v \in Q \ T) => v.file \in {"marker", "usage", "reservations"}
    BY <1>2
  <2> QED BY <2>1, AfterSame
<1>8. Recoverable(after(d, Q)) /\ Known(after(d, Q), bg, rf, hd, cf)
  BY <1>5, <1>6, <1>7, SameRecoverable, SameKnown
<1>9. ~InFlight(after(d, Q))
  <2>1. ~InFlight(after(d, T))
    BY <1>1, <1>4 DEF Sequenced, InFlight, Exists
  <2> QED BY <1>7, <2>1, SameParts
<1>10. ASSUME \A v \in Q : v.file # "marker" PROVE Good(after(d, Q), bg, rf, hd, cf)
  <2>1. after(d, Q)["marker"] = d["marker"]
    BY <1>1, <1>10, AfterUntouched DEF Files
  <2>2. needsRebuild(after(d, Q))
    BY <1>1, <2>1 DEF needsRebuild, Exists
  <2> QED BY <1>8, <2>2 DEF Good, TrustedOK
<1> QED BY <1>8, <1>9, <1>10

\* The scan of corrupt files stops after some indices.
LEMMA SomeSafe ==
  ASSUME NEW bg, NEW rf, NEW hd, NEW cf, NEW d, Scanned(d, bg, rf, hd, cf),
         NEW some \in SUBSET missingSequences(d)
  PROVE  Queue(<<some>>) /\ Safe(d, <<some>>, bg, rf, hd, cf)
<1>1. Recoverable(d) /\ ~InFlight(d)
  BY DEF Scanned, Good
<1>2. /\ IsFiniteSet(some) /\ \A w \in some : IsWrite(w) /\ w.file = "sequences"
      /\ \A v, w \in some : v.file = w.file /\ v.key = w.key => v = w
  BY <1>1, ScanWrites, FS_Subset
<1>3. Queue(<<some>>) /\ pending(<<some>>) = some
  BY <1>2, QueueStage
<1>4. ASSUME NEW Q \in SUBSET some PROVE Good(after(d, Q), bg, rf, hd, cf)
  <2>1. IsFiniteSet(Q) /\ \A w \in Q : IsWrite(w) /\ w.file # "marker" /\ w \in missingSequences(d)
    BY <1>2, FS_Subset
  <2> QED BY <2>1, ScanningGood
<1> QED BY <1>3, <1>4 DEF Safe

scanOf(d) == <<missingSequences(d), removedReservations(d)>>

\* They are a queue of two stages.
LEMMA ScanQueue ==
  ASSUME NEW d, Recoverable(d), ~InFlight(d), NEW ys, ys = scanOf(d)
  PROVE  /\ Queue(ys) /\ pending(ys) = missingSequences(d) \cup removedReservations(d)
         /\ \A v \in pending(ys) : v.file \in {"sequences", "reservations"}
<1>1. PICK A, B : A = missingSequences(d) /\ B = removedReservations(d)
  OBVIOUS
<1>2. /\ IsFiniteSet(A) /\ IsFiniteSet(B)
      /\ \A w \in A : IsWrite(w) /\ w.file = "sequences"
      /\ \A w \in B : IsWrite(w) /\ w.file = "reservations"
      /\ \A v, w \in A : v.file = w.file /\ v.key = w.key => v = w
      /\ \A v, w \in B : v.file = w.file /\ v.key = w.key => v = w
  BY <1>1, ScanWrites
<1>3. ys = <<A>> \o <<B>>
  <2>1. <<A, B>> = <<A>> \o <<B>>
    BY PairOfStages
  <2> QED BY <1>1, <2>1 DEF scanOf
<1>4. Queue(<<A>>) /\ pending(<<A>>) = A /\ Queue(<<B>>) /\ pending(<<B>>) = B
  BY <1>2, QueueStage
<1>5. \A v \in pending(<<A>>), w \in pending(<<B>>) : v.file # w.file
  BY <1>2, <1>4
<1>6. Queue(<<A>> \o <<B>>) /\ pending(<<A>> \o <<B>>) = pending(<<A>>) \cup pending(<<B>>)
  BY <1>4, <1>5, TwoQueues
<1>7. pending(ys) = A \cup B /\ Queue(ys)
  BY <1>3, <1>4, <1>6
<1> QED BY <1>1, <1>2, <1>7

\* The totals are over a limit.
LEMMA OverLimitSafe ==
  ASSUME NEW bg, NEW rf, NEW hd, NEW cf, NEW d, Scanned(d, bg, rf, hd, cf), NEW ys, ys = scanOf(d)
  PROVE  Queue(ys) /\ Safe(d, ys, bg, rf, hd, cf)
<1>1. Recoverable(d) /\ ~InFlight(d)
  BY DEF Scanned, Good
<1>2. /\ Queue(ys) /\ pending(ys) = missingSequences(d) \cup removedReservations(d)
      /\ \A v \in pending(ys) : v.file \in {"sequences", "reservations"}
  BY <1>1, ScanQueue
<1>3. ASSUME NEW Q \in SUBSET pending(ys) PROVE Good(after(d, Q), bg, rf, hd, cf)
  <2>1. IsFiniteSet(Q) /\ \A w \in Q : IsWrite(w)
    BY <1>2, FS_Subset DEF Queue
  <2>2. \A w \in Q : w.file # "marker" /\ (w \in missingSequences(d) \/ w \in removedReservations(d))
    BY <1>2
  <2> QED BY <2>1, <2>2, ScanningGood
<1> QED BY <1>2, <1>3 DEF Safe

rebuildOf(d) == scanOf(d) \o <<only("usage", accountedUsage(d)), drop("marker")>>

\* The usage that a rebuild writes is exact.
LEMMA RebuiltGood ==
  ASSUME NEW bg, NEW rf, NEW hd, NEW cf, NEW d, Scanned(d, bg, rf, hd, cf),
         NEW u, u = accountedUsage(d), NEW U, U = put("usage", "only", u),
         NEW Q, IsFiniteSet(Q), \A w \in Q : IsWrite(w),
         Q = (missingSequences(d) \cup removedReservations(d)) \cup ({U} \cup {remove("marker", "only")}),
         NEW f, f = after(d, Q)
  PROVE  Good(f, bg, rf, hd, cf) /\ ~needsRebuild(f)
<1>1. Recoverable(d) /\ ~InFlight(d) /\ IsDirectory(d) /\ Exists(d, "marker")
  BY DEF Scanned, Good, Recoverable
<1>2. PICK T : T = missingSequences(d) \cup removedReservations(d)
  OBVIOUS
<1>3. U.file = "usage" /\ remove("marker", "only").file = "marker"
  BY DEF put, remove
<1>4. \A v \in Q : v \in missingSequences(d) \/ v \in removedReservations(d) \/ v.file \in {"usage", "marker"}
  BY <1>3
<1>5. Recoverable(f) /\ Known(f, bg, rf, hd, cf) /\ ~InFlight(f)
  BY <1>4, ScanningGood
<1>6. \A v \in T : v.file \in {"sequences", "reservations"}
  BY <1>1, <1>2, ScanWrites
<1>7. IsDirectory(f)
  BY <1>5 DEF Recoverable
<1>8. ~Exists(f, "marker")
  BY <1>7, OnlyDropped DEF SingleFiles
<1>9. Exists(f, "usage") /\ usageOf(f) = u
  <2>1. U \in Q /\ \A v \in Q : v.file = "usage" => v = U
    BY <1>2, <1>3, <1>6
  <2> QED BY <2>1, OnlyPut DEF SingleFiles, usageOf
<1>10. ~needsRebuild(f)
  BY <1>5, <1>8, <1>9 DEF needsRebuild, InFlight
<1>11. PICK e : e = after(d, T)
  OBVIOUS
<1>12. /\ Sequenced(d, e)
       /\ \A s : s \in DOMAIN e.sequences <=>
                     s \in DOMAIN d.sequences \/ \E v \in T : v.file = "sequences" /\ v.key = s
       /\ \A i : i \in DOMAIN e.reservations <=>
                     i \in DOMAIN d.reservations /\ ~\E v \in T : v.file = "reservations" /\ v.key = i
  BY <1>1, <1>2, <1>11, AfterScan
<1>13. ASSUME NEW k \in Files, k \notin {"usage", "marker"} PROVE f[k] = e[k]
  <2>1. \A v : v.file = k => (v \in T <=> v \in Q)
    BY <1>2, <1>3, <1>13
  <2> QED BY SMTT(30), <1>11, <2>1, AfterAgrees
<1>14. /\ f.records = d.records /\ f.index = d.index /\ f.checkpoint = d.checkpoint
       /\ f.descriptor = d.descriptor /\ f.sequences = e.sequences /\ f.reservations = e.reservations
  BY <1>12, <1>13 DEF Files, Sequenced
<1>15. ASSUME NEW i \in DOMAIN f.records PROVE f.records[i].sequence \in DOMAIN f.sequences
  <2>1. i \in DOMAIN d.records /\ f.records[i] = d.records[i]
    BY <1>14
  <2>2. CASE d.records[i].sequence \in DOMAIN d.sequences
    BY <1>12, <1>14, <2>1, <2>2
  <2>3. CASE d.records[i].sequence \notin DOMAIN d.sequences
    <3>1. PICK v : v = put("sequences", d.records[i].sequence, [identity |-> i, receipt |-> d.records[i].receipt])
      OBVIOUS
    <3>2. v \in T
      BY <1>2, <2>1, <2>3, <3>1 DEF missingSequences
    <3>3. v.file = "sequences" /\ v.key = d.records[i].sequence
      BY <3>1 DEF put
    <3> QED BY <1>12, <1>14, <2>1, <3>2, <3>3
  <2> QED BY <2>2, <2>3
<1>16. DOMAIN f.reservations = DOMAIN d.reservations \ settledReservations(d)
  <2>1. ASSUME NEW i PROVE (\E v \in T : v.file = "reservations" /\ v.key = i) <=> i \in settledReservations(d)
    <3>1. ASSUME NEW v \in T, v.file = "reservations", v.key = i PROVE i \in settledReservations(d)
      <4>1. v \in removedReservations(d)
        BY <1>1, <1>2, <3>1, ScanWrites
      <4> QED BY <1>1, <3>1, <4>1, ScanWrites
    <3>2. ASSUME i \in settledReservations(d) PROVE \E v \in T : v.file = "reservations" /\ v.key = i
      <4>1. remove("reservations", i) \in T
        BY <1>2, <3>2 DEF removedReservations
      <4>2. remove("reservations", i).file = "reservations" /\ remove("reservations", i).key = i
        BY DEF remove
      <4> QED BY <4>1, <4>2
    <3> QED BY <3>1, <3>2
  <2>2. \A i : i \in DOMAIN f.reservations <=> i \in DOMAIN d.reservations \ settledReservations(d)
    BY <1>12, <1>14, <2>1
  <2> QED BY <2>2
<1>17. settledReservations(f) = {}
  BY <1>14, <1>16 DEF settledReservations
<1>18. usageOf(f) = accountedUsage(f)
  <2>1. PICK N, D, S, c, g, h, bl :
           /\ N = Cardinality(DOMAIN d.records) /\ D = Cardinality(DOMAIN d.index)
           /\ S = Cardinality(DOMAIN d.reservations \ settledReservations(d))
           /\ c = checkpointOf(d).sequence /\ bl = u.blocked
           /\ g = charge(d, "checkpoint", CheckpointCharge) /\ h = charge(d, "descriptor", DescriptorCharge)
    OBVIOUS
  <2>2. u = usage(N * RecordCharge + D * IndexCharge + g + h, N, S, c + N, D, bl)
    <3>1. PICK bm : bm = IF Exists(d, "usage") THEN usageOf(d).blocked ELSE 0
      OBVIOUS
    <3>2. u = usage(N * RecordCharge + D * IndexCharge + g + h, N, S, c + N, D, bm)
      BY <2>1, <3>1 DEF accountedUsage, usage
    <3>3. u.blocked = bm
      BY <3>2, UsageParts
    <3> QED BY <2>1, <3>2, <3>3
  <2>3. /\ charge(f, "checkpoint", CheckpointCharge) = g /\ charge(f, "descriptor", DescriptorCharge) = h
        /\ checkpointOf(f).sequence = c
    BY <1>14, <2>1 DEF charge, checkpointOf, Exists, Only
  <2>4. DOMAIN f.reservations \ settledReservations(f) = DOMAIN d.reservations \ settledReservations(d)
    BY <1>16, <1>17
  <2>5. /\ Cardinality(DOMAIN f.records) = N /\ Cardinality(DOMAIN f.index) = D
        /\ Cardinality(DOMAIN f.reservations \ settledReservations(f)) = S
    BY <1>14, <2>1, <2>4
  <2>6. /\ accountedUsage(f).used = N * RecordCharge + D * IndexCharge + g + h
        /\ accountedUsage(f).records = N /\ accountedUsage(f).reservations = S
        /\ accountedUsage(f).accepted = c + N /\ accountedUsage(f).keys = D
    BY <2>3, <2>5 DEF accountedUsage
  <2>7. u = usageWith(f, u.blocked)
    BY <2>2, <2>6, UsageIs
  <2>8. accountedUsage(f) = usageWith(f, usageOf(f).blocked)
    BY <1>9, UsageBlocked
  <2> QED BY <1>9, <2>7, <2>8
<1>19. TrustedOK(f)
  <2>1. IsFiniteSet(DOMAIN f.reservations) /\ IsFiniteSet(DOMAIN f.index)
    BY <1>7 DEF IsDirectory, Files
  <2> QED BY <1>15, <1>17, <1>18, <2>1 DEF TrustedOK
<1> QED BY <1>5, <1>10, <1>19 DEF Good

\* A rebuild is safe at each of its writes, and makes the usage trusted.
LEMMA RebuildSafe ==
  ASSUME NEW bg, NEW rf, NEW hd, NEW cf, NEW d, Scanned(d, bg, rf, hd, cf), NEW xs, xs = rebuildOf(d)
  PROVE  Queue(xs) /\ Safe(d, xs, bg, rf, hd, cf) /\ ~needsRebuild(after(d, pending(xs)))
<1>1. Recoverable(d) /\ ~InFlight(d)
  BY DEF Scanned, Good
<1>2. PICK ys, u : ys = scanOf(d) /\ u = accountedUsage(d)
  OBVIOUS
<1>3. PICK U, R : U = put("usage", "only", u) /\ R = remove("marker", "only")
  OBVIOUS
<1>4. /\ Queue(ys) /\ pending(ys) = missingSequences(d) \cup removedReservations(d)
      /\ \A v \in pending(ys) : v.file \in {"sequences", "reservations"}
  BY <1>1, <1>2, ScanQueue
<1>5. xs = ys \o (<<{U}>> \o <<{R}>>)
  <2>1. <<{U}, {R}>> = <<{U}>> \o <<{R}>>
    BY PairOfStages
  <2> QED BY <1>2, <1>3, <2>1 DEF rebuildOf, only, drop
<1>6. U.file = "usage" /\ R.file = "marker" /\ IsWrite(U) /\ IsWrite(R)
  BY <1>3 DEF IsWrite, Files, put, remove
<1>7. Queue(<<{U}>>) /\ pending(<<{U}>>) = {U} /\ Queue(<<{R}>>) /\ pending(<<{R}>>) = {R}
  BY <1>6, QueueStage, FS_Singleton
<1>8. PICK zs : zs = <<{U}>> \o <<{R}>>
  OBVIOUS
<1>9. /\ Queue(zs) /\ pending(zs) = {U} \cup {R}
      /\ \A Q : Closed(zs, Q) => (R \in Q => U \in Q)
  <2>1. \A v \in pending(<<{U}>>), w \in pending(<<{R}>>) : v.file # w.file
    BY <1>6, <1>7
  <2>2. /\ Queue(<<{U}>> \o <<{R}>>)
        /\ pending(<<{U}>> \o <<{R}>>) = pending(<<{U}>>) \cup pending(<<{R}>>)
        /\ \A Q : Closed(<<{U}>> \o <<{R}>>, Q) =>
             /\ Closed(<<{U}>>, Q) /\ Closed(<<{R}>>, Q)
             /\ (\E w \in pending(<<{R}>>) : w \in Q) => pending(<<{U}>>) \subseteq Q
    BY <1>7, <2>1, TwoQueues
  <2> QED BY <1>7, <1>8, <2>2
<1>10. /\ Queue(xs) /\ pending(xs) = pending(ys) \cup pending(zs)
       /\ \A Q : Closed(xs, Q) =>
            /\ Closed(ys, Q) /\ Closed(zs, Q)
            /\ (\E w \in pending(zs) : w \in Q) => pending(ys) \subseteq Q
  <2>1. \A v \in pending(ys), w \in pending(zs) : v.file # w.file
    BY <1>4, <1>6, <1>9
  <2>2. xs = ys \o zs
    BY <1>5, <1>8
  <2>3. /\ Queue(ys \o zs) /\ pending(ys \o zs) = pending(ys) \cup pending(zs)
        /\ \A Q : Closed(ys \o zs, Q) =>
             /\ Closed(ys, Q) /\ Closed(zs, Q)
             /\ (\E w \in pending(zs) : w \in Q) => pending(ys) \subseteq Q
    BY <1>4, <1>9, <2>1, TwoQueues
  <2> QED BY <2>2, <2>3
<1>11. pending(xs) = (missingSequences(d) \cup removedReservations(d)) \cup ({U} \cup {remove("marker", "only")})
  BY <1>3, <1>4, <1>9, <1>10
<1>12. IsFiniteSet(pending(xs)) /\ \A w \in pending(xs) : IsWrite(w)
  BY <1>10 DEF Queue
<1>13. Good(after(d, pending(xs)), bg, rf, hd, cf) /\ ~needsRebuild(after(d, pending(xs)))
  BY <1>2, <1>3, <1>11, <1>12, RebuiltGood
<1>14. ASSUME NEW Q \in SUBSET pending(xs), Closed(xs, Q) PROVE Good(after(d, Q), bg, rf, hd, cf)
  <2>1. CASE R \in Q
    <3>1. U \in Q /\ pending(ys) \subseteq Q
      BY <1>9, <1>10, <1>14, <2>1
    <3>2. Q = pending(xs)
      BY <1>9, <1>10, <2>1, <3>1
    <3> QED BY <1>13, <3>2
  <2>2. CASE R \notin Q
    <3>1. IsFiniteSet(Q) /\ \A w \in Q : IsWrite(w)
      BY <1>12, FS_Subset
    <3>2. \A v \in Q : v \in missingSequences(d) \/ v \in removedReservations(d) \/ v.file \in {"usage", "marker"}
      BY <1>4, <1>6, <1>9, <1>10
    <3>3. \A v \in Q : v.file # "marker"
      BY <1>4, <1>6, <1>9, <1>10, <2>2
    <3> QED BY <3>1, <3>2, <3>3, ScanningGood
  <2> QED BY <2>1, <2>2
<1> QED BY <1>10, <1>13, <1>14 DEF Safe

-----------------------------------------------------------------------------
(* The inductive invariant: whatever part of the writes a crash finds done,  *)
(* the directory is good; f is the directory once all of them are done.      *)

HolderOK(h, ws, d, f, rp) ==
  /\ h \in {"free", "ready", "replaying", "rebuilding", "writing", "refused"}
  /\ h \in {"free", "ready"} => pending(ws) = {}
  /\ h = "ready" => ~needsRebuild(d)
  /\ h = "replaying" => Exists(f, "marker") /\ ~InFlight(f)
  /\ h = "rebuilding" => ~needsRebuild(f)
  /\ rp # NoReply => h = "writing"

IsToken(rp, bg) ==
  /\ rp = token(rp.it.identity, rp.it.token) /\ rp.it.identity \in Identity
  /\ rp.it.identity.generation = bg[rp.it.identity.operation]

IsRef(rp, f, cf) ==
  /\ rp = ref(rp.it.identity, rp.it.receipt) /\ rp.it.identity \in Identity
  /\ ~InFlight(f) /\ RefHere(f, rp.it) /\ RefKept(f, rp.it, cf)

IsFrozen(rp, f) ==
  /\ rp = batch(rp.it)
  /\ ~InFlight(f) /\ Exists(f, "descriptor") /\ Only(f, "descriptor") = rp.it

ReplyOK(rp, f, bg, cf) == rp = NoReply \/ IsToken(rp, bg) \/ IsRef(rp, f, cf) \/ IsFrozen(rp, f)

Apart(b, c) ==
  b = c \/ \A j \in DOMAIN b, k \in DOMAIN c :
             b[j].sequence # c[k].sequence /\ b[j].identity # c[k].identity

CallersOK(bg, lv, rf, hd) ==
  /\ DOMAIN bg = Operation /\ \A o \in Operation : bg[o] \in Nat
  /\ \A t \in lv : t.identity \in Identity /\ t.identity.generation = bg[t.identity.operation]
  /\ \A e \in rf : e.identity \in Identity
  /\ \A b \in hd : IsBatch(b)
  /\ \A b, c \in hd : Apart(b, c)
  /\ \A e, g \in rf : e.identity = g.identity => e.receipt = g.receipt

Inv(d, h, ws, rp, bg, lv, rf, hd, cf) ==
  /\ IsDirectory(d) /\ Queue(ws) /\ Safe(d, ws, bg, rf, hd, cf)
  /\ HolderOK(h, ws, d, after(d, pending(ws)), rp)
  /\ ReplyOK(rp, after(d, pending(ws)), bg, cf)
  /\ CallersOK(bg, lv, rf, hd)

IInv == Inv(disk, holder, writes, reply, begun, live, refs, handed, confirmed)

\* A write keeps all of it: what a crash may find becomes less.
LEMMA WriteKeeps ==
  ASSUME NEW d, NEW h, NEW ws, NEW rp, NEW bg, NEW lv, NEW rf, NEW hd, NEW cf,
         Inv(d, h, ws, rp, bg, lv, rf, hd, cf), NEW k \in DOMAIN ws, NEW w \in ws[k],
         \A j \in DOMAIN ws : j < k => ws[j] = {},
         NEW us, us = [ws EXCEPT ![k] = @ \ {w}], NEW e, e = written(d, w)
  PROVE  Inv(e, h, us, rp, bg, lv, rf, hd, cf)
<1>1. IsDirectory(d) /\ Queue(ws)
  BY DEF Inv
<1>2. /\ Queue(us) /\ w \notin pending(us) /\ pending(ws) = pending(us) \cup {w}
      /\ \A Q \in SUBSET pending(us) : Closed(us, Q) =>
           /\ Closed(ws, Q \cup {w})
           /\ \A v \in Q : agree(v, w) => removes(v, w.file, w.key) /\ puts(w, w.file, w.key)
  <2>1. QueueWritten(ws, us, w)
    BY <1>1, QueueWrite
  <2> QED BY <2>1 DEF QueueWritten
<1>3. IsWrite(w)
  BY <1>1, <1>2 DEF Queue
<1>4. IsDirectory(e)
  BY <1>1, <1>3, WrittenIsDirectory
<1>5. ASSUME NEW Q \in SUBSET pending(us), Closed(us, Q)
      PROVE  after(e, Q) = after(d, Q \cup {w}) /\ Closed(ws, Q \cup {w})
  <2>1. \A v \in Q : agree(v, w) => removes(v, w.file, w.key) /\ puts(w, w.file, w.key)
    BY <1>2, <1>5
  <2>2. w \notin Q /\ w.file \in Files
    BY <1>2, <1>3 DEF IsWrite
  <2> QED BY ZenonT(60), <1>1, <1>2, <1>5, <2>1, <2>2, AfterWritten
<1>6. Safe(e, us, bg, rf, hd, cf)
  <2>1. ASSUME NEW Q \in SUBSET pending(us), Closed(us, Q) PROVE Good(after(e, Q), bg, rf, hd, cf)
    <3>1. Q \cup {w} \in SUBSET pending(ws)
      BY <1>2
    <3>2. Good(after(d, Q \cup {w}), bg, rf, hd, cf)
      BY <1>5, <2>1, <3>1 DEF Inv, Safe
    <3> QED BY <1>5, <2>1, <3>2
  <2> QED BY <2>1 DEF Safe
<1>7. after(e, pending(us)) = after(d, pending(ws))
  <2>1. Closed(us, pending(us))
    BY DEF Closed, pending
  <2> QED BY <1>2, <1>5, <2>1
<1>8. pending(ws) # {}
  BY <1>2
<1>9. HolderOK(h, us, e, after(e, pending(us)), rp)
  <2>1. HolderOK(h, ws, d, after(d, pending(ws)), rp)
    BY DEF Inv
  <2> QED BY <1>7, <1>8, <2>1 DEF HolderOK
<1> QED BY <1>2, <1>4, <1>6, <1>7, <1>9 DEF Inv

\* Between calls.
LEMMA Quiet ==
  ASSUME NEW d, NEW h, NEW ws, NEW rp, NEW bg, NEW lv, NEW rf, NEW hd, NEW cf,
         Inv(d, h, ws, rp, bg, lv, rf, hd, cf)
  PROVE  /\ Good(d, bg, rf, hd, cf) /\ IsDirectory(d) /\ CallersOK(bg, lv, rf, hd)
         /\ pending(ws) = {} => after(d, pending(ws)) = d
<1>1. IsDirectory(d) /\ after(d, {}) = d
  BY AfterNothing DEF Inv
<1>2. Closed(ws, {}) /\ {} \in SUBSET pending(ws)
  BY DEF Closed
<1>3. Good(d, bg, rf, hd, cf)
  BY <1>1, <1>2 DEF Inv, Safe
<1> QED BY <1>1, <1>3 DEF Inv

\* Nobody holds the lock and the directory is good.
LEMMA Frees ==
  ASSUME NEW d, NEW bg, NEW lv, NEW rf, NEW hd, NEW cf, IsDirectory(d), Good(d, bg, rf, hd, cf),
         CallersOK(bg, lv, rf, hd)
  PROVE  Inv(d, "free", << >>, NoReply, bg, lv, rf, hd, cf)
<1>1. Queue(<< >>) /\ pending(<< >>) = {}
  BY NoStages
<1>2. after(d, {}) = d
  BY AfterNothing
<1>3. Safe(d, << >>, bg, rf, hd, cf)
  BY <1>1, <1>2 DEF Safe
<1>4. HolderOK("free", << >>, d, after(d, pending(<< >>)), NoReply)
  BY <1>1 DEF HolderOK
<1>5. ReplyOK(NoReply, after(d, pending(<< >>)), bg, cf)
  BY DEF ReplyOK
<1> QED BY <1>1, <1>3, <1>4, <1>5 DEF Inv

-----------------------------------------------------------------------------
(* What callers come to know.                                               *)

\* Receipts and batches that are kept may become known.
LEMMA KnownMore ==
  ASSUME NEW d, NEW bg, NEW rf, NEW hd, NEW cf, Good(d, bg, rf, hd, cf),
         NEW rg, rf \subseteq rg, \A e \in rg : e \in rf \/ RefKept(d, e, cf),
         NEW he, hd \subseteq he, \A b \in he : b \in hd \/ BatchKept(d, b)
  PROVE  Good(d, bg, rg, he, cf)
<1>1. \A e \in rg : RefKept(d, e, cf)
  BY DEF Good, Known
<1>2. \A b \in he : BatchKept(d, b)
  BY DEF Good, Known
<1> QED BY <1>1, <1>2 DEF Good, Known

\* A confirmed batch takes nothing from callers.
LEMMA ConfirmedMore ==
  ASSUME NEW d, NEW bg, NEW rf, NEW hd, NEW cf, Good(d, bg, rf, hd, cf), NEW b
  PROVE  Good(d, bg, rf, hd, cf \cup {b})
<1>1. \A e \in rf : RefKept(d, e, cf \cup {b})
  BY DEF Good, Known, RefKept
<1> QED BY <1>1 DEF Good, Known

\* Nor does a new attempt.
LEMMA BegunMore ==
  ASSUME NEW d, NEW bg, NEW rf, NEW hd, NEW cf, Good(d, bg, rf, hd, cf),
         NEW bh, \A i \in Identity : i.generation <= bg[i.operation] => i.generation <= bh[i.operation]
  PROVE  Good(d, bh, rf, hd, cf)
<1>1. \A i \in DOMAIN d.records : i \in Identity
  BY DEF Good, Recoverable, RecordsOK
<1>2. \A i \in DOMAIN d.records : i.generation <= bh[i.operation]
  BY <1>1 DEF Good, Known
<1> QED BY <1>2 DEF Good, Known

\* The facts of a directory without a transaction.
LEMMA NotInFlight ==
  ASSUME NEW d, Recoverable(d), ~InFlight(d)
  PROVE  /\ settled(d) = checkpointOf(d) /\ kept(d) = DOMAIN d.records
         /\ d.index = checkpointOf(d).indexed
         /\ Following(d.records, DOMAIN d.records, checkpointOf(d))
         /\ \A i \in DOMAIN d.records : i \in Identity
         /\ \A o \in DOMAIN d.index : d.index[o].identity \in Identity /\ d.index[o].identity.operation = o
<1>1. settled(d) = checkpointOf(d) /\ kept(d) = DOMAIN d.records
  <2>1. batchOf(d) = << >> /\ DOMAIN << >> = {}
    BY DEF batchOf
  <2> QED BY <2>1 DEF settled, kept
<1>2. d.index = checkpointOf(d).indexed
  BY DEF Recoverable, NoTransactionOK
<1>3. \A o \in DOMAIN d.index : d.index[o].identity \in Identity /\ d.index[o].identity.operation = o
  BY <1>1, <1>2 DEF Recoverable, CheckpointOK, Ref
<1> QED BY <1>1, <1>2, <1>3 DEF Recoverable, RecordsOK

\* A receipt that is in the store is not covered.
LEMMA NotCovered ==
  ASSUME NEW d, Recoverable(d), ~InFlight(d), NEW i \in DOMAIN d.records
  PROVE  ~covers(d, i)
<1>1. /\ settled(d) = checkpointOf(d) /\ Following(d.records, DOMAIN d.records, checkpointOf(d))
      /\ d.index = checkpointOf(d).indexed /\ i \in Identity
      /\ \A o \in DOMAIN d.index : d.index[o].identity \in Identity
  BY NotInFlight
<1>2. \A j \in Identity : j.generation \in Nat
  BY IdentityAssumption
<1>3. i.operation \in DOMAIN d.index => d.index[i.operation].identity.generation < i.generation
  BY <1>1 DEF Following
<1> QED BY <1>1, <1>2, <1>3 DEF covers

\* The reference that is in the store, or that the index holds, is the only one of
\* its attempt.
LEMMA OneReceipt ==
  ASSUME NEW d, Recoverable(d), ~InFlight(d), NEW cf, NEW e, e.identity \in Identity, RefHere(d, e),
         NEW g, RefKept(d, g, cf), e.identity = g.identity
  PROVE  e.receipt = g.receipt
<1>1. PICK i : i = e.identity
  OBVIOUS
<1>2. CASE i \in DOMAIN d.records /\ d.records[i].receipt = e.receipt
  <2>1. ~covers(d, i)
    BY <1>2, NotCovered
  <2> QED BY <1>1, <1>2, <2>1 DEF RefKept
<1>3. CASE /\ i.operation \in DOMAIN settled(d).indexed
           /\ settled(d).indexed[i.operation].identity = i
           /\ settled(d).indexed[i.operation].receipt = e.receipt
  <2>1. i.generation <= settled(d).indexed[i.operation].identity.generation
    BY <1>1, <1>3, IdentityAssumption
  <2>2. covers(d, i)
    BY <1>3, <2>1 DEF covers
  <2>3. i \notin DOMAIN d.records
    BY <2>2, NotCovered
  <2> QED BY <1>1, <1>3, <2>3 DEF RefKept
<1> QED BY <1>1, <1>2, <1>3 DEF RefHere

\* The frozen batch shares no receipt with an earlier one.
LEMMA FrozenApart ==
  ASSUME NEW d, Recoverable(d), ~InFlight(d), Exists(d, "descriptor"),
         NEW b, Only(d, "descriptor") = b, NEW c, IsBatch(c), BatchKept(d, c)
  PROVE  IsBatch(b) /\ Apart(b, c) /\ Apart(c, b)
<1>1. /\ IsBatch(b) /\ b[1].sequence = checkpointOf(d).sequence + 1
      /\ \A k \in DOMAIN b : b[k].identity \in DOMAIN d.records
  BY DEF Recoverable, NoTransactionOK
<1>2. CASE b = c
  BY <1>1, <1>2 DEF Apart
<1>3. CASE \A k \in DOMAIN c : c[k].sequence <= settled(d).sequence /\ covers(d, c[k].identity)
  <2>1. ASSUME NEW j \in DOMAIN b, NEW k \in DOMAIN c
        PROVE  b[j].sequence # c[k].sequence /\ b[j].identity # c[k].identity
    <3>1. b[j].identity # c[k].identity
      BY <1>1, <1>3, NotCovered
    <3>2. PICK x, y, z : x = checkpointOf(d).sequence /\ y = b[j].sequence /\ z = c[k].sequence
      OBVIOUS
    <3>3. x \in Nat /\ settled(d).sequence = x
      BY <3>2, NotInFlight DEF Recoverable, CheckpointOK
    <3>4. Len(b) \in Nat /\ DOMAIN b = 1 .. Len(b) /\ b[j].sequence = b[1].sequence + j - 1
      BY <1>1, BatchFacts
    <3>5. y > x /\ y \in Nat
      <4>1. j \in Nat /\ j >= 1
        BY <3>4
      <4> QED BY <1>1, <3>2, <3>3, <3>4, <4>1
    <3>6. z <= x /\ z \in Nat
      BY <1>3, <3>2, <3>3, BatchFacts
    <3>7. y # z
      BY <3>3, <3>5, <3>6
    <3> QED BY <3>1, <3>2, <3>7
  <2> QED BY <1>1, <2>1 DEF Apart
<1> QED BY <1>2, <1>3 DEF BatchKept

\* What the caller has in hand once its call returns.
LEMMA Finishes ==
  ASSUME NEW d, NEW bg, NEW lv, NEW rf, NEW hd, NEW cf, IsDirectory(d), Good(d, bg, rf, hd, cf),
         CallersOK(bg, lv, rf, hd), NEW rp, ReplyOK(rp, d, bg, cf),
         NEW lw, lw = IF rp.kind = "token" THEN {u \in lv : u.identity # rp.it.identity} \cup {rp.it} ELSE lv,
         NEW rg, rg = rf \cup (IF rp.kind = "ref" THEN {rp.it} ELSE {}),
         NEW he, he = hd \cup (IF rp.kind = "batch" THEN {rp.it} ELSE {})
  PROVE  Inv(d, "free", << >>, NoReply, bg, lw, rg, he, cf)
<1>1. CASE rp = NoReply
  <2>1. rp.kind = "none"
    BY <1>1 DEF NoReply
  <2>2. lw = lv /\ rg = rf /\ he = hd
    BY <2>1
  <2> QED BY <2>2, Frees
<1>2. CASE IsToken(rp, bg)
  <2>1. rp.kind = "token"
    BY <1>2 DEF IsToken, token
  <2>2. lw = {u \in lv : u.identity # rp.it.identity} \cup {rp.it} /\ rg = rf /\ he = hd
    BY <2>1
  <2>3. CallersOK(bg, lw, rf, hd)
    BY <1>2, <2>2 DEF CallersOK, IsToken
  <2> QED BY <2>2, <2>3, Frees
<1>3. CASE IsRef(rp, d, cf)
  <2>1. rp.kind = "ref"
    BY <1>3 DEF IsRef, ref
  <2>2. lw = lv /\ rg = rf \cup {rp.it} /\ he = hd
    BY <2>1
  <2>3. PICK e : e = rp.it
    OBVIOUS
  <2>4. e.identity \in Identity /\ ~InFlight(d) /\ RefHere(d, e) /\ RefKept(d, e, cf) /\ Recoverable(d)
    BY <1>3, <2>3 DEF IsRef, Good
  <2>5. ASSUME NEW g \in rf, e.identity = g.identity PROVE e.receipt = g.receipt
    BY <2>4, <2>5, OneReceipt DEF Good, Known
  <2>6. CallersOK(bg, lv, rg, hd)
    BY <2>2, <2>3, <2>4, <2>5 DEF CallersOK
  <2>7. Good(d, bg, rg, hd, cf)
    <3>1. rf \subseteq rg /\ \A a \in rg : a \in rf \/ RefKept(d, a, cf)
      BY <2>2, <2>3, <2>4
    <3> QED BY <3>1, KnownMore
  <2> QED BY <2>2, <2>6, <2>7, Frees
<1>4. CASE IsFrozen(rp, d)
  <2>1. rp.kind = "batch"
    BY <1>4 DEF IsFrozen, batch
  <2>2. lw = lv /\ rg = rf /\ he = hd \cup {rp.it}
    BY <2>1
  <2>3. PICK b : b = rp.it
    OBVIOUS
  <2>4. ~InFlight(d) /\ Exists(d, "descriptor") /\ Only(d, "descriptor") = b /\ Recoverable(d)
    BY <1>4, <2>3 DEF IsFrozen, Good
  <2>5. BatchKept(d, b)
    BY <2>4 DEF BatchKept
  <2>6. IsBatch(b)
    BY <2>4 DEF Recoverable, NoTransactionOK
  <2>7. ASSUME NEW c \in hd PROVE Apart(b, c) /\ Apart(c, b)
    <3>1. IsBatch(c) /\ BatchKept(d, c)
      BY DEF CallersOK, Good, Known
    <3> QED BY <2>4, <3>1, FrozenApart
  <2>8. CallersOK(bg, lv, rf, he)
    <3>1. Apart(b, b)
      BY DEF Apart
    <3> QED BY <2>2, <2>3, <2>6, <2>7, <3>1 DEF CallersOK
  <2>9. Good(d, bg, rf, he, cf)
    <3>1. hd \subseteq he /\ \A c \in he : c \in hd \/ BatchKept(d, c)
      BY <2>2, <2>3, <2>5
    <3> QED BY <3>1, KnownMore
  <2> QED BY <2>2, <2>8, <2>9, Frees
<1> QED BY <1>1, <1>2, <1>3, <1>4 DEF ReplyOK

-----------------------------------------------------------------------------
(* The steps.                                                               *)

\* A call has begun to write xs and will return rp.
LEMMA Mutates ==
  ASSUME NEW d, NEW xs, NEW rp, NEW bg, NEW lv, NEW rf, NEW hd, NEW cf,
         IsDirectory(d), CallersOK(bg, lv, rf, hd), Queue(xs), Safe(d, xs, bg, rf, hd, cf),
         ReplyOK(rp, after(d, pending(xs)), bg, cf)
  PROVE  Inv(d, "writing", xs, rp, bg, lv, rf, hd, cf)
<1>1. HolderOK("writing", xs, d, after(d, pending(xs)), rp)
  BY DEF HolderOK
<1> QED BY <1>1 DEF Inv

\* A call that gives up may still write.
LEMMA Refuses ==
  ASSUME NEW d, NEW xs, NEW bg, NEW lv, NEW rf, NEW hd, NEW cf,
         IsDirectory(d), CallersOK(bg, lv, rf, hd), Queue(xs), Safe(d, xs, bg, rf, hd, cf)
  PROVE  Inv(d, "refused", xs, NoReply, bg, lv, rf, hd, cf)
<1>1. HolderOK("refused", xs, d, after(d, pending(xs)), NoReply)
  BY DEF HolderOK
<1>2. ReplyOK(NoReply, after(d, pending(xs)), bg, cf)
  BY DEF ReplyOK
<1> QED BY <1>1, <1>2 DEF Inv

\* Usage is trusted and a call may begin.
LEMMA Readies ==
  ASSUME NEW d, NEW bg, NEW lv, NEW rf, NEW hd, NEW cf,
         IsDirectory(d), CallersOK(bg, lv, rf, hd), Good(d, bg, rf, hd, cf), ~needsRebuild(d)
  PROVE  Inv(d, "ready", << >>, NoReply, bg, lv, rf, hd, cf)
<1>1. Inv(d, "free", << >>, NoReply, bg, lv, rf, hd, cf)
  BY Frees
<1>2. pending(<< >>) = {}
  BY NoStages
<1>3. HolderOK("ready", << >>, d, after(d, pending(<< >>)), NoReply)
  BY <1>2 DEF HolderOK
<1> QED BY <1>1, <1>3 DEF Inv

\* The facts a call starts from.
LEMMA Calls ==
  ASSUME IInv, holder = "ready"
  PROVE  /\ Good(disk, begun, refs, handed, confirmed) /\ IsDirectory(disk) /\ ~needsRebuild(disk)
         /\ CallersOK(begun, live, refs, handed) /\ reply = NoReply
         /\ Recoverable(disk) /\ ~InFlight(disk) /\ settledReservations(disk) = {}
<1>1. Good(disk, begun, refs, handed, confirmed) /\ IsDirectory(disk) /\ CallersOK(begun, live, refs, handed)
  BY Quiet DEF IInv
<1>2. HolderOK(holder, writes, disk, after(disk, pending(writes)), reply)
  BY DEF IInv, Inv
<1>3. ~needsRebuild(disk) /\ reply = NoReply
  BY <1>2 DEF HolderOK
<1>4. Recoverable(disk) /\ TrustedOK(disk)
  BY <1>1 DEF Good
<1>5. ~InFlight(disk) /\ settledReservations(disk) = {}
  BY <1>3, <1>4, TrustedFacts
<1> QED BY <1>1, <1>3, <1>4, <1>5

\* All writes of a call are done.
LEMMA Done ==
  ASSUME IInv, nothingLeft
  PROVE  pending(writes) = {} /\ after(disk, pending(writes)) = disk
<1>1. pending(writes) = {}
  BY DEF nothingLeft, pending
<1>2. IsDirectory(disk)
  BY DEF IInv, Inv
<1> QED BY <1>1, <1>2, AfterNothing

\* The call returns a.
LEMMA ReturnsKeeps ==
  ASSUME NEW bg, NEW cf, Good(disk, bg, refs, handed, cf), IsDirectory(disk),
         CallersOK(bg, live, refs, handed), NEW a, ReplyOK(a, disk, bg, cf), returnsNow(a)
  PROVE  Inv(disk', holder', writes', reply', bg, live', refs', handed', cf)
<1>1. /\ live' = IF a.kind = "token" THEN {u \in live : u.identity # a.it.identity} \cup {a.it} ELSE live
      /\ refs' = refs \cup (IF a.kind = "ref" THEN {a.it} ELSE {})
      /\ handed' = handed \cup (IF a.kind = "batch" THEN {a.it} ELSE {})
  BY DEF returnsNow, handsOver, takes
<1>2. Inv(disk, "free", << >>, NoReply, bg, live', refs', handed', cf)
  BY <1>1, Finishes
<1>3. disk' = disk /\ holder' = "free" /\ writes' = << >> /\ reply' = NoReply
  BY DEF returnsNow
<1> QED BY <1>2, <1>3

\* The call is refused, and counted.
LEMMA BlocksKeeps ==
  ASSUME NEW bg, NEW cf, Good(disk, bg, refs, handed, cf), IsDirectory(disk), ~needsRebuild(disk),
         CallersOK(bg, live, refs, handed), blocks
  PROVE  Inv(disk', holder', writes', reply', bg, live', refs', handed', cf)
<1>1. CASE returnsNow(NoReply)
  <2>1. ReplyOK(NoReply, disk, bg, cf)
    BY DEF ReplyOK
  <2> QED BY <1>1, <2>1, ReturnsKeeps
<1>2. CASE /\ begins(mutation(<< >>, [usageOf(disk) EXCEPT !.blocked = @ + 1]), NoReply)
           /\ UNCHANGED <<live, refs, handed>>
  <2>1. PICK n, u : n = usageOf(disk).blocked + 1 /\ u = [usageOf(disk) EXCEPT !.blocked = n]
    OBVIOUS
  <2>2. u = [usageOf(disk) EXCEPT !.blocked = @ + 1]
    BY <2>1
  <2>3. PICK xs : xs = mutation(<< >>, u)
    OBVIOUS
  <2>4. Queue(xs) /\ Safe(disk, xs, bg, refs, handed, cf)
    BY <2>1, <2>3, BlockSafe
  <2>5. ReplyOK(NoReply, after(disk, pending(xs)), bg, cf)
    BY DEF ReplyOK
  <2>6. Inv(disk, "writing", xs, NoReply, bg, live, refs, handed, cf)
    BY <2>4, <2>5, Mutates
  <2>7. /\ disk' = disk /\ holder' = "writing" /\ writes' = xs /\ reply' = NoReply
        /\ live' = live /\ refs' = refs /\ handed' = handed
    BY <1>2, <2>2, <2>3 DEF begins
  <2> QED BY <2>6, <2>7
<1> QED BY <1>1, <1>2 DEF blocks

-----------------------------------------------------------------------------
(* The lock, and recovery.                                                  *)

\* The facts between calls.
LEMMA FreeKeeps ==
  ASSUME IInv, holder = "free"
  PROVE  /\ Good(disk, begun, refs, handed, confirmed) /\ IsDirectory(disk)
         /\ CallersOK(begun, live, refs, handed) /\ reply = NoReply
<1>1. HolderOK(holder, writes, disk, after(disk, pending(writes)), reply)
  BY DEF IInv, Inv
<1>2. reply = NoReply
  BY <1>1 DEF HolderOK
<1> QED BY <1>2, Quiet DEF IInv

\* A rebuild begins with the marker and the transaction that was left.
LEMMA RebuildStarts ==
  ASSUME Good(disk, begun, refs, handed, confirmed), IsDirectory(disk),
         CallersOK(begun, live, refs, handed), reply = NoReply,
         NEW p, startsRebuild(p), UNCHANGED <<disk, reply, begun, refs, handed, confirmed>>,
         live' \subseteq live
  PROVE  IInv'
<1>1. /\ disk' = disk /\ reply' = NoReply /\ begun' = begun /\ refs' = refs
      /\ handed' = handed /\ confirmed' = confirmed /\ CallersOK(begun, live', refs, handed)
  BY DEF CallersOK
<1>2. CASE holder' = "replaying" /\ writes' = replayStages
  <2>1. PICK xs : xs = replayOf(disk)
    OBVIOUS
  <2>2. writes' = xs
    BY <1>2, <2>1 DEF replayOf, replayStages, InFlight, transaction
  <2>3. /\ Queue(xs) /\ Safe(disk, xs, begun, refs, handed, confirmed)
        /\ Exists(after(disk, pending(xs)), "marker") /\ ~InFlight(after(disk, pending(xs)))
    BY <2>1, ReplaySafe
  <2>4. HolderOK("replaying", xs, disk, after(disk, pending(xs)), NoReply)
    BY <2>3 DEF HolderOK
  <2>5. ReplyOK(NoReply, after(disk, pending(xs)), begun, confirmed)
    BY DEF ReplyOK
  <2>6. Inv(disk, "replaying", xs, NoReply, begun, live', refs, handed, confirmed)
    BY <1>1, <2>3, <2>4, <2>5 DEF Inv
  <2> QED BY <1>1, <1>2, <2>2, <2>6 DEF IInv
<1>3. CASE holder' = "refused" /\ writes' = <<marked>>
  <2>1. Queue(<<marked>>) /\ Safe(disk, <<marked>>, begun, refs, handed, confirmed)
    BY MarkerSafe
  <2>2. Inv(disk, "refused", <<marked>>, NoReply, begun, live', refs, handed, confirmed)
    BY <1>1, <2>1, Refuses
  <2> QED BY <1>1, <1>3, <2>2 DEF IInv
<1> QED BY <1>2, <1>3 DEF startsRebuild

\* withLock and ensureUsageLocked keep the invariant.
LEMMA TakeLockKeeps == IInv /\ TakeLock => IInv'
<1> SUFFICES ASSUME IInv, TakeLock PROVE IInv'
  OBVIOUS
<1>1. /\ Good(disk, begun, refs, handed, confirmed) /\ IsDirectory(disk)
      /\ CallersOK(begun, live, refs, handed) /\ reply = NoReply
  BY FreeKeeps DEF TakeLock
<1>2. CASE needsRebuild(disk)
  <2>1. /\ startsRebuild(release) /\ live' \subseteq live
        /\ UNCHANGED <<disk, reply, begun, refs, handed, confirmed>>
    BY <1>2 DEF TakeLock, callerVars
  <2> QED BY <1>1, <2>1, RebuildStarts
<1>3. CASE ~needsRebuild(disk)
  <2>1. Inv(disk, "ready", << >>, NoReply, begun, live, refs, handed, confirmed)
    BY <1>1, <1>3, Readies
  <2> QED BY <1>1, <1>3, <2>1 DEF TakeLock, IInv, callerVars
<1> QED BY <1>2, <1>3

\* So does OpenOperationHistoryStore.
LEMMA OpenKeeps == ASSUME IInv, NEW p, Open(p) PROVE IInv'
<1>1. /\ Good(disk, begun, refs, handed, confirmed) /\ IsDirectory(disk)
      /\ CallersOK(begun, live, refs, handed) /\ reply = NoReply
  BY FreeKeeps DEF Open
<1>2. /\ startsRebuild(p) /\ live' \subseteq live
      /\ UNCHANGED <<disk, reply, begun, refs, handed, confirmed>>
  BY DEF Open
<1> QED BY <1>1, <1>2, RebuildStarts

\* So does the scan of a rebuild, whatever it finds.
LEMMA ScanKeeps == IInv /\ Scan => IInv'
<1> SUFFICES ASSUME IInv, Scan PROVE IInv'
  OBVIOUS
<1>1. holder = "replaying" /\ nothingLeft /\ UNCHANGED <<disk, reply, callerVars>>
  BY DEF Scan
<1>2. after(disk, pending(writes)) = disk
  BY <1>1, Done
<1>3. HolderOK(holder, writes, disk, disk, reply)
  BY <1>2 DEF IInv, Inv
<1>4. Exists(disk, "marker") /\ ~InFlight(disk) /\ reply = NoReply
  BY <1>1, <1>3 DEF HolderOK
<1>5. Good(disk, begun, refs, handed, confirmed) /\ IsDirectory(disk) /\ CallersOK(begun, live, refs, handed)
  BY Quiet DEF IInv
<1>6. Scanned(disk, begun, refs, handed, confirmed)
  BY <1>4, <1>5 DEF Scanned
<1>7. /\ disk' = disk /\ reply' = NoReply /\ begun' = begun /\ live' = live /\ refs' = refs
      /\ handed' = handed /\ confirmed' = confirmed
  BY <1>1, <1>4 DEF callerVars
<1> DEFINE scans == consistent(disk) /\ readable(release, DOMAIN disk.records)
<1>8. CASE scans /\ fits(accountedUsage(disk))
  <2>1. PICK xs : xs = rebuildOf(disk)
    OBVIOUS
  <2>2. holder' = "rebuilding" /\ writes' = xs
    BY <1>8, <2>1 DEF Scan, rebuildOf, scanOf, removedReservations
  <2>3. /\ Queue(xs) /\ Safe(disk, xs, begun, refs, handed, confirmed)
        /\ ~needsRebuild(after(disk, pending(xs)))
    BY <1>6, <2>1, RebuildSafe
  <2>4. HolderOK("rebuilding", xs, disk, after(disk, pending(xs)), NoReply)
    BY <2>3 DEF HolderOK
  <2>5. ReplyOK(NoReply, after(disk, pending(xs)), begun, confirmed)
    BY DEF ReplyOK
  <2>6. Inv(disk, "rebuilding", xs, NoReply, begun, live, refs, handed, confirmed)
    BY <1>5, <2>3, <2>4, <2>5 DEF Inv
  <2> QED BY <1>7, <2>2, <2>6 DEF IInv
<1>9. CASE scans /\ ~fits(accountedUsage(disk))
  <2>1. PICK ys : ys = scanOf(disk)
    OBVIOUS
  <2>2. Queue(ys) /\ Safe(disk, ys, begun, refs, handed, confirmed)
    BY <1>6, <2>1, OverLimitSafe
  <2>3. ys \o << >> = ys
    BY <2>2, ConcatEmptySeq DEF Queue
  <2>4. holder' = "refused" /\ writes' = ys \o << >>
    BY <1>9, <2>1 DEF Scan, scanOf, removedReservations
  <2>5. Inv(disk, "refused", ys, NoReply, begun, live, refs, handed, confirmed)
    BY <1>5, <2>2, Refuses
  <2> QED BY <1>7, <2>3, <2>4, <2>5 DEF IInv
<1>10. CASE ~scans
  <2>1. PICK some \in SUBSET missingSequences(disk) : writes' = <<some>>
    BY <1>10 DEF Scan
  <2>2. holder' = "refused"
    BY <1>10 DEF Scan
  <2>3. Queue(<<some>>) /\ Safe(disk, <<some>>, begun, refs, handed, confirmed)
    BY <1>6, SomeSafe
  <2>4. Inv(disk, "refused", <<some>>, NoReply, begun, live, refs, handed, confirmed)
    BY <1>5, <2>3, Refuses
  <2> QED BY <1>7, <2>1, <2>2, <2>4 DEF IInv
<1> QED BY <1>8, <1>9, <1>10

\* So does the end of a rebuild.
LEMMA RebuiltKeeps == IInv /\ Rebuilt => IInv'
<1> SUFFICES ASSUME IInv, Rebuilt PROVE IInv'
  OBVIOUS
<1>1. after(disk, pending(writes)) = disk
  BY Done DEF Rebuilt
<1>2. HolderOK(holder, writes, disk, disk, reply)
  BY <1>1 DEF IInv, Inv
<1>3. ~needsRebuild(disk) /\ reply = NoReply
  BY <1>2 DEF HolderOK, Rebuilt
<1>4. Good(disk, begun, refs, handed, confirmed) /\ IsDirectory(disk) /\ CallersOK(begun, live, refs, handed)
  BY Quiet DEF IInv
<1>5. Inv(disk, "ready", << >>, NoReply, begun, live, refs, handed, confirmed)
  BY <1>3, <1>4, Readies
<1> QED BY <1>3, <1>5 DEF Rebuilt, IInv, callerVars

\* So does a write.
LEMMA WriteStepKeeps == IInv /\ Write => IInv'
<1> SUFFICES ASSUME IInv, Write PROVE IInv'
  OBVIOUS
<1>1. PICK k \in DOMAIN writes :
        /\ \A j \in DOMAIN writes : j < k => writes[j] = {}
        /\ \E w \in writes[k] : disk' = written(disk, w) /\ writes' = [writes EXCEPT ![k] = @ \ {w}]
  BY DEF Write
<1>2. PICK w \in writes[k] : disk' = written(disk, w) /\ writes' = [writes EXCEPT ![k] = @ \ {w}]
  BY <1>1
<1>3. Inv(disk', holder, writes', reply, begun, live, refs, handed, confirmed)
  BY <1>1, <1>2, WriteKeeps DEF IInv
<1> QED BY <1>3 DEF Write, IInv, callerVars

\* So does the return of a call.
LEMMA ReturnKeeps == IInv /\ Return => IInv'
<1> SUFFICES ASSUME IInv, Return PROVE IInv'
  OBVIOUS
<1>1. after(disk, pending(writes)) = disk
  BY Done DEF Return
<1>2. ReplyOK(reply, disk, begun, confirmed)
  BY <1>1 DEF IInv, Inv
<1>3. Good(disk, begun, refs, handed, confirmed) /\ IsDirectory(disk) /\ CallersOK(begun, live, refs, handed)
  BY Quiet DEF IInv
<1>4. returnsNow(reply) /\ begun' = begun /\ confirmed' = confirmed
  BY DEF Return
<1>5. Inv(disk', holder', writes', reply', begun, live', refs', handed', confirmed)
  BY <1>2, <1>3, <1>4, ReturnsKeeps
<1> QED BY <1>4, <1>5 DEF IInv

\* So does a crash between two writes; the worker may be left with its token.
LEMMA FailKeeps == IInv /\ Fail => IInv'
<1> SUFFICES ASSUME IInv, Fail PROVE IInv'
  OBVIOUS
<1>1. Good(disk, begun, refs, handed, confirmed) /\ IsDirectory(disk) /\ CallersOK(begun, live, refs, handed)
  BY Quiet DEF IInv
<1>2. CallersOK(begun, live', refs, handed)
  <2>1. CASE live' = live
    BY <1>1, <2>1
  <2>2. CASE reply.kind = "token" /\ takes([reply.it EXCEPT !.may = "cancel"])
    <3>1. ReplyOK(reply, after(disk, pending(writes)), begun, confirmed)
      BY DEF IInv, Inv
    <3>2. IsToken(reply, begun)
      BY <2>2, <3>1 DEF ReplyOK, IsRef, IsFrozen, ref, batch, NoReply
    <3>3. PICK i, n : i = reply.it.identity /\ n = reply.it.token
      OBVIOUS
    <3>4. i \in Identity /\ i.generation = begun[i.operation] /\ reply = token(i, n)
      BY <3>2, <3>3 DEF IsToken
    <3>5. reply.it = [identity |-> i, token |-> n, may |-> "append"]
      BY <3>4 DEF token
    <3>6. PICK t : t = [reply.it EXCEPT !.may = "cancel"]
      OBVIOUS
    <3>7. t.identity = i
      BY <3>5, <3>6
    <3>8. live' = {u \in live : u.identity # t.identity} \cup {t}
      BY <2>2, <3>6 DEF takes
    <3> QED BY <1>1, <3>4, <3>7, <3>8 DEF CallersOK
  <2> QED BY <2>1, <2>2 DEF Fail
<1>3. Inv(disk, "free", << >>, NoReply, begun, live', refs, handed, confirmed)
  BY <1>1, <1>2, Frees
<1> QED BY <1>3 DEF Fail, IInv

-----------------------------------------------------------------------------
(* The calls.                                                               *)

\* Reserve keeps the invariant: the attempt is the last of its operation.
LEMMA ReserveKeeps ==
  ASSUME IInv, ~OverlappingAttempts, NEW i \in Identity, Reserve(i)
  PROVE  IInv'
<1>1. /\ Good(disk, begun, refs, handed, confirmed) /\ IsDirectory(disk) /\ ~needsRebuild(disk)
      /\ CallersOK(begun, live, refs, handed)
  BY Calls DEF Reserve
<1>2. PICK o, g : o = i.operation /\ g = i.generation
  OBVIOUS
<1>3. o \in Operation /\ g \in Nat
  BY <1>2, IdentityAssumption
<1>4. DOMAIN begun = Operation /\ \A p \in Operation : begun[p] \in Nat
  BY <1>1 DEF CallersOK
<1>5. g >= begun[o] /\ \A t \in live : t.identity.operation = o => t.identity = i
  BY <1>2 DEF Reserve, attempts
<1>6. begun' = [begun EXCEPT ![o] = IF begun[o] > g THEN begun[o] ELSE g]
  BY <1>2 DEF Reserve
<1>7. DOMAIN begun' = Operation /\ begun'[o] = g /\ \A p \in Operation : p # o => begun'[p] = begun[p]
  BY <1>3, <1>4, <1>5, <1>6
<1>8. CallersOK(begun', live, refs, handed)
  <2>1. \A p \in Operation : begun'[p] \in Nat
    BY <1>3, <1>4, <1>7
  <2>2. ASSUME NEW t \in live
        PROVE  t.identity \in Identity /\ t.identity.generation = begun'[t.identity.operation]
    <3>1. t.identity \in Identity /\ t.identity.generation = begun[t.identity.operation]
      BY <1>1 DEF CallersOK
    <3>2. t.identity.operation \in Operation
      BY <3>1, IdentityAssumption
    <3> QED BY <1>2, <1>5, <1>7, <3>1, <3>2
  <2> QED BY <1>1, <1>7, <2>1, <2>2 DEF CallersOK
<1>9. Good(disk, begun', refs, handed, confirmed)
  <2>1. ASSUME NEW j \in Identity, j.generation <= begun[j.operation]
        PROVE  j.generation <= begun'[j.operation]
    <3>1. j.operation \in Operation /\ j.generation \in Nat
      BY IdentityAssumption
    <3>2. PICK a, x, y : a = j.generation /\ x = begun[j.operation] /\ y = begun'[j.operation]
      OBVIOUS
    <3>3. a \in Nat /\ x \in Nat /\ a <= x
      BY <1>4, <2>1, <3>1, <3>2
    <3>4. x <= y /\ y \in Nat
      BY <1>3, <1>4, <1>5, <1>7, <3>1, <3>2
    <3>5. a <= y
      BY <3>3, <3>4
    <3> QED BY <3>2, <3>5
  <2> QED BY <1>1, <2>1, BegunMore
<1>10. confirmed' = confirmed
  BY DEF Reserve
<1>11. ASSUME NEW n PROVE IsToken(token(i, n), begun')
  BY <1>2, <1>7 DEF IsToken, token
<1>12. CASE returnsNow(token(i, disk.reservations[i]))
  <2>1. ReplyOK(token(i, disk.reservations[i]), disk, begun', confirmed)
    BY <1>11 DEF ReplyOK
  <2>2. Inv(disk', holder', writes', reply', begun', live', refs', handed', confirmed)
    BY <1>1, <1>8, <1>9, <1>12, <2>1, ReturnsKeeps
  <2> QED BY <1>10, <2>2 DEF IInv
<1>13. CASE blocks
  <2>1. Inv(disk', holder', writes', reply', begun', live', refs', handed', confirmed)
    BY <1>1, <1>8, <1>9, <1>13, BlocksKeeps
  <2> QED BY <1>10, <2>1 DEF IInv
<1>14. CASE /\ i \notin DOMAIN disk.reservations
            /\ begins(mutation(<<{put("reservations", i, nextToken)}>>, reservedUsage(usageOf(disk))),
                      token(i, nextToken))
            /\ UNCHANGED <<live, refs, handed>>
  <2>1. i \notin DOMAIN disk.records
    BY DEF Reserve
  <2>2. PICK u : u = reservedUsage(usageOf(disk))
    OBVIOUS
  <2>3. PICK xs : xs = mutation(<<{put("reservations", i, nextToken)}>>, u)
    OBVIOUS
  <2>4. Queue(xs) /\ Safe(disk, xs, begun', refs, handed, confirmed)
    BY <1>1, <1>9, <1>14, <2>1, <2>2, <2>3, ReserveSafe
  <2>5. ReplyOK(token(i, nextToken), after(disk, pending(xs)), begun', confirmed)
    BY <1>11 DEF ReplyOK
  <2>6. Inv(disk, "writing", xs, token(i, nextToken), begun', live, refs, handed, confirmed)
    BY <1>1, <1>8, <2>4, <2>5, Mutates
  <2>7. /\ disk' = disk /\ holder' = "writing" /\ writes' = xs /\ reply' = token(i, nextToken)
        /\ live' = live /\ refs' = refs /\ handed' = handed
    BY <1>14, <2>2, <2>3 DEF begins
  <2> QED BY <1>10, <2>6, <2>7 DEF IInv
<1> QED BY <1>12, <1>13, <1>14 DEF Reserve

\* An identity that is stored, or that the index holds, has its reference.
LEMMA StoredIsRef ==
  ASSUME NEW d, Recoverable(d), ~InFlight(d), NEW cf, NEW i \in Identity, NEW r,
         i \in DOMAIN d.records, d.records[i].receipt = r
  PROVE  IsRef(ref(i, r), d, cf)
<1>1. PICK e : e = ref(i, r).it
  OBVIOUS
<1>2. e.identity = i /\ e.receipt = r
  BY <1>1 DEF ref
<1>3. RefHere(d, e) /\ RefKept(d, e, cf)
  BY <1>2 DEF RefHere, RefKept
<1> QED BY <1>1, <1>2, <1>3 DEF IsRef

\* A published receipt was in a confirmed batch.
LEMMA PublishedIsRef ==
  ASSUME NEW d, NEW bg, NEW rf, NEW hd, NEW cf, Good(d, bg, rf, hd, cf), ~InFlight(d),
         NEW i \in Identity, NEW r, i.operation \in DOMAIN d.index,
         d.index[i.operation].identity = i, d.index[i.operation].receipt = r
  PROVE  IsRef(ref(i, r), d, cf)
<1>1. PICK e : e = ref(i, r).it
  OBVIOUS
<1>2. e.identity = i /\ e.receipt = r
  BY <1>1 DEF ref
<1>3. settled(d).indexed = d.index
  BY NotInFlight DEF Good
<1>4. covers(d, i)
  <2>1. i.generation <= i.generation
    BY IdentityAssumption
  <2> QED BY <1>3, <2>1 DEF covers
<1>5. \E b \in cf : \E k \in DOMAIN b : b[k].identity = i /\ b[k].receipt = r
  BY <1>3 DEF Good, Known
<1>6. RefHere(d, e) /\ RefKept(d, e, cf)
  BY <1>2, <1>3, <1>4, <1>5 DEF RefHere, RefKept
<1> QED BY <1>1, <1>2, <1>6 DEF IsRef

\* An append of a new receipt keeps the invariant.
LEMMA AppendNewKeeps ==
  ASSUME Good(disk, begun, refs, handed, confirmed), IsDirectory(disk), ~needsRebuild(disk),
         CallersOK(begun, live, refs, handed),
         NEW i \in Identity, NEW r \in Receipt, i.generation = begun[i.operation],
         NEW t, AppendNew(i, r, t)
  PROVE  Inv(disk', holder', writes', reply', begun, live', refs', handed', confirmed)
<1>1. CASE blocks
  BY <1>1, BlocksKeeps
<1>2. CASE /\ begins(mutation(<<{put("records", i, [receipt |-> r, sequence |-> nextSequence(usageOf(disk))])},
                                {put("sequences", nextSequence(usageOf(disk)), [identity |-> i, receipt |-> r])},
                                {remove("reservations", i)}>>,
                              [usageOf(disk) EXCEPT !.used = @ + RecordCharge, !.records = @ + 1,
                                                    !.reservations = @ - 1, !.accepted = @ + 1]),
                     ref(i, r))
           /\ UNCHANGED <<live, refs, handed>>
  <2>1. PICK s : s = nextSequence(usageOf(disk))
    OBVIOUS
  <2>2. PICK u : u = appendedUsage(usageOf(disk))
    OBVIOUS
  <2>3. PICK ws : ws = appendStages(i, r, s)
    OBVIOUS
  <2>4. PICK xs : xs = mutation(ws, u)
    OBVIOUS
  <2>5. /\ disk' = disk /\ holder' = "writing" /\ writes' = xs /\ reply' = ref(i, r)
        /\ live' = live /\ refs' = refs /\ handed' = handed
    BY <1>2, <2>1, <2>2, <2>3, <2>4 DEF begins, appendStages, appendedUsage
  <2>6. Appendable(disk, i, r, begun)
    <3>1. i \notin DOMAIN disk.records /\ ~stale(i)
      BY DEF AppendNew
    <3>2. ASSUME i.operation \in DOMAIN disk.index
          PROVE  disk.index[i.operation].identity.generation < i.generation
      <4>1. disk.index[i.operation].identity \in Identity
        BY <3>2, NotInFlight, TrustedFacts DEF Good
      <4>2. PICK a, b : a = i.generation /\ b = disk.index[i.operation].identity.generation
        OBVIOUS
      <4>3. a \in Nat /\ b \in Nat
        BY <4>1, <4>2, IdentityAssumption
      <4>4. ~(a <= b)
        BY <3>1, <3>2, <4>2 DEF stale
      <4>5. b < a
        BY <4>3, <4>4
      <4> QED BY <4>2, <4>5
    <3> QED BY <3>1, <3>2 DEF Appendable
  <2>7. i \in DOMAIN disk.reservations
    BY DEF AppendNew
  <2>8. PICK e : /\ MutationSafe(disk, ws, e, u, begun, refs, handed, confirmed)
                 /\ i \in DOMAIN e.records /\ e.records[i].receipt = r
    BY <2>1, <2>2, <2>3, <2>6, <2>7, AppendSafe
  <2>9. PICK f : f = after(disk, pending(xs))
    OBVIOUS
  <2>10. /\ Queue(xs) /\ Safe(disk, xs, begun, refs, handed, confirmed)
         /\ ~needsRebuild(f) /\ same(e, f)
    BY <2>4, <2>8, <2>9 DEF MutationSafe
  <2>11. i \in DOMAIN f.records /\ f.records[i].receipt = r
    BY <2>8, <2>10 DEF same
  <2>12. Recoverable(f) /\ ~InFlight(f)
    <3>1. pending(xs) \in SUBSET pending(xs) /\ Closed(xs, pending(xs))
      BY DEF Closed, pending
    <3>2. Good(f, begun, refs, handed, confirmed)
      BY <2>9, <2>10, <3>1 DEF Safe
    <3> QED BY <2>10, <3>2 DEF Good, needsRebuild, InFlight
  <2>13. IsRef(ref(i, r), f, confirmed)
    BY <2>11, <2>12, StoredIsRef
  <2>14. ReplyOK(ref(i, r), after(disk, pending(xs)), begun, confirmed)
    BY <2>9, <2>13 DEF ReplyOK
  <2>15. Inv(disk, "writing", xs, ref(i, r), begun, live, refs, handed, confirmed)
    BY <2>10, <2>14, Mutates
  <2> QED BY <2>5, <2>15
<1> QED BY <1>1, <1>2 DEF AppendNew

\* So does every append.
LEMMA AppendKeeps ==
  ASSUME IInv, NEW i \in Identity, NEW r \in Receipt, AppendValidated(i, r)
  PROVE  IInv'
<1>1. /\ Good(disk, begun, refs, handed, confirmed) /\ IsDirectory(disk) /\ ~needsRebuild(disk)
      /\ CallersOK(begun, live, refs, handed) /\ Recoverable(disk) /\ ~InFlight(disk)
      /\ settledReservations(disk) = {}
  BY Calls DEF AppendValidated
<1>2. PICK t \in live :
        /\ t.identity = i
        /\ AppendAgain(i, r, t.token) \/ AppendPublished(i, r) \/ AppendNew(i, r, t.token)
  BY DEF AppendValidated
<1>3. begun' = begun /\ confirmed' = confirmed
  BY DEF AppendValidated
<1>4. CASE AppendAgain(i, r, t.token)
  <2>1. i \in DOMAIN disk.records /\ disk.records[i].receipt = r
    BY <1>4 DEF AppendAgain, sameReceipt
  <2>2. i \notin DOMAIN disk.reservations
    BY <1>1, <2>1 DEF settledReservations
  <2>3. returnsNow(ref(i, r))
    BY <1>4, <2>2 DEF AppendAgain
  <2>4. ReplyOK(ref(i, r), disk, begun, confirmed)
    BY <1>1, <2>1, StoredIsRef DEF ReplyOK
  <2>5. Inv(disk', holder', writes', reply', begun, live', refs', handed', confirmed)
    BY <1>1, <2>3, <2>4, ReturnsKeeps
  <2> QED BY <1>3, <2>5 DEF IInv
<1>5. CASE AppendPublished(i, r)
  <2>1. /\ i.operation \in DOMAIN disk.index /\ disk.index[i.operation].identity = i
        /\ disk.index[i.operation].receipt = r /\ returnsNow(ref(i, r))
    BY <1>5 DEF AppendPublished, sameReceipt
  <2>2. ReplyOK(ref(i, r), disk, begun, confirmed)
    BY <1>1, <2>1, PublishedIsRef DEF ReplyOK
  <2>3. Inv(disk', holder', writes', reply', begun, live', refs', handed', confirmed)
    BY <1>1, <2>1, <2>2, ReturnsKeeps
  <2> QED BY <1>3, <2>3 DEF IInv
<1>6. CASE AppendNew(i, r, t.token)
  <2>1. i.generation = begun[i.operation]
    BY <1>1, <1>2 DEF CallersOK
  <2>2. Inv(disk', holder', writes', reply', begun, live', refs', handed', confirmed)
    BY <1>1, <1>6, <2>1, AppendNewKeeps
  <2> QED BY <1>3, <2>2 DEF IInv
<1> QED BY <1>2, <1>4, <1>5, <1>6

\* So does a cancelled reservation.
LEMMA CancelKeeps ==
  ASSUME IInv, NEW i \in Identity, CancelReservation(i)
  PROVE  IInv'
<1>1. /\ Good(disk, begun, refs, handed, confirmed) /\ IsDirectory(disk) /\ ~needsRebuild(disk)
      /\ CallersOK(begun, live, refs, handed)
  BY Calls DEF CancelReservation
<1>2. PICK t \in live : live' = live \ {t}
  BY DEF CancelReservation
<1>3. /\ i \in DOMAIN disk.reservations
      /\ begins(mutation(<<{remove("reservations", i)}>>,
                         [usageOf(disk) EXCEPT !.reservations = @ - 1]), NoReply)
      /\ begun' = begun /\ refs' = refs /\ handed' = handed /\ confirmed' = confirmed
  BY DEF CancelReservation
<1>4. PICK u : u = [usageOf(disk) EXCEPT !.reservations = @ - 1]
  OBVIOUS
<1>5. PICK xs : xs = mutation(<<{remove("reservations", i)}>>, u)
  OBVIOUS
<1>6. Queue(xs) /\ Safe(disk, xs, begun, refs, handed, confirmed)
  BY <1>1, <1>3, <1>4, <1>5, UnreserveSafe
<1>7. ReplyOK(NoReply, after(disk, pending(xs)), begun, confirmed)
  BY DEF ReplyOK
<1>8. CallersOK(begun, live', refs, handed)
  BY <1>1, <1>2 DEF CallersOK
<1>9. Inv(disk, "writing", xs, NoReply, begun, live', refs, handed, confirmed)
  BY <1>1, <1>6, <1>7, <1>8, Mutates
<1>10. disk' = disk /\ holder' = "writing" /\ writes' = xs /\ reply' = NoReply
  BY <1>3, <1>4, <1>5 DEF begins
<1> QED BY <1>3, <1>9, <1>10 DEF IInv

\* So does an abandoned one.
LEMMA AbandonKeeps ==
  ASSUME IInv, NEW t \in live, Abandon(t)
  PROVE  IInv'
<1>1. CallersOK(begun, live, refs, handed)
  BY DEF IInv, Inv
<1>2. CallersOK(begun, live', refs, handed)
  BY <1>1 DEF CallersOK, Abandon
<1>3. Inv(disk, holder, writes, reply, begun, live', refs, handed, confirmed)
  BY <1>2 DEF IInv, Inv
<1> QED BY <1>3 DEF IInv, Abandon, lockVars

-----------------------------------------------------------------------------
(* Publication.                                                             *)

\* The batch is frozen, and returned or not.
LEMMA FreezesKeeps ==
  ASSUME NEW cf, Good(disk, begun, refs, handed, cf), IsDirectory(disk), ~needsRebuild(disk),
         CallersOK(begun, live, refs, handed), ~Exists(disk, "descriptor"), selectable,
         NEW a, a = NoReply \/ a = batch(pendingRefs(disk)), freezes(a)
  PROVE  Inv(disk', holder', writes', reply', begun, live', refs', handed', cf)
<1>1. CASE blocks
  BY <1>1, BlocksKeeps
<1>2. CASE /\ begins(mutation(<<frozen(pendingRefs(disk))>>,
                              [usageOf(disk) EXCEPT !.used = @ + DescriptorCharge]), a)
           /\ UNCHANGED <<live, refs, handed>>
  <2>1. PICK b : b = pendingRefs(disk)
    OBVIOUS
  <2>2. PICK u : u = [usageOf(disk) EXCEPT !.used = @ + DescriptorCharge]
    OBVIOUS
  <2>3. PICK xs : xs = mutation(<<frozen(b)>>, u)
    OBVIOUS
  <2>4. usageOf(disk).records > 0 /\ \A k \in DOMAIN b : storedAs(disk, b[k])
    BY <2>1 DEF selectable
  <2>5. PICK e : /\ MutationSafe(disk, <<frozen(b)>>, e, u, begun, refs, handed, cf)
                 /\ ~InFlight(e) /\ Exists(e, "descriptor") /\ Only(e, "descriptor") = b
    BY <2>1, <2>2, <2>4, FreezeSafe
  <2>6. PICK f : f = after(disk, pending(xs))
    OBVIOUS
  <2>7. /\ Queue(xs) /\ Safe(disk, xs, begun, refs, handed, cf) /\ same(e, f)
    BY <2>3, <2>5, <2>6 DEF MutationSafe
  <2>8. ~InFlight(f) /\ Exists(f, "descriptor") /\ Only(f, "descriptor") = b
    BY <2>5, <2>7 DEF same, InFlight, Exists, Only
  <2>9. batch(b).it = b
    BY DEF batch
  <2>10. IsFrozen(batch(b), f)
    BY <2>8, <2>9 DEF IsFrozen
  <2>11. ReplyOK(a, after(disk, pending(xs)), begun, cf)
    BY <2>1, <2>6, <2>10 DEF ReplyOK
  <2>12. Inv(disk, "writing", xs, a, begun, live, refs, handed, cf)
    BY <2>7, <2>11, Mutates
  <2>13. /\ disk' = disk /\ holder' = "writing" /\ writes' = xs /\ reply' = a
         /\ live' = live /\ refs' = refs /\ handed' = handed
    BY <1>2, <2>1, <2>2, <2>3 DEF begins
  <2> QED BY <2>12, <2>13
<1> QED BY <1>1, <1>2 DEF freezes

\* PendingOperationHistoryBatch keeps the invariant.
LEMMA PendingKeeps == IInv /\ PendingOperationHistoryBatch => IInv'
<1> SUFFICES ASSUME IInv, PendingOperationHistoryBatch PROVE IInv'
  OBVIOUS
<1>1. /\ Good(disk, begun, refs, handed, confirmed) /\ IsDirectory(disk) /\ ~needsRebuild(disk)
      /\ CallersOK(begun, live, refs, handed) /\ ~InFlight(disk)
  BY Calls DEF PendingOperationHistoryBatch
<1>2. begun' = begun /\ confirmed' = confirmed
  BY DEF PendingOperationHistoryBatch
<1>3. CASE Exists(disk, "descriptor")
  <2>1. returnsNow(batch(Only(disk, "descriptor")))
    BY <1>3 DEF PendingOperationHistoryBatch
  <2>2. batch(Only(disk, "descriptor")).it = Only(disk, "descriptor")
    BY DEF batch
  <2>3. ReplyOK(batch(Only(disk, "descriptor")), disk, begun, confirmed)
    BY <1>1, <1>3, <2>2 DEF ReplyOK, IsFrozen
  <2>4. Inv(disk', holder', writes', reply', begun, live', refs', handed', confirmed)
    BY <1>1, <2>1, <2>3, ReturnsKeeps
  <2> QED BY <1>2, <2>4 DEF IInv
<1>4. CASE ~Exists(disk, "descriptor")
  <2>1. selectable /\ freezes(batch(pendingRefs(disk)))
    BY <1>4 DEF PendingOperationHistoryBatch
  <2>2. Inv(disk', holder', writes', reply', begun, live', refs', handed', confirmed)
    BY <1>1, <1>4, <2>1, FreezesKeeps
  <2> QED BY <1>2, <2>2 DEF IInv
<1> QED BY <1>3, <1>4

\* So does AcknowledgeOperationHistoryBatch.
LEMMA AcknowledgeKeeps ==
  ASSUME IInv, NEW b \in handed, AcknowledgeOperationHistoryBatch(b)
  PROVE  IInv'
<1>1. /\ Good(disk, begun, refs, handed, confirmed) /\ IsDirectory(disk) /\ ~needsRebuild(disk)
      /\ CallersOK(begun, live, refs, handed) /\ reply = NoReply
  BY Calls DEF AcknowledgeOperationHistoryBatch
<1>2. PICK cf : cf = confirmed \cup {b}
  OBVIOUS
<1>3. begun' = begun /\ confirmed' = cf
  BY <1>2 DEF AcknowledgeOperationHistoryBatch
<1>4. Good(disk, begun, refs, handed, cf)
  BY <1>1, <1>2, ConfirmedMore
<1> SUFFICES Inv(disk', holder', writes', reply', begun, live', refs', handed', cf)
  BY <1>3 DEF IInv
<1>5. CASE ~Exists(disk, "descriptor")
  <2>1. selectable /\ freezes(NoReply)
    BY <1>5 DEF AcknowledgeOperationHistoryBatch
  <2> QED BY <1>1, <1>4, <1>5, <2>1, FreezesKeeps
<1>6. CASE Exists(disk, "descriptor")
  <2>1. Only(disk, "descriptor") = b
    BY <1>6 DEF AcknowledgeOperationHistoryBatch, loadable
  <2>2. Publishes(disk, b, begun, refs, handed, cf)
    <3>1. Frozen(disk, b)
      BY <1>1, <1>6, <2>1 DEF Frozen, Good
    <3>2. Known(disk, begun, refs, handed, cf)
      BY <1>4 DEF Good
    <3>3. /\ \A a \in refs : a.identity \in Identity
          /\ \A e \in handed : IsBatch(e)
      BY <1>1 DEF CallersOK
    <3> QED BY <1>2, <3>1, <3>2, <3>3 DEF Publishes
  <2>3. PICK tx : tx = transactionOf(disk, b)
    OBVIOUS
  <2>4. CASE blocks
    BY <1>1, <1>4, <2>4, BlocksKeeps
  <2>5. CASE begins(publication(tx), NoReply) /\ UNCHANGED <<live, refs, handed>>
    <3>1. PICK ws, u : ws = applyStages(disk, tx) /\ u = publishedUsage(disk, tx)
      OBVIOUS
    <3>2. PICK xs : xs = publicationOf(tx, ws, u)
      OBVIOUS
    <3>3. publication(tx) = xs
      BY <3>1, <3>2 DEF publication, publicationOf
    <3>4. Queue(xs) /\ Safe(disk, xs, begun, refs, handed, cf)
      BY <2>2, <2>3, <3>1, <3>2, PublicationSafe
    <3>5. ReplyOK(NoReply, after(disk, pending(xs)), begun, cf)
      BY DEF ReplyOK
    <3>6. Inv(disk, "writing", xs, NoReply, begun, live, refs, handed, cf)
      BY <1>1, <3>4, <3>5, Mutates
    <3>7. /\ disk' = disk /\ holder' = "writing" /\ writes' = xs /\ reply' = NoReply
          /\ live' = live /\ refs' = refs /\ handed' = handed
      BY <2>5, <3>3 DEF begins
    <3> QED BY <3>6, <3>7
  <2>6. CASE /\ holder' = "refused" /\ writes' = <<only("publication", tx)>>
             /\ UNCHANGED <<disk, reply, live, refs, handed>>
    <3>1. PICK xs : xs = <<only("publication", tx)>>
      OBVIOUS
    <3>2. Queue(xs) /\ Safe(disk, xs, begun, refs, handed, cf)
      BY <2>2, <2>3, <3>1, TransactionLeftSafe
    <3>3. Inv(disk, "refused", xs, NoReply, begun, live, refs, handed, cf)
      BY <1>1, <3>2, Refuses
    <3> QED BY <1>1, <2>6, <3>1, <3>3
  <2> QED BY <1>6, <2>3, <2>4, <2>5, <2>6 DEF AcknowledgeOperationHistoryBatch
<1> QED BY <1>5, <1>6

-----------------------------------------------------------------------------
(* The theorems.                                                            *)

\* The empty directory is good.
LEMMA EmptyGood ==
  ASSUME NEW bg
  PROVE  IsDirectory(EmptyDirectory) /\ Good(EmptyDirectory, bg, {}, {}, {})
<1>1. PICK d : d = EmptyDirectory
  OBVIOUS
<1>2. /\ d.records = << >> /\ d.sequences = << >> /\ d.reservations = << >> /\ d.index = << >>
      /\ d.checkpoint = << >> /\ d.descriptor = << >> /\ d.publication = << >>
      /\ d.marker = << >> /\ d.usage = << >> /\ d = [f \in Files |-> << >>]
  BY <1>1 DEF EmptyDirectory, Files
<1>3. DOMAIN << >> = {} /\ << >> = [k \in {} |-> << >>[k]] /\ IsFiniteSet({})
  BY FS_EmptySet
<1>4. IsDirectory(d)
  <2>1. \A f \in Files : d[f] = << >>
    BY <1>2
  <2>2. \A f \in Files : d[f] = [k \in DOMAIN d[f] |-> d[f][k]] /\ IsFiniteSet(DOMAIN d[f])
    BY <1>3, <2>1
  <2>3. \A f \in SingleFiles : DOMAIN d[f] \subseteq {"only"}
    BY <1>3, <2>1 DEF SingleFiles, Files
  <2>4. d = [f \in Files |-> d[f]]
    BY <1>2
  <2> QED BY <2>2, <2>3, <2>4 DEF IsDirectory
<1>5. ~InFlight(d) /\ ~Exists(d, "checkpoint") /\ ~Exists(d, "descriptor") /\ ~Exists(d, "usage")
  BY <1>2, <1>3 DEF InFlight, Exists
<1>6. checkpointOf(d).sequence = 0 /\ checkpointOf(d).indexed = << >>
  BY <1>5 DEF checkpointOf
<1>7. settled(d) = checkpointOf(d) /\ batchOf(d) = << >>
  BY <1>5 DEF settled, batchOf
<1>8. kept(d) = {}
  BY <1>2, <1>3 DEF kept
<1>9. CheckpointOK(d)
  BY <1>3, <1>6, <1>7 DEF CheckpointOK
<1>10. RecordsOK(d) /\ SequencesOK(d)
  BY <1>2, <1>3, <1>8 DEF RecordsOK, SequencesOK, Following, Named
<1>11. TransactionOK(d) /\ NoTransactionOK(d)
  BY <1>2, <1>5, <1>6 DEF TransactionOK, NoTransactionOK
<1>12. Recoverable(d)
  BY <1>4, <1>9, <1>10, <1>11 DEF Recoverable
<1>13. TrustedOK(d)
  BY <1>5 DEF TrustedOK, needsRebuild
<1>14. Known(d, bg, {}, {}, {})
  BY <1>2, <1>3, <1>5, <1>6, <1>7 DEF Known
<1> QED BY <1>1, <1>4, <1>12, <1>13, <1>14 DEF Good

\* The empty directory satisfies the invariant.
LEMMA HistoryInit == Init => IInv
<1> SUFFICES ASSUME Init PROVE IInv
  OBVIOUS
<1>1. IsDirectory(EmptyDirectory) /\ Good(EmptyDirectory, begun, {}, {}, {})
  BY EmptyGood
<1>2. CallersOK(begun, {}, {}, {})
  BY DEF CallersOK, Init
<1>3. Inv(EmptyDirectory, "free", << >>, NoReply, begun, {}, {}, {}, {})
  BY <1>1, <1>2, Frees
<1> QED BY <1>3 DEF Init, IInv

\* One step per action.
LEMMA HistoryStep ==
  ASSUME ~OverlappingAttempts, IInv, [Next]_vars
  PROVE  IInv'
<1>1. CASE UNCHANGED vars
  BY <1>1 DEF vars, lockVars, callerVars, IInv
<1>2. CASE TakeLock
  BY <1>2, TakeLockKeeps
<1>3. ASSUME NEW p \in Release, Open(p) PROVE IInv'
  BY <1>3, OpenKeeps
<1>4. CASE Scan
  BY <1>4, ScanKeeps
<1>5. CASE Rebuilt
  BY <1>5, RebuiltKeeps
<1>6. CASE Write
  BY <1>6, WriteStepKeeps
<1>7. CASE Return
  BY <1>7, ReturnKeeps
<1>8. CASE Fail
  BY <1>8, FailKeeps
<1>9. ASSUME NEW i \in Identity, Reserve(i) PROVE IInv'
  BY <1>9, ReserveKeeps
<1>10. ASSUME NEW i \in Identity, CancelReservation(i) PROVE IInv'
  BY <1>10, CancelKeeps
<1>11. ASSUME NEW i \in Identity, NEW r \in Receipt, AppendValidated(i, r) PROVE IInv'
  BY <1>11, AppendKeeps
<1>12. ASSUME NEW t \in live, Abandon(t) PROVE IInv'
  BY <1>12, AbandonKeeps
<1>13. CASE PendingOperationHistoryBatch
  BY <1>13, PendingKeeps
<1>14. ASSUME NEW b \in handed, AcknowledgeOperationHistoryBatch(b) PROVE IInv'
  BY <1>14, AcknowledgeKeeps
<1> QED
  BY <1>1, <1>2, <1>3, <1>4, <1>5, <1>6, <1>7, <1>8, <1>9, <1>10, <1>11, <1>12, <1>13, <1>14 DEF Next

\* Every state satisfies the invariant, if the attempts of an operation do not
\* overlap.
LEMMA HistoryInvariant == ASSUME ~OverlappingAttempts PROVE Spec => []IInv
<1>1. IInv /\ [Next]_vars => IInv'
  BY HistoryStep
<1> QED BY <1>1, HistoryInit, PTL DEF Spec

\* Usage that a caller would trust is what the files add up to: no crash, at
\* whatever write of Reserve, AppendValidated, CancelReservation, a publication
\* or a rebuild, leaves room counted twice or not at all.
THEOREM UsageIsExact == ASSUME ~OverlappingAttempts PROVE Spec => []UsageExact
<1>1. IInv => UsageExact
  <2> SUFFICES ASSUME IInv PROVE UsageExact
    OBVIOUS
  <2>1. TrustedOK(disk)
    BY Quiet DEF IInv, Good
  <2> QED BY <2>1 DEF TrustedOK, UsageExact
<1> QED BY <1>1, HistoryInvariant, PTL

\* A receipt that AppendValidated reported as durable is in the store until a
\* batch with it was verified at the remote and acknowledged.
THEOREM EvidenceIsKept == ASSUME ~OverlappingAttempts PROVE Spec => []EvidenceKept
<1>1. IInv => EvidenceKept
  <2> SUFFICES ASSUME IInv PROVE EvidenceKept
    OBVIOUS
  <2>1. \A e \in refs : RefKept(disk, e, confirmed)
    BY Quiet DEF IInv, Good, Known
  <2> QED BY <2>1 DEF RefKept, EvidenceKept
<1> QED BY <1>1, HistoryInvariant, PTL

\* Two batches that PendingOperationHistoryBatch returned are the same or share
\* no receipt, whatever was appended, retried or restarted in between.
THEOREM BatchesAreStable == ASSUME ~OverlappingAttempts PROVE Spec => []StableBatches
<1>1. IInv => StableBatches
  BY DEF IInv, Inv, CallersOK, Apart, StableBatches
<1> QED BY <1>1, HistoryInvariant, PTL

\* AppendValidated gives one attempt one receipt, before and after publication.
THEOREM AttemptsHaveOneReceipt == ASSUME ~OverlappingAttempts PROVE Spec => []OneReceiptPerAttempt
<1>1. IInv => OneReceiptPerAttempt
  BY DEF IInv, Inv, CallersOK, OneReceiptPerAttempt
<1> QED BY <1>1, HistoryInvariant, PTL

-----------------------------------------------------------------------------
(* Recovery never stops at what the store itself wrote.                     *)

\* The transaction that a crash left can be applied.
LEMMA LeftIsApplicable ==
  ASSUME NEW d, Recoverable(d), InFlight(d), NEW tx, tx = transaction(d)
  PROVE  applicable(d, tx)
<1>1. batchOf(d) = tx.batch
  BY DEF batchOf
<1>2. TransactionOK(d) /\ IsBatch(tx.batch)
  BY <1>1 DEF Recoverable, TransactionOK
<1>3. /\ \/ replays(d, tx)
         \/ checkpointOf(d).sequence + 1 = tx.batch[1].sequence /\ Exists(d, "descriptor")
      /\ Exists(d, "descriptor") => Only(d, "descriptor") = tx.batch
  BY <1>1, <1>2 DEF TransactionOK
<1>4. \A k \in DOMAIN tx.batch : tx.batch[k].identity \in DOMAIN d.records => storedAs(d, tx.batch[k])
  BY <1>1, <1>2 DEF TransactionOK
<1>5. \A j, k \in DOMAIN tx.batch :
        j < k /\ tx.batch[j].identity.operation = tx.batch[k].identity.operation
          => tx.batch[j].identity.generation < tx.batch[k].identity.generation
  BY <1>2 DEF IsBatch
<1>6. \A o \in operationsOf(tx.batch) :
        IF o \in DOMAIN d.index
        THEN \/ d.index[o] = entry(tx.batch, o)
             \/ o \in DOMAIN tx.previous /\ d.index[o] = tx.previous[o]
        ELSE o \notin DOMAIN tx.previous
  BY <1>1, <1>2 DEF TransactionOK
<1> QED BY <1>3, <1>4, <1>5, <1>6 DEF applicable

\* So can the transaction of the frozen batch.
LEMMA FrozenIsApplicable ==
  ASSUME NEW d, NEW b, Frozen(d, b), NEW tx, tx = transactionOf(d, b)
  PROVE  applicable(d, tx)
<1>1. PICK P : P = put("publication", "only", tx)
  OBVIOUS
<1>2. PICK p : p = written(d, P)
  OBVIOUS
<1>3. Transacts(d, p, b) /\ IsDirectory(p)
  BY <1>1, <1>2, TransactionWritten
<1>4. Recoverable(p) /\ InFlight(p) /\ transaction(p) = tx
  BY <1>3, TransactedRecoverable DEF Transacts
<1>5. applicable(p, tx)
  BY <1>4, LeftIsApplicable
<1>6. /\ p.records = d.records /\ p.sequences = d.sequences /\ p.index = d.index
      /\ p.checkpoint = d.checkpoint /\ p.descriptor = d.descriptor
  BY <1>3 DEF Transacts
<1>7. checkpointOf(p) = checkpointOf(d)
  BY <1>6 DEF checkpointOf, Exists, Only
<1>8. /\ Exists(p, "descriptor") = Exists(d, "descriptor")
      /\ Only(p, "descriptor") = Only(d, "descriptor")
      /\ replays(p, tx) = replays(d, tx)
      /\ \A r : storedAs(p, r) = storedAs(d, r)
  BY <1>6, <1>7 DEF Exists, Only, replays, storedAs
<1> QED BY <1>5, <1>6, <1>7, <1>8 DEF applicable

\* Without a transaction, the files are what the scan of a rebuild requires.
LEMMA RestIsConsistent ==
  ASSUME NEW d, Recoverable(d), ~InFlight(d)
  PROVE  consistent(d)
<1>1. PICK c, S, R : c = checkpointOf(d) /\ S = {d.records[i].sequence : i \in DOMAIN d.records} /\ R = d.records
  OBVIOUS
<1>2. /\ settled(d) = c /\ kept(d) = DOMAIN R /\ d.index = c.indexed /\ Following(R, DOMAIN R, c)
  BY <1>1, NotInFlight
<1>3. c.sequence \in Nat /\ IsFiniteSet(DOMAIN R)
  BY <1>1 DEF Recoverable, CheckpointOK, RecordsOK
<1>4. \A i \in DOMAIN R : R[i] \in [receipt : Receipt, sequence : Nat \ {0}]
  BY <1>1 DEF Recoverable, RecordsOK
<1>5. S = c.sequence + 1 .. c.sequence + Cardinality(DOMAIN R)
  <2>1. \A i \in DOMAIN R : R[i].sequence \in Nat
    BY <1>4
  <2>2. {R[i].sequence : i \in DOMAIN R} = c.sequence + 1 .. c.sequence + Cardinality(DOMAIN R)
    BY <1>2, <1>3, <2>1, NoGap
  <2> QED BY <1>1, <2>2
<1>6. \A o \in DOMAIN d.index : d.index[o].sequence <= c.sequence
  BY <1>2 DEF Recoverable, CheckpointOK
<1>7. \A i \in DOMAIN R : i.operation \in DOMAIN d.index => d.index[i.operation].identity.generation < i.generation
  BY <1>2 DEF Following
<1>8. ASSUME NEW s \in DOMAIN d.sequences
      PROVE  s \in S /\ storedAs(d, refAt(d, s))
  <2>1. DOMAIN batchOf(d) = {}
    BY DEF batchOf
  <2>2. PICK i \in DOMAIN R :
          s = R[i].sequence /\ d.sequences[s] = [identity |-> i, receipt |-> R[i].receipt]
    BY <1>1, <1>2, <2>1 DEF Recoverable, SequencesOK, Named
  <2>3. s \in S
    BY <1>1, <2>2
  <2>4. PICK r : r = refAt(d, s)
    OBVIOUS
  <2>5. r.identity = i /\ r.receipt = R[i].receipt /\ r.sequence = s
    BY <2>2, <2>4 DEF refAt
  <2>6. R[i] = [receipt |-> R[i].receipt, sequence |-> R[i].sequence]
    BY <1>4
  <2>7. storedAs(d, r)
    BY <1>1, <2>2, <2>5, <2>6 DEF storedAs
  <2> QED BY <2>3, <2>4, <2>7
<1>9. PICK b : b = Only(d, "descriptor")
  OBVIOUS
<1>10. ASSUME Exists(d, "descriptor")
       PROVE  /\ b[1].sequence = c.sequence + 1
              /\ \A k \in DOMAIN b : b[k].sequence \in S
              /\ \A k \in DOMAIN b :
                   /\ b[k].identity \in DOMAIN R
                   /\ R[b[k].identity] = [receipt |-> b[k].receipt, sequence |-> b[k].sequence]
  <2>1. /\ b[1].sequence = c.sequence + 1
        /\ \A k \in DOMAIN b :
             /\ b[k].identity \in DOMAIN R
             /\ R[b[k].identity] = [receipt |-> b[k].receipt, sequence |-> b[k].sequence]
    BY <1>1, <1>9, <1>10 DEF Recoverable, NoTransactionOK
  <2>2. ASSUME NEW k \in DOMAIN b PROVE b[k].sequence \in S
    <3>1. PICK i, y, s : i = b[k].identity /\ y = b[k].receipt /\ s = b[k].sequence
      OBVIOUS
    <3>2. i \in DOMAIN R /\ R[i] = [receipt |-> y, sequence |-> s]
      BY <2>1, <3>1
    <3>3. R[i].sequence = s
      BY <3>2
    <3> QED BY <1>1, <3>1, <3>2, <3>3
  <2> QED BY <2>1, <2>2
<1>11. DOMAIN d.sequences \subseteq S
  BY <1>8
<1>12. \A s \in DOMAIN d.sequences : storedAs(d, refAt(d, s))
  BY <1>8
<1> QED BY <1>1, <1>2, <1>5, <1>6, <1>7, <1>9, <1>10, <1>11, <1>12 DEF consistent

\* A transaction that was left stops a rebuild only if the program does not
\* validate a record of its batch.
LEMMA RebuildRefusesForeign ==
  ASSUME Good(disk, begun, refs, handed, confirmed), NEW p, startsRebuild(p)
  PROVE  /\ holder' = "refused" => \E i \in DOMAIN disk.records : ~resolves(p, i)
         /\ writes' = replayStages \/ writes' = <<marked>>
<1>1. Recoverable(disk)
  BY DEF Good
<1>2. Exists(disk, "publication") => applicable(disk, Only(disk, "publication"))
  <2>1. ASSUME Exists(disk, "publication") PROVE applicable(disk, Only(disk, "publication"))
    <3>1. PICK tx : tx = transaction(disk)
      OBVIOUS
    <3>2. applicable(disk, tx)
      BY <1>1, <2>1, <3>1, LeftIsApplicable DEF InFlight
    <3> QED BY <3>1, <3>2 DEF transaction
  <2> QED BY <2>1
<1> QED BY <1>2 DEF startsRebuild, replayable, readable

\* Only a record that the program does not validate makes a call give up, or the
\* limits of a rebuild, after the replay.
LEMMA StepRefusesOnlyWhenFull ==
  ASSUME IInv, Next, holder # "refused", holder' = "refused"
  PROVE  \/ \E i \in DOMAIN disk.records : ~resolves(release', i)
         \/ ~fits(accountedUsage(disk)) /\ ~InFlight(disk)
<1>1. Good(disk, begun, refs, handed, confirmed) /\ Recoverable(disk) /\ TrustedOK(disk)
  BY Quiet DEF IInv, Good
<1>2. CASE TakeLock
  <2>1. startsRebuild(release) /\ release' = release
    BY <1>2 DEF TakeLock, processVars
  <2> QED BY <1>1, <2>1, RebuildRefusesForeign
<1>3. ASSUME NEW p \in Release, Open(p)
      PROVE  \E i \in DOMAIN disk.records : ~resolves(release', i)
  <2>1. startsRebuild(p) /\ release' = p
    BY <1>3 DEF Open
  <2> QED BY <1>1, <2>1, RebuildRefusesForeign
<1>4. CASE Scan
  <2>1. holder = "replaying" /\ nothingLeft
    BY <1>4 DEF Scan
  <2>2. after(disk, pending(writes)) = disk
    BY <2>1, Done
  <2>3. HolderOK(holder, writes, disk, disk, reply)
    BY <2>2 DEF IInv, Inv
  <2>4. ~InFlight(disk)
    BY <2>1, <2>3 DEF HolderOK
  <2>5. consistent(disk)
    BY <1>1, <2>4, RestIsConsistent
  <2>6. release' = release
    BY <1>4 DEF Scan, processVars
  <2> QED BY <1>4, <2>4, <2>5, <2>6 DEF Scan, readable
<1>5. ASSUME NEW b \in handed, AcknowledgeOperationHistoryBatch(b) PROVE FALSE
  <2>1. holder = "ready" /\ ~needsRebuild(disk)
    BY <1>5, Calls DEF AcknowledgeOperationHistoryBatch
  <2>2. Exists(disk, "descriptor") /\ Only(disk, "descriptor") = b
    BY <1>5 DEF AcknowledgeOperationHistoryBatch, loadable, freezes, blocks, begins, returnsNow
  <2>3. Frozen(disk, b)
    BY <1>1, <2>1, <2>2 DEF Frozen
  <2>4. PICK tx : tx = transactionOf(disk, b)
    OBVIOUS
  <2>5. applicable(disk, tx)
    BY <2>3, <2>4, FrozenIsApplicable
  <2> QED BY <1>5, <2>2, <2>4, <2>5 DEF AcknowledgeOperationHistoryBatch, blocks, begins, returnsNow
<1>6. CASE Rebuilt \/ Write \/ Return \/ Fail
  BY <1>6 DEF Rebuilt, Write, Return, Fail, returnsNow
<1>7. ASSUME NEW i \in Identity, Reserve(i) \/ CancelReservation(i) PROVE FALSE
  BY <1>7 DEF Reserve, CancelReservation, blocks, begins, returnsNow
<1>8. ASSUME NEW i \in Identity, NEW r \in Receipt, AppendValidated(i, r) PROVE FALSE
  BY <1>8 DEF AppendValidated, AppendAgain, AppendPublished, AppendNew, blocks, begins, returnsNow
<1>9. ASSUME NEW t \in live, Abandon(t) PROVE FALSE
  BY <1>9 DEF Abandon, lockVars
<1>10. CASE PendingOperationHistoryBatch
  BY <1>10 DEF PendingOperationHistoryBatch, freezes, blocks, begins, returnsNow
<1> QED BY <1>2, <1>3, <1>4, <1>5, <1>6, <1>7, <1>8, <1>9, <1>10 DEF Next

-----------------------------------------------------------------------------
(* Room.  Reserve compares the limits with what a receipt may come to need,  *)
(* and no later call needs more than was reserved for it: an append takes    *)
(* less than its reservation, and a publication frees a record for every     *)
(* entry it adds.  So the files fit the limits at every prefix of the writes *)
(* of every call; only a descriptor comes on top of what was reserved.       *)

operationsIn(S) == {i.operation : i \in S}

\* Records K, reservations C without a record, and index entries I, with or
\* without a checkpoint.
Room(K, C, I, cp) ==
  /\ IsFiniteSet(K) /\ IsFiniteSet(C) /\ IsFiniteSet(I)
  /\ Cardinality(C) <= MaxReservations
  /\ Cardinality(K) + Cardinality(C) <= MaxPendingRecords
  /\ Cardinality(I \cup operationsIn(K \cup C)) <= MaxOperationKeys
  /\ Cardinality(K) * RecordCharge + Cardinality(C) * ReservedBytes + Cardinality(I) * IndexCharge
       + (IF cp THEN CheckpointCharge ELSE 0) + Headroom <= MaxBytes

\* What is left once a transaction has been applied fits.
Limits(d) ==
  Room(kept(d), DOMAIN d.reservations \ kept(d), DOMAIN settled(d).indexed,
       InFlight(d) \/ Exists(d, "checkpoint"))

\* At each prefix of the writes.
RoomSafe(d, ws) == \A Q \in SUBSET pending(ws) : Closed(ws, Q) => Limits(after(d, Q))

\* The limits are numbers.
LEMMA LimitTypes ==
  /\ RecordCharge \in Nat /\ IndexCharge \in Nat /\ CheckpointCharge \in Nat /\ DescriptorCharge \in Nat
  /\ ReservedBytes \in Nat /\ Headroom \in Nat /\ MaxBytes \in Nat /\ RecordCharge <= ReservedBytes
  /\ MaxReservations \in Nat /\ MaxPendingRecords \in Nat /\ MaxOperationKeys \in Nat
  /\ IndexCharge + CheckpointCharge <= RecordCharge
  /\ ReservedBytes + Headroom <= MaxBytes
BY ChargeAssumption, ReserveAssumption

\* Products grow with their factors.
LEMMA Grows ==
  ASSUME NEW a \in Nat, NEW b \in Nat, NEW c \in Nat, a <= b
  PROVE  a * c <= b * c /\ a * c \in Nat /\ b * c \in Nat
<1>1. PICK x \in Nat : b = a + x
  <2>1. b - a \in Nat /\ b = a + (b - a)
    OBVIOUS
  <2> QED BY <2>1
<1>2. (a + x) * c = a * c + x * c
  BY Product
<1>3. a * c \in Nat /\ x * c \in Nat
  BY Z3
<1> QED BY <1>1, <1>2, <1>3

\* The operations of finitely many attempts.
LEMMA FiniteOperations ==
  ASSUME NEW S, IsFiniteSet(S)
  PROVE  IsFiniteSet(operationsIn(S)) /\ Cardinality(operationsIn(S)) <= Cardinality(S)
<1> DEFINE g == [i \in S |-> i.operation]
<1>1. g \in Surjection(S, operationsIn(S))
  BY DEF Surjection, operationsIn
<1> HIDE DEF g
<1> QED BY <1>1, FS_Surjection

\* A union is not larger than its parts together.
LEMMA UnionSize ==
  ASSUME NEW S, IsFiniteSet(S), NEW T, IsFiniteSet(T)
  PROVE  /\ IsFiniteSet(S \cup T) /\ Cardinality(S \cup T) \in Nat
         /\ Cardinality(S \cup T) <= Cardinality(S) + Cardinality(T)
<1>1. IsFiniteSet(S \cap T)
  BY FS_Intersection
<1>2. IsFiniteSet(S \cup T) /\ Cardinality(S \cup T) = Cardinality(S) + Cardinality(T) - Cardinality(S \cap T)
  BY FS_Union
<1>3. /\ Cardinality(S) \in Nat /\ Cardinality(T) \in Nat /\ Cardinality(S \cap T) \in Nat
      /\ Cardinality(S \cup T) \in Nat
  BY <1>1, <1>2, FS_CardinalityType
<1> QED BY <1>2, <1>3

\* The sizes of what there is room for.
LEMMA RoomTypes ==
  ASSUME NEW K, NEW C, NEW I, NEW cp, Room(K, C, I, cp)
  PROVE  /\ Cardinality(K) \in Nat /\ Cardinality(C) \in Nat /\ Cardinality(I) \in Nat
         /\ IsFiniteSet(I \cup operationsIn(K \cup C))
         /\ Cardinality(I \cup operationsIn(K \cup C)) \in Nat
<1>1. IsFiniteSet(K) /\ IsFiniteSet(C) /\ IsFiniteSet(I)
  BY DEF Room
<1>2. IsFiniteSet(K \cup C)
  BY <1>1, FS_Union
<1>3. IsFiniteSet(operationsIn(K \cup C))
  BY <1>2, FiniteOperations
<1>4. IsFiniteSet(I \cup operationsIn(K \cup C))
  BY <1>1, <1>3, FS_Union
<1> QED BY <1>1, <1>4, FS_CardinalityType

\* Fewer reservations take less.
LEMMA RoomLess ==
  ASSUME NEW K, NEW C, NEW I, NEW cp \in BOOLEAN, Room(K, C, I, cp),
         NEW D \in SUBSET C, NEW cq \in BOOLEAN, cq => cp
  PROVE  Room(K, D, I, cq)
<1>1. IsFiniteSet(K) /\ IsFiniteSet(C) /\ IsFiniteSet(I)
  BY DEF Room
<1>2. PICK a, b, c, e : a = Cardinality(K) /\ b = Cardinality(C) /\ c = Cardinality(I) /\ e = Cardinality(D)
  OBVIOUS
<1>3. a \in Nat /\ b \in Nat /\ c \in Nat /\ e \in Nat /\ e <= b /\ IsFiniteSet(D)
  BY <1>1, <1>2, FS_Subset, FS_CardinalityType
<1>4. PICK S, T : S = I \cup operationsIn(K \cup C) /\ T = I \cup operationsIn(K \cup D)
  OBVIOUS
<1>5. IsFiniteSet(S) /\ T \in SUBSET S
  BY <1>4, RoomTypes DEF operationsIn
<1>6. Cardinality(T) <= Cardinality(S) /\ Cardinality(S) \in Nat /\ Cardinality(T) \in Nat
  BY <1>5, FS_Subset, FS_CardinalityType
<1>7. Cardinality(S) <= MaxOperationKeys
  BY <1>4 DEF Room
<1>8. Cardinality(T) <= MaxOperationKeys
  BY <1>6, <1>7, LimitTypes
<1>9. e * ReservedBytes <= b * ReservedBytes /\ e * ReservedBytes \in Nat /\ b * ReservedBytes \in Nat
  BY <1>3, LimitTypes, Grows
<1>10. a * RecordCharge \in Nat /\ c * IndexCharge \in Nat
  BY <1>3, LimitTypes, Grows
<1>11. PICK x, y, z, t : x = a * RecordCharge /\ y = c * IndexCharge /\ z = e * ReservedBytes /\ t = b * ReservedBytes
  OBVIOUS
<1>12. x + t + y + (IF cp THEN CheckpointCharge ELSE 0) + Headroom <= MaxBytes
  BY <1>2, <1>11 DEF Room
<1>13. x + z + y + (IF cq THEN CheckpointCharge ELSE 0) + Headroom <= MaxBytes
  BY <1>9, <1>10, <1>11, <1>12, LimitTypes
<1>14. b <= MaxReservations /\ a + b <= MaxPendingRecords
  BY <1>2 DEF Room
<1>15. e <= MaxReservations /\ a + e <= MaxPendingRecords
  BY <1>3, <1>14, LimitTypes
<1> QED BY <1>1, <1>2, <1>3, <1>4, <1>8, <1>11, <1>13, <1>15 DEF Room

\* An append takes less than was reserved for it.
LEMMA RoomAppend ==
  ASSUME NEW K, NEW C, NEW I, NEW cp \in BOOLEAN, Room(K, C, I, cp), NEW i \in C, i \notin K
  PROVE  Room(K \cup {i}, C \ {i}, I, cp)
<1>1. IsFiniteSet(K) /\ IsFiniteSet(C) /\ IsFiniteSet(I)
  BY DEF Room
<1>2. PICK a, b, c : a = Cardinality(K) /\ b = Cardinality(C) /\ c = Cardinality(I)
  OBVIOUS
<1>3. a \in Nat /\ b \in Nat /\ c \in Nat
  BY <1>1, <1>2, FS_CardinalityType
<1>4. /\ IsFiniteSet(K \cup {i}) /\ Cardinality(K \cup {i}) = a + 1
      /\ IsFiniteSet(C \ {i}) /\ Cardinality(C \ {i}) = b - 1
  BY <1>1, <1>2, FS_AddElement, FS_RemoveElement
<1>5. b - 1 \in Nat
  BY <1>4, FS_CardinalityType
<1>6. (K \cup {i}) \cup (C \ {i}) = K \cup C
  OBVIOUS
<1>7. (a + 1) * RecordCharge = a * RecordCharge + RecordCharge /\ a * RecordCharge \in Int
  BY <1>3, LimitTypes, Product
<1>8. ((b - 1) + 1) * ReservedBytes = (b - 1) * ReservedBytes + ReservedBytes /\ (b - 1) * ReservedBytes \in Int
  BY <1>5, LimitTypes, Product
<1>9. c * IndexCharge \in Nat
  BY <1>3, LimitTypes, Grows
<1>10. (b - 1) + 1 = b
  BY <1>3
<1>11. PICK x, y, z, t : x = a * RecordCharge /\ y = c * IndexCharge /\ z = (b - 1) * ReservedBytes /\ t = b * ReservedBytes
  OBVIOUS
<1>12. x + t + y + (IF cp THEN CheckpointCharge ELSE 0) + Headroom <= MaxBytes
  BY <1>2, <1>11 DEF Room
<1>13. t = z + ReservedBytes
  BY <1>8, <1>10, <1>11
<1>14. (x + RecordCharge) + z + y + (IF cp THEN CheckpointCharge ELSE 0) + Headroom <= MaxBytes
  BY <1>7, <1>8, <1>9, <1>11, <1>12, <1>13, LimitTypes
<1>15. b <= MaxReservations /\ a + b <= MaxPendingRecords
  BY <1>2 DEF Room
<1>16. b - 1 <= MaxReservations /\ (a + 1) + (b - 1) <= MaxPendingRecords
  BY <1>3, <1>15, LimitTypes
<1>17. Cardinality(I \cup operationsIn((K \cup {i}) \cup (C \ {i}))) <= MaxOperationKeys
  BY <1>6 DEF Room
<1> QED BY <1>1, <1>2, <1>4, <1>7, <1>11, <1>14, <1>16, <1>17 DEF Room

\* Reserve compares the limits with a reservation more.
LEMMA RoomReserve ==
  ASSUME NEW K, NEW C, NEW I, NEW cp \in BOOLEAN, Room(K, C, I, cp), NEW i, i \notin C, i \notin K,
         Cardinality(K) + Cardinality(C) < MaxPendingRecords,
         Cardinality(C) < MaxReservations,
         \/ i.operation \in I
         \/ Cardinality(I) + Cardinality(K) + Cardinality(C) < MaxOperationKeys,
         Cardinality(K) * RecordCharge + Cardinality(C) * ReservedBytes + Cardinality(I) * IndexCharge
           + (IF cp THEN CheckpointCharge ELSE 0) + ReservedBytes + Headroom <= MaxBytes
  PROVE  Room(K, C \cup {i}, I, cp)
<1>1. IsFiniteSet(K) /\ IsFiniteSet(C) /\ IsFiniteSet(I)
  BY DEF Room
<1>2. PICK a, b, c : a = Cardinality(K) /\ b = Cardinality(C) /\ c = Cardinality(I)
  OBVIOUS
<1>3. a \in Nat /\ b \in Nat /\ c \in Nat
  BY <1>1, <1>2, FS_CardinalityType
<1>4. IsFiniteSet(C \cup {i}) /\ Cardinality(C \cup {i}) = b + 1
  BY <1>1, <1>2, FS_AddElement
<1>5. (b + 1) * ReservedBytes = b * ReservedBytes + ReservedBytes /\ b * ReservedBytes \in Int
  BY <1>3, LimitTypes, Product
<1>6. a * RecordCharge \in Nat /\ c * IndexCharge \in Nat
  BY <1>3, LimitTypes, Grows
<1>7. PICK x, y, z : x = a * RecordCharge /\ y = c * IndexCharge /\ z = b * ReservedBytes
  OBVIOUS
<1>8. x + (z + ReservedBytes) + y + (IF cp THEN CheckpointCharge ELSE 0) + Headroom <= MaxBytes
  <2>1. x + z + y + (IF cp THEN CheckpointCharge ELSE 0) + ReservedBytes + Headroom <= MaxBytes
    BY <1>2, <1>7
  <2> QED BY <1>5, <1>6, <1>7, <2>1, LimitTypes
<1>9. b + 1 <= MaxReservations /\ a + (b + 1) <= MaxPendingRecords
  BY <1>2, <1>3, LimitTypes
<1>10. Cardinality(I \cup operationsIn(K \cup (C \cup {i}))) <= MaxOperationKeys
  <2>1. CASE i.operation \in I
    <3>1. I \cup operationsIn(K \cup (C \cup {i})) = I \cup operationsIn(K \cup C)
      BY <2>1 DEF operationsIn
    <3> QED BY <3>1 DEF Room
  <2>2. CASE c + a + b < MaxOperationKeys
    <3>1. PICK S, T : S = K \cup (C \cup {i}) /\ T = operationsIn(S)
      OBVIOUS
    <3>2. IsFiniteSet(S) /\ Cardinality(S) <= a + (b + 1) /\ Cardinality(S) \in Nat
      BY <1>1, <1>2, <1>3, <1>4, <3>1, UnionSize
    <3>3. IsFiniteSet(T) /\ Cardinality(T) <= Cardinality(S) /\ Cardinality(T) \in Nat
      BY <3>1, <3>2, FiniteOperations, FS_CardinalityType
    <3>4. Cardinality(I \cup T) <= c + Cardinality(T) /\ Cardinality(I \cup T) \in Nat
      BY <1>1, <1>2, <3>3, UnionSize
    <3>5. Cardinality(I \cup T) <= MaxOperationKeys
      BY <1>3, <2>2, <3>2, <3>3, <3>4, LimitTypes
    <3> QED BY <3>1, <3>5
  <2> QED BY <1>2, <2>1, <2>2
<1> QED BY <1>1, <1>2, <1>4, <1>5, <1>7, <1>8, <1>9, <1>10 DEF Room

\* Of n receipts that are published, each frees more than its entry and the
\* checkpoint take.
LEMMA Freed ==
  ASSUME NEW a \in Nat, NEW n \in Nat, n >= 1, a - n \in Nat, NEW c \in Nat, NEW e \in Nat, e <= c + n
  PROVE  (a - n) * RecordCharge + e * IndexCharge + CheckpointCharge <= a * RecordCharge + c * IndexCharge
<1>1. PICK m \in Nat : a = m + n
  <2>1. a = (a - n) + n
    OBVIOUS
  <2> QED BY <2>1
<1>2. a - n = m
  BY <1>1
<1>3. /\ (m + n) * RecordCharge = m * RecordCharge + n * RecordCharge
      /\ (c + n) * IndexCharge = c * IndexCharge + n * IndexCharge
      /\ (IndexCharge + CheckpointCharge) * n = IndexCharge * n + CheckpointCharge * n
  BY LimitTypes, Product
<1>4. e * IndexCharge <= (c + n) * IndexCharge
  BY LimitTypes, Grows
<1>5. (IndexCharge + CheckpointCharge) * n <= RecordCharge * n
  BY LimitTypes, Grows
<1>6. 1 * CheckpointCharge <= n * CheckpointCharge
  BY LimitTypes, Grows
<1>7. IndexCharge * n = n * IndexCharge /\ CheckpointCharge * n = n * CheckpointCharge /\ RecordCharge * n = n * RecordCharge
  BY LimitTypes, Z3
<1>8. /\ m * RecordCharge \in Nat /\ n * RecordCharge \in Nat /\ c * IndexCharge \in Nat
      /\ n * IndexCharge \in Nat /\ n * CheckpointCharge \in Nat /\ e * IndexCharge \in Nat
  BY LimitTypes, Grows
<1>9. PICK p, q, r, s, t, v :
        /\ p = m * RecordCharge /\ q = n * RecordCharge /\ r = c * IndexCharge
        /\ s = n * IndexCharge /\ t = n * CheckpointCharge /\ v = e * IndexCharge
  OBVIOUS
<1>10. p + v + CheckpointCharge <= (p + q) + r
  <2>1. v <= r + s
    BY <1>3, <1>4, <1>9
  <2>2. s + t <= q
    BY <1>3, <1>5, <1>7, <1>9
  <2>3. CheckpointCharge <= t
    BY <1>6, <1>9, LimitTypes
  <2> QED BY <1>8, <1>9, <2>1, <2>2, <2>3, LimitTypes
<1> QED BY <1>1, <1>2, <1>3, <1>9, <1>10

\* So a publication needs no room.
LEMMA RoomPublish ==
  ASSUME NEW K, NEW C, NEW I, NEW cp \in BOOLEAN, Room(K, C, I, cp), NEW B \in SUBSET K, B # {}
  PROVE  Room(K \ B, C, I \cup operationsIn(B), TRUE)
<1>1. IsFiniteSet(K) /\ IsFiniteSet(C) /\ IsFiniteSet(I)
  BY DEF Room
<1>2. PICK a, b, c, n, e : /\ a = Cardinality(K) /\ b = Cardinality(C) /\ c = Cardinality(I)
                           /\ n = Cardinality(B) /\ e = Cardinality(I \cup operationsIn(B))
  OBVIOUS
<1>3. IsFiniteSet(B) /\ n \in Nat /\ n >= 1
  <2>1. IsFiniteSet(B) /\ n \in Nat
    BY <1>1, <1>2, FS_Subset, FS_CardinalityType
  <2>2. n # 0
    BY <1>2, <2>1, FS_EmptySet
  <2> QED BY <2>1, <2>2
<1>4. a \in Nat /\ b \in Nat /\ c \in Nat
  BY <1>1, <1>2, FS_CardinalityType
<1>5. IsFiniteSet(K \ B) /\ Cardinality(K \ B) = a - n /\ a - n \in Nat
  <2>1. K \cap B = B
    OBVIOUS
  <2>2. IsFiniteSet(K \ B) /\ Cardinality(K \ B) = a - n
    BY SMTT(30), <1>1, <1>2, <2>1, FS_Difference
  <2> QED BY <2>2, FS_CardinalityType
<1>6. IsFiniteSet(I \cup operationsIn(B)) /\ e \in Nat /\ e <= c + n
  <2>1. IsFiniteSet(operationsIn(B)) /\ Cardinality(operationsIn(B)) <= n /\ Cardinality(operationsIn(B)) \in Nat
    BY <1>2, <1>3, FiniteOperations, FS_CardinalityType
  <2>2. IsFiniteSet(I \cup operationsIn(B)) /\ e \in Nat /\ e <= c + Cardinality(operationsIn(B))
    BY <1>1, <1>2, <2>1, UnionSize
  <2> QED BY <1>3, <1>4, <2>1, <2>2
<1>7. (a - n) * RecordCharge + e * IndexCharge + CheckpointCharge <= a * RecordCharge + c * IndexCharge
  BY <1>3, <1>4, <1>5, <1>6, Freed
<1>8. /\ (a - n) * RecordCharge \in Nat /\ e * IndexCharge \in Nat /\ a * RecordCharge \in Nat
      /\ c * IndexCharge \in Nat /\ b * ReservedBytes \in Nat
  BY <1>4, <1>5, <1>6, LimitTypes, Grows
<1>9. PICK p, q, r, s, t : /\ p = (a - n) * RecordCharge /\ q = e * IndexCharge /\ r = a * RecordCharge
                           /\ s = c * IndexCharge /\ t = b * ReservedBytes
  OBVIOUS
<1>10. r + t + s + (IF cp THEN CheckpointCharge ELSE 0) + Headroom <= MaxBytes
  BY <1>2, <1>9 DEF Room
<1>11. p + t + q + CheckpointCharge + Headroom <= MaxBytes
  BY <1>7, <1>8, <1>9, <1>10, LimitTypes
<1>12. b <= MaxReservations /\ a + b <= MaxPendingRecords
  BY <1>2 DEF Room
<1>13. (a - n) + b <= MaxPendingRecords
  BY <1>3, <1>4, <1>5, <1>12, LimitTypes
<1>14. PICK S, T : S = I \cup operationsIn(K \cup C) /\ T = (I \cup operationsIn(B)) \cup operationsIn((K \ B) \cup C)
  OBVIOUS
<1>15. S = T
  BY <1>14 DEF operationsIn
<1>16. Cardinality(T) <= MaxOperationKeys
  BY <1>14, <1>15 DEF Room
<1>17. p + t + q + (IF TRUE THEN CheckpointCharge ELSE 0) + Headroom <= MaxBytes
  BY <1>11
<1> QED BY <1>1, <1>2, <1>5, <1>6, <1>9, <1>12, <1>13, <1>14, <1>16, <1>17 DEF Room

\* The parts of what fits.
LEMMA LimitsOf ==
  ASSUME NEW d, NEW K, K = kept(d), NEW C, C = DOMAIN d.reservations \ K,
         NEW I, I = DOMAIN settled(d).indexed, NEW cp \in BOOLEAN, cp <=> InFlight(d) \/ Exists(d, "checkpoint")
  PROVE  Limits(d) <=> Room(K, C, I, cp)
<1>1. cp = (InFlight(d) \/ Exists(d, "checkpoint"))
  BY DEF InFlight, Exists
<1> QED BY <1>1 DEF Limits

\* What fits depends on the records, the checkpoint and the transaction.
LEMMA LimitsParts ==
  ASSUME NEW d, NEW e, d.records = e.records, d.checkpoint = e.checkpoint, d.publication = e.publication
  PROVE  /\ kept(e) = kept(d) /\ settled(e) = settled(d)
         /\ InFlight(e) = InFlight(d) /\ Exists(e, "checkpoint") = Exists(d, "checkpoint")
<1>1. /\ InFlight(e) = InFlight(d) /\ Exists(e, "checkpoint") = Exists(d, "checkpoint")
      /\ transaction(e) = transaction(d) /\ checkpointOf(e) = checkpointOf(d)
  BY DEF InFlight, Exists, transaction, Only, checkpointOf
<1>2. batchOf(e) = batchOf(d)
  BY <1>1 DEF batchOf
<1>3. replays(e, transaction(e)) = replays(d, transaction(d))
  BY <1>1 DEF replays
<1>4. checkpointAfter(e, batchOf(e)) = checkpointAfter(d, batchOf(d))
  BY <1>1, <1>2 DEF checkpointAfter
<1> QED BY <1>1, <1>2, <1>3, <1>4 DEF kept, settled

\* What is done of the writes when nothing is.
LEMMA RoomNow ==
  ASSUME NEW d, IsDirectory(d), NEW ws, RoomSafe(d, ws)
  PROVE  Limits(d)
<1>1. Closed(ws, {}) /\ {} \in SUBSET pending(ws)
  BY DEF Closed
<1> QED BY <1>1, AfterNothing DEF RoomSafe

\* Writes that add no record, no reservation and no transaction need no room.
Lean(Q) ==
  \A v \in Q : /\ v.file \notin {"records", "checkpoint", "publication"}
               /\ v.file = "reservations" => v.content = << >>

\* They leave room wherever the writes stop.
LEMMA LeanRoom ==
  ASSUME NEW d, IsDirectory(d), Limits(d), NEW Q, Lean(Q)
  PROVE  Limits(after(d, Q))
<1>1. PICK e : e = after(d, Q)
  OBVIOUS
<1>2. d.records = e.records /\ d.checkpoint = e.checkpoint /\ d.publication = e.publication
  BY <1>1, AfterUntouched DEF Lean, Files
<1>3. /\ kept(e) = kept(d) /\ settled(e) = settled(d)
      /\ InFlight(e) = InFlight(d) /\ Exists(e, "checkpoint") = Exists(d, "checkpoint")
  BY <1>2, LimitsParts
<1>4. DOMAIN e.reservations \subseteq DOMAIN d.reservations
  <2>1. "reservations" \in Files /\ \A v \in Q : v.file = "reservations" => v.content = << >>
    BY DEF Files, Lean
  <2> QED BY <1>1, <2>1, AfterRemoves
<1>5. PICK K, C, D, I, cp : /\ K = kept(d) /\ C = DOMAIN d.reservations \ K /\ D = DOMAIN e.reservations \ K
                            /\ I = DOMAIN settled(d).indexed /\ cp = (InFlight(d) \/ Exists(d, "checkpoint"))
  OBVIOUS
<1>6. Room(K, C, I, cp) /\ D \in SUBSET C /\ cp \in BOOLEAN
  BY <1>4, <1>5, LimitsOf DEF InFlight, Exists
<1>7. Room(K, D, I, cp)
  BY <1>6, RoomLess
<1>8. Limits(e)
  BY <1>3, <1>5, <1>6, <1>7, LimitsOf
<1> QED BY <1>1, <1>8

\* Such queues.
LEMMA LeanSafe ==
  ASSUME NEW d, IsDirectory(d), Limits(d), NEW ws, Lean(pending(ws))
  PROVE  RoomSafe(d, ws)
<1>1. ASSUME NEW Q \in SUBSET pending(ws) PROVE Limits(after(d, Q))
  <2>1. Lean(Q)
    BY DEF Lean
  <2> QED BY <2>1, LeanRoom
<1> QED BY <1>1 DEF RoomSafe

\* The writes of one list of stages and then another.
LEMMA PendingConcat ==
  ASSUME NEW S, NEW us \in Seq(S), NEW ws \in Seq(S), NEW v \in pending(us \o ws)
  PROVE  v \in pending(us) \/ v \in pending(ws)
<1>1. PICK k \in DOMAIN (us \o ws) : v \in (us \o ws)[k]
  BY DEF pending
<1>2. /\ Len(us) \in Nat /\ DOMAIN us = 1..Len(us) /\ Len(ws) \in Nat /\ DOMAIN ws = 1..Len(ws)
      /\ DOMAIN (us \o ws) = 1..(Len(us) + Len(ws))
  OBVIOUS
<1>3. CASE k <= Len(us)
  <2>1. k \in DOMAIN us /\ (us \o ws)[k] = us[k]
    BY <1>2, <1>3
  <2> QED BY <1>1, <2>1 DEF pending
<1>4. CASE k > Len(us)
  <2>1. k - Len(us) \in DOMAIN ws /\ (us \o ws)[k] = ws[k - Len(us)]
    BY <1>2, <1>4
  <2> QED BY <1>1, <2>1 DEF pending
<1> QED BY <1>1, <1>2, <1>3, <1>4

\* What ends a mutation or a rebuild.
LEMMA FinishPending ==
  ASSUME NEW ws, Queue(ws), NEW u
  PROVE  \A v \in pending(ws \o <<only("usage", u), drop("marker")>>) :
           v \in pending(ws) \/ v.file \in {"marker", "usage"}
<1>1. PICK b, c : b = only("usage", u) /\ c = drop("marker")
  OBVIOUS
<1>2. (\A v \in b : v.file = "usage") /\ (\A v \in c : v.file = "marker")
  BY <1>1 DEF only, drop, put, remove
<1>3. PICK S : S = (SUBSET pending(ws)) \cup {b, c}
  OBVIOUS
<1>4. ws \in Seq(S) /\ <<b, c>> \in Seq(S)
  BY <1>3 DEF Queue
<1>5. \A v \in pending(<<b, c>>) : v.file \in {"marker", "usage"}
  BY <1>2 DEF pending
<1> QED BY <1>1, <1>4, <1>5, PendingConcat

\* The writes of a mutation.
LEMMA MutationPending ==
  ASSUME NEW ws, Queue(ws), NEW u
  PROVE  \A v \in pending(mutation(ws, u)) : v \in pending(ws) \/ v.file \in {"marker", "usage"}
<1>1. PICK a, b, c : a = marked /\ b = only("usage", u) /\ c = drop("marker")
  OBVIOUS
<1>2. \A v \in a : v.file = "marker"
  BY <1>1 DEF marked, only, put
<1>3. PICK S : S = (SUBSET pending(ws)) \cup {a, b, c}
  OBVIOUS
<1>4. ws \in Seq(S) /\ <<a>> \in Seq(S) /\ <<b, c>> \in Seq(S)
  BY <1>3 DEF Queue
<1>5. ws \o <<b, c>> \in Seq(S) /\ mutation(ws, u) = <<a>> \o (ws \o <<b, c>>)
  BY <1>1, <1>4 DEF mutation
<1>6. \A v \in pending(<<a>>) : v.file = "marker"
  BY <1>2 DEF pending
<1>7. \A v \in pending(ws \o <<b, c>>) : v \in pending(ws) \/ v.file \in {"marker", "usage"}
  BY <1>1, FinishPending
<1> QED BY <1>4, <1>5, <1>6, <1>7, PendingConcat

\* Without a transaction, what has room is what the usage counts.
LEMMA UsageSizes ==
  ASSUME NEW d, Recoverable(d), ~InFlight(d), NEW K, K = kept(d), NEW C, C = DOMAIN d.reservations \ K,
         NEW I, I = DOMAIN settled(d).indexed, NEW u, u = accountedUsage(d)
  PROVE  /\ u.records = Cardinality(K) /\ u.reservations = Cardinality(C) /\ u.keys = Cardinality(I)
         /\ u.used = Cardinality(K) * RecordCharge + Cardinality(I) * IndexCharge
                       + (IF Exists(d, "checkpoint") THEN CheckpointCharge ELSE 0)
                       + charge(d, "descriptor", DescriptorCharge)
         /\ K = DOMAIN d.records /\ I = DOMAIN d.index
<1>1. K = DOMAIN d.records /\ I = DOMAIN d.index
  BY NotInFlight
<1>2. C = DOMAIN d.reservations \ settledReservations(d)
  BY <1>1 DEF settledReservations
<1> QED BY <1>1, <1>2 DEF accountedUsage, charge

\* With a reservation that Reserve has room for.
LEMMA ReserveRoom ==
  ASSUME NEW d, Recoverable(d), TrustedOK(d), ~needsRebuild(d), Limits(d),
         NEW i, i \notin DOMAIN d.reservations, i \notin DOMAIN d.records, NEW t,
         NEW u, u = usageOf(d), u.records + u.reservations < MaxPendingRecords,
         u.reservations < MaxReservations,
         u.keys + u.records + u.reservations < MaxOperationKeys \/ i.operation \in DOMAIN d.index,
         occupied(u) + ReservedBytes + Headroom <= MaxBytes,
         NEW xs, \A v \in pending(xs) : v = put("reservations", i, t) \/ v.file \in {"marker", "usage"}
  PROVE  RoomSafe(d, xs)
<1>1. IsDirectory(d) /\ ~InFlight(d) /\ u = accountedUsage(d)
  BY TrustedFacts
<1>2. PICK K, C, I, cp : /\ K = kept(d) /\ C = DOMAIN d.reservations \ K /\ I = DOMAIN settled(d).indexed
                         /\ cp = Exists(d, "checkpoint")
  OBVIOUS
<1>3. cp \in BOOLEAN /\ Room(K, C, I, cp)
  <2>1. cp \in BOOLEAN
    BY <1>2 DEF Exists
  <2> QED BY <1>1, <1>2, <2>1, LimitsOf
<1>4. PICK a, b, c, h : /\ a = Cardinality(K) /\ b = Cardinality(C) /\ c = Cardinality(I)
                        /\ h = charge(d, "descriptor", DescriptorCharge)
  OBVIOUS
<1>5. a \in Nat /\ b \in Nat /\ c \in Nat /\ h \in Nat
  <2>1. h \in Nat
    BY <1>4, LimitTypes DEF charge
  <2> QED BY <1>3, <1>4, <2>1, RoomTypes
<1>6. /\ u.records = a /\ u.reservations = b /\ u.keys = c
      /\ u.used = a * RecordCharge + c * IndexCharge + (IF cp THEN CheckpointCharge ELSE 0) + h
      /\ K = DOMAIN d.records /\ I = DOMAIN d.index
  BY <1>1, <1>2, <1>4, UsageSizes
<1>7. a * RecordCharge \in Nat /\ c * IndexCharge \in Nat /\ b * ReservedBytes \in Nat
  BY <1>5, LimitTypes, Grows
<1>8. a * RecordCharge + b * ReservedBytes + c * IndexCharge
         + (IF cp THEN CheckpointCharge ELSE 0) + ReservedBytes + Headroom <= MaxBytes
  <2>1. PICK x, y, z : x = a * RecordCharge /\ y = c * IndexCharge /\ z = b * ReservedBytes
    OBVIOUS
  <2>2. (x + y + (IF cp THEN CheckpointCharge ELSE 0) + h) + z + ReservedBytes + Headroom <= MaxBytes
    BY <1>6, <2>1 DEF occupied
  <2>3. x + z + y + (IF cp THEN CheckpointCharge ELSE 0) + ReservedBytes + Headroom <= MaxBytes
    BY <1>3, <1>5, <1>7, <2>1, <2>2, LimitTypes
  <2> QED BY <2>1, <2>3
<1>9. i \notin C /\ i \notin K
  BY <1>2, <1>6
<1>10. a + b < MaxPendingRecords /\ b < MaxReservations /\ (i.operation \in I \/ c + a + b < MaxOperationKeys)
  BY <1>6
<1>11. Room(K, C \cup {i}, I, cp)
  BY <1>3, <1>4, <1>8, <1>9, <1>10, RoomReserve
<1>12. ASSUME NEW Q \in SUBSET pending(xs) PROVE Limits(after(d, Q))
  <2>1. PICK e : e = after(d, Q)
    OBVIOUS
  <2>2. \A v \in Q : v.file \in {"reservations", "marker", "usage"}
    BY DEF put
  <2>3. d.records = e.records /\ d.checkpoint = e.checkpoint /\ d.publication = e.publication
    BY <1>1, <2>1, <2>2, AfterUntouched DEF Files
  <2>4. /\ kept(e) = K /\ settled(e) = settled(d) /\ InFlight(e) = InFlight(d)
        /\ Exists(e, "checkpoint") = Exists(d, "checkpoint")
    BY <1>2, <2>3, LimitsParts
  <2>5. ASSUME NEW k \in DOMAIN e.reservations PROVE k \in DOMAIN d.reservations \/ k = i
    <3>1. k \in DOMAIN d.reservations \/ \E v \in Q : puts(v, "reservations", k)
      BY <2>1, AfterKeys DEF Files
    <3>2. ASSUME NEW v \in Q, puts(v, "reservations", k) PROVE k = i
      <4>1. v = put("reservations", i, t)
        BY <3>2 DEF puts
      <4> QED BY <3>2, <4>1, WrittenKinds
    <3> QED BY <3>1, <3>2
  <2>6. PICK D : D = DOMAIN e.reservations \ K
    OBVIOUS
  <2>7. D \in SUBSET (C \cup {i})
    BY <1>2, <2>5, <2>6
  <2>8. Room(K, D, I, cp)
    BY <1>3, <1>11, <2>7, RoomLess
  <2>9. Limits(e)
    <3>1. cp <=> InFlight(e) \/ Exists(e, "checkpoint")
      BY <1>1, <1>2, <2>4, Zenon
    <3>2. K = kept(e) /\ I = DOMAIN settled(e).indexed
      BY <1>2, <2>4
    <3> QED BY <1>3, <2>6, <2>8, <3>1, <3>2, LimitsOf
  <2> QED BY <2>1, <2>9
<1> QED BY <1>12 DEF RoomSafe

\* With the receipt that it was reserved for.
LEMMA AppendRoom ==
  ASSUME NEW d, Recoverable(d), ~InFlight(d), Limits(d),
         NEW i \in DOMAIN d.reservations, i \notin DOMAIN d.records, NEW r, NEW s,
         NEW xs, \A v \in pending(xs) :
           \/ v = put("records", i, [receipt |-> r, sequence |-> s])
           \/ v.file \in {"sequences", "marker", "usage"} \/ v = remove("reservations", i)
  PROVE  RoomSafe(d, xs)
<1>1. IsDirectory(d)
  BY DEF Recoverable
<1>2. PICK K, C, I, cp : /\ K = kept(d) /\ C = DOMAIN d.reservations \ K /\ I = DOMAIN settled(d).indexed
                         /\ cp = Exists(d, "checkpoint")
  OBVIOUS
<1>3. cp \in BOOLEAN /\ Room(K, C, I, cp)
  <2>1. cp \in BOOLEAN
    BY <1>2 DEF Exists
  <2> QED BY <1>2, <2>1, LimitsOf
<1>4. K = DOMAIN d.records
  BY <1>2, NotInFlight
<1>5. i \in C /\ i \notin K
  BY <1>2, <1>4
<1>6. Room(K \cup {i}, C \ {i}, I, cp)
  BY <1>3, <1>5, RoomAppend
<1>7. PICK w : w = put("records", i, [receipt |-> r, sequence |-> s])
  OBVIOUS
<1>8. ASSUME NEW Q \in SUBSET pending(xs) PROVE Limits(after(d, Q))
  <2>1. PICK e : e = after(d, Q)
    OBVIOUS
  <2>2. \A v \in Q : /\ v.file \notin {"checkpoint", "publication"}
                     /\ v.file = "reservations" => v.content = << >>
                     /\ v.file = "records" => v = w
    BY <1>7 DEF put, remove
  <2>3. d.checkpoint = e.checkpoint /\ d.publication = e.publication
    BY <1>1, <2>1, <2>2, AfterUntouched DEF Files
  <2>4. /\ checkpointOf(e) = checkpointOf(d) /\ ~InFlight(e) /\ Exists(e, "checkpoint") = Exists(d, "checkpoint")
    BY <2>3 DEF InFlight, Exists, checkpointOf, Only
  <2>5. settled(e) = settled(d) /\ kept(e) = DOMAIN e.records
    BY <2>4 DEF settled, kept, batchOf
  <2>6. DOMAIN e.reservations \subseteq DOMAIN d.reservations
    BY <2>1, <2>2, AfterRemoves DEF Files
  <2>7. CASE w \notin Q
    <3>1. Lean(Q)
      BY <2>2, <2>7 DEF Lean
    <3> QED BY <1>1, <3>1, LeanRoom
  <2>8. CASE w \in Q
    <3>1. ASSUME NEW k PROVE k \in DOMAIN e.records <=> k \in DOMAIN d.records \/ k = i
      <4>1. k \in DOMAIN e.records <=>
              /\ ~\E v \in Q : removes(v, "records", k)
              /\ k \in DOMAIN d.records \/ \E v \in Q : puts(v, "records", k)
        BY <2>1, AfterKeys DEF Files
      <4>2. \A v \in Q : (puts(v, "records", k) => v = w) /\ ~removes(v, "records", k)
        <5>1. ~removes(w, "records", k)
          BY <1>7, WrittenKinds
        <5> QED BY <2>2, <5>1 DEF puts, removes
      <4>3. puts(w, "records", k) <=> k = i
        BY <1>7, WrittenKinds
      <4> QED BY <2>8, <4>1, <4>2, <4>3
    <3>2. kept(e) = K \cup {i}
      BY <1>4, <2>5, <3>1
    <3>3. PICK D : D = DOMAIN e.reservations \ (K \cup {i})
      OBVIOUS
    <3>4. D \in SUBSET (C \ {i})
      BY <1>2, <2>6, <3>3
    <3>5. Room(K \cup {i}, D, I, cp)
      BY <1>3, <1>6, <3>4, RoomLess
    <3>6. Limits(e)
      <4>1. cp <=> InFlight(e) \/ Exists(e, "checkpoint")
        BY <1>2, <2>4, Zenon
      <4>2. I = DOMAIN settled(e).indexed
        BY <1>2, <2>5
      <4> QED BY <1>3, <3>2, <3>3, <3>5, <4>1, <4>2, LimitsOf
    <3> QED BY <2>1, <3>6
  <2> QED BY <2>7, <2>8
<1> QED BY <1>8 DEF RoomSafe

\* What fits, by the files it depends on.
LEMMA SameLimits ==
  ASSUME NEW d, Limits(d), NEW e, d.records = e.records, d.checkpoint = e.checkpoint,
         d.publication = e.publication, d.reservations = e.reservations
  PROVE  Limits(e)
<1>1. /\ kept(e) = kept(d) /\ settled(e) = settled(d)
      /\ InFlight(e) = InFlight(d) /\ Exists(e, "checkpoint") = Exists(d, "checkpoint")
  BY LimitsParts
<1>2. PICK K, C, I, cp : /\ K = kept(d) /\ C = DOMAIN d.reservations \ K /\ I = DOMAIN settled(d).indexed
                         /\ cp = (InFlight(d) \/ Exists(d, "checkpoint"))
  OBVIOUS
<1>3. cp \in BOOLEAN /\ (cp <=> InFlight(d) \/ Exists(d, "checkpoint"))
  BY <1>2
<1>4. Room(K, C, I, cp)
  BY <1>2, <1>3, LimitsOf
<1>5. cp <=> InFlight(e) \/ Exists(e, "checkpoint")
  BY <1>1, <1>3, Zenon
<1>6. K = kept(e) /\ C = DOMAIN e.reservations \ K /\ I = DOMAIN settled(e).indexed
  BY <1>1, <1>2
<1> QED BY <1>3, <1>4, <1>5, <1>6, LimitsOf

\* While a transaction is applied.
LEMMA AdvancingRoom ==
  ASSUME NEW d, Recoverable(d), InFlight(d), Limits(d), NEW e, Advancing(d, e),
         e.reservations = d.reservations
  PROVE  Limits(e)
<1>1. InFlight(e) /\ settled(e) = settled(d) /\ kept(e) = kept(d)
  BY AdvancingParts
<1>2. PICK K, C, I : K = kept(d) /\ C = DOMAIN d.reservations \ K /\ I = DOMAIN settled(d).indexed
  OBVIOUS
<1>3. Room(K, C, I, TRUE)
  BY <1>2, LimitsOf
<1>4. K = kept(e) /\ C = DOMAIN e.reservations \ K /\ I = DOMAIN settled(e).indexed
  BY <1>1, <1>2
<1> QED BY <1>1, <1>3, <1>4, LimitsOf

\* Once it was applied and removed.
LEMMA CompletedRoom ==
  ASSUME NEW d, Recoverable(d), InFlight(d), Limits(d), NEW f, Completed(d, f), IsDirectory(f),
         f.reservations = d.reservations
  PROVE  Limits(f)
<1>1. settled(f) = settled(d) /\ kept(f) = kept(d)
  BY CompletedRecoverable
<1>2. PICK K, C, I, cp : /\ K = kept(d) /\ C = DOMAIN d.reservations \ K /\ I = DOMAIN settled(d).indexed
                         /\ cp = (InFlight(f) \/ Exists(f, "checkpoint"))
  OBVIOUS
<1>3. cp \in BOOLEAN /\ (cp <=> InFlight(f) \/ Exists(f, "checkpoint"))
  BY <1>2
<1>4. Room(K, C, I, TRUE)
  BY <1>2, LimitsOf
<1>5. Room(K, C, I, cp)
  BY <1>3, <1>4, RoomLess
<1>6. K = kept(f) /\ C = DOMAIN f.reservations \ K /\ I = DOMAIN settled(f).indexed
  BY <1>1, <1>2
<1> QED BY <1>3, <1>5, <1>6, LimitsOf

\* Once the transaction of a frozen batch is written.
LEMMA TransactedRoom ==
  ASSUME NEW d, NEW b, Frozen(d, b), Limits(d), NEW p, Transacts(d, p, b), p.reservations = d.reservations
  PROVE  Limits(p)
<1>1. PICK R, c, cp, x, n : /\ R = d.records /\ c = checkpointOf(d) /\ cp = checkpointAfter(d, b)
                            /\ x = c.sequence /\ n = Len(b)
  OBVIOUS
<1>2. TransactionParts(d, b, p, R, c, cp)
  BY <1>1, TransactedParts
<1>3. FrozenParts(d, b, R, x, n)
  BY <1>1, FrozenBatch
<1>4. DOMAIN cp.indexed = DOMAIN c.indexed \cup operationsOf(b)
  BY <1>1, TransactedIndex
<1>5. kept(d) = DOMAIN R /\ settled(d) = c /\ settledReservations(d) = {} /\ ~InFlight(d)
  BY <1>1, TrustedFacts DEF Frozen
<1>6. PICK K, C, I, cq : /\ K = kept(d) /\ C = DOMAIN d.reservations \ K /\ I = DOMAIN settled(d).indexed
                         /\ cq = (InFlight(d) \/ Exists(d, "checkpoint"))
  OBVIOUS
<1>7. cq \in BOOLEAN /\ (cq <=> InFlight(d) \/ Exists(d, "checkpoint"))
  BY <1>6
<1>8. Room(K, C, I, cq)
  BY <1>6, <1>7, LimitsOf
<1>9. PICK B : B = {b[k].identity : k \in DOMAIN b}
  OBVIOUS
<1>10. B \in SUBSET K
  BY <1>3, <1>5, <1>6, <1>9 DEF FrozenParts
<1>11. B # {}
  <2>1. x + 1 \in x + 1 .. x + n
    BY <1>3 DEF FrozenParts
  <2>2. PICK k \in DOMAIN b : b[k].sequence = x + 1
    BY <1>3, <2>1 DEF FrozenParts
  <2> QED BY <1>9, <2>2
<1>12. Room(K \ B, C, I \cup operationsIn(B), TRUE)
  BY <1>7, <1>8, <1>10, <1>11, RoomPublish
<1>13. operationsIn(B) = operationsOf(b)
  BY <1>9 DEF operationsIn, operationsOf
<1>14. K \ B = kept(p)
  <2>1. ASSUME NEW i PROVE i \in K \ B <=> i \in kept(p)
    BY <1>2, <1>5, <1>6, <1>9 DEF TransactionParts
  <2> QED BY <2>1
<1>15. C = DOMAIN p.reservations \ kept(p)
  <2>1. DOMAIN d.reservations \cap K = {}
    BY <1>1, <1>5, <1>6 DEF settledReservations
  <2> QED BY <1>6, <1>14, <2>1
<1>16. I \cup operationsIn(B) = DOMAIN settled(p).indexed
  BY <1>2, <1>4, <1>5, <1>6, <1>13 DEF TransactionParts
<1>17. InFlight(p)
  BY DEF Transacts
<1>18. PICK L, J : L = kept(p) /\ J = DOMAIN settled(p).indexed
  OBVIOUS
<1>19. Room(L, C, J, TRUE) /\ C = DOMAIN p.reservations \ L
  BY <1>12, <1>14, <1>15, <1>16, <1>18
<1> QED BY <1>17, <1>18, <1>19, LimitsOf

\* The writes of a transaction, with other writes of the marker and the usage.
LEMMA ApplyingRoom ==
  ASSUME NEW p, Recoverable(p), InFlight(p), Limits(p), NEW tx, tx = transaction(p),
         NEW T, ApplyPart(p, tx, T), NEW e, e.records = after(p, T).records,
         e.checkpoint = after(p, T).checkpoint, e.publication = after(p, T).publication,
         e.reservations = p.reservations
  PROVE  Limits(e)
<1>1. PICK g : g = after(p, T)
  OBVIOUS
<1>2. Advancing(p, g)
  BY <1>1, ApplyAdvances
<1>3. g.reservations = p.reservations
  <2>1. \A v \in T : v.file # "reservations"
    BY ApplyUntouched DEF ApplyPart
  <2>2. IsDirectory(p)
    BY DEF Recoverable
  <2> QED BY <1>1, <2>1, <2>2, AfterUntouched DEF Files
<1>4. Limits(g)
  BY <1>2, <1>3, AdvancingRoom
<1> QED BY <1>1, <1>3, <1>4, SameLimits

\* The same once the transaction was applied.
LEMMA AppliedRoom ==
  ASSUME NEW p, Recoverable(p), InFlight(p), Limits(p), NEW tx, tx = transaction(p),
         NEW g, g = after(p, applyWrites(p, tx)), NEW f, IsDirectory(f), ~InFlight(f),
         f.records = g.records, f.sequences = g.sequences, f.index = g.index,
         f.checkpoint = g.checkpoint, f.descriptor = g.descriptor, f.reservations = p.reservations
  PROVE  Limits(f)
<1>1. Completed(p, f)
  BY ApplyCompletes
<1> QED BY <1>1, CompletedRoom

\* The writes of a replay: the marker, the transaction's writes, its removal.
LEMMA ReplayQueue ==
  ASSUME NEW d, Recoverable(d), InFlight(d), NEW tx, tx = transaction(d),
         NEW M, M = theMarker, NEW R, R = remove("publication", "only"), NEW xs, xs = replayOf(d)
  PROVE  /\ Queue(xs) /\ pending(xs) = {M} \cup (applyWrites(d, tx) \cup {R})
         /\ \A Q \in SUBSET pending(xs) : Closed(xs, Q) =>
              /\ ApplyPart(d, tx, Q \cap applyWrites(d, tx))
              /\ R \in Q => applyWrites(d, tx) \subseteq Q
<1>1. PICK us, ws : us = applyStages(d, tx) /\ ws = us \o <<{R}>>
  OBVIOUS
<1>2. xs = <<{M}>> \o ws
  BY <1>1 DEF replayOf, drop, marked, only, theMarker
<1>3. IsBatch(tx.batch)
  BY DEF Recoverable, TransactionOK, batchOf
<1>4. /\ Queue(us) /\ pending(us) = applyWrites(d, tx)
      /\ \A Q \in SUBSET pending(us) : Closed(us, Q) => ApplyPart(d, tx, Q)
  BY <1>1, <1>3, ApplyQueue
<1>5. R.file = "publication" /\ IsWrite(R) /\ M.file = "marker" /\ IsWrite(M)
  BY DEF IsWrite, Files, remove, put, theMarker
<1>6. Queue(<<{R}>>) /\ pending(<<{R}>>) = {R} /\ Queue(<<{M}>>) /\ pending(<<{M}>>) = {M}
  BY <1>5, QueueStage, FS_Singleton
<1>7. \A v \in applyWrites(d, tx) : v.file \notin {"usage", "publication", "marker", "reservations"}
  BY ApplyUntouched
<1>8. /\ Queue(ws) /\ pending(ws) = pending(us) \cup {R}
      /\ \A Q : Closed(ws, Q) => Closed(us, Q) /\ (R \in Q => pending(us) \subseteq Q)
  <2>1. \A v \in pending(us), w \in pending(<<{R}>>) : v.file # w.file
    BY <1>4, <1>5, <1>6, <1>7
  <2>2. /\ Queue(us \o <<{R}>>) /\ pending(us \o <<{R}>>) = pending(us) \cup pending(<<{R}>>)
        /\ \A Q : Closed(us \o <<{R}>>, Q) =>
             /\ Closed(us, Q) /\ Closed(<<{R}>>, Q)
             /\ (\E w \in pending(<<{R}>>) : w \in Q) => pending(us) \subseteq Q
    BY <1>4, <1>6, <2>1, TwoQueues
  <2> QED BY <1>1, <1>6, <2>2
<1>9. /\ Queue(xs) /\ pending(xs) = {M} \cup pending(ws) /\ \A Q : Closed(xs, Q) => Closed(ws, Q)
  <2>1. \A v \in pending(<<{M}>>), w \in pending(ws) : v.file # w.file
    BY <1>4, <1>5, <1>6, <1>7, <1>8
  <2>2. /\ Queue(<<{M}>> \o ws) /\ pending(<<{M}>> \o ws) = pending(<<{M}>>) \cup pending(ws)
        /\ \A Q : Closed(<<{M}>> \o ws, Q) =>
             /\ Closed(<<{M}>>, Q) /\ Closed(ws, Q)
             /\ (\E w \in pending(ws) : w \in Q) => pending(<<{M}>>) \subseteq Q
    BY <1>6, <1>8, <2>1, TwoQueues
  <2> QED BY <1>2, <1>6, <2>2
<1>10. ASSUME NEW Q \in SUBSET pending(xs), Closed(xs, Q)
       PROVE  /\ ApplyPart(d, tx, Q \cap applyWrites(d, tx))
              /\ R \in Q => applyWrites(d, tx) \subseteq Q
  <2>1. Closed(us, Q) /\ (R \in Q => pending(us) \subseteq Q)
    BY <1>8, <1>9, <1>10
  <2>2. PICK T : T = Q \cap pending(us)
    OBVIOUS
  <2>3. Closed(us, T) /\ T \in SUBSET pending(us)
    BY <2>1, <2>2 DEF Closed, pending
  <2>4. ApplyPart(d, tx, T)
    BY <1>4, <2>3
  <2> QED BY <1>4, <2>1, <2>2, <2>4
<1> QED BY <1>4, <1>8, <1>9, <1>10

\* A replay needs no room.
LEMMA ReplayRoom ==
  ASSUME NEW d, Recoverable(d), Limits(d), NEW xs, xs = replayOf(d)
  PROVE  RoomSafe(d, xs)
<1>0. IsDirectory(d)
  BY DEF Recoverable
<1>1. CASE ~InFlight(d)
  <2>1. xs = <<marked>>
    BY <1>1 DEF replayOf
  <2>2. theMarker.file = "marker" /\ IsWrite(theMarker)
    BY DEF theMarker, put, IsWrite, Files
  <2>3. pending(xs) = {theMarker}
    <3>1. Queue(<<{theMarker}>>) /\ pending(<<{theMarker}>>) = {theMarker}
      BY <2>2, QueueStage, FS_Singleton
    <3>2. marked = {theMarker}
      BY DEF marked, only, theMarker
    <3> QED BY <2>1, <3>1, <3>2
  <2>4. Lean(pending(xs))
    BY <2>2, <2>3 DEF Lean
  <2> QED BY <1>0, <2>4, LeanSafe
<1>2. CASE InFlight(d)
  <2>1. PICK tx, M, R, A : /\ tx = transaction(d) /\ M = theMarker
                           /\ R = remove("publication", "only") /\ A = applyWrites(d, tx)
    OBVIOUS
  <2>2. /\ Queue(xs) /\ pending(xs) = {M} \cup (A \cup {R})
        /\ \A Q \in SUBSET pending(xs) : Closed(xs, Q) =>
             ApplyPart(d, tx, Q \cap A) /\ (R \in Q => A \subseteq Q)
    BY <1>2, <2>1, ReplayQueue
  <2>3. \A v \in A : v.file \notin {"usage", "publication", "marker", "reservations"}
    BY <2>1, ApplyUntouched
  <2>4. M.file = "marker" /\ R.file = "publication"
    BY <2>1 DEF theMarker, put, remove
  <2>5. ASSUME NEW Q \in SUBSET pending(xs), Closed(xs, Q) PROVE Limits(after(d, Q))
    <3>1. PICK e, T : e = after(d, Q) /\ T = Q \cap A
      OBVIOUS
    <3>2. IsFiniteSet(Q) /\ \A w \in Q : IsWrite(w)
      BY <2>2, FS_Subset DEF Queue
    <3>3. IsDirectory(e)
      BY <1>0, <3>1, <3>2, AfterIsDirectory
    <3>4. e.reservations = d.reservations
      <4>1. \A v \in Q : v.file # "reservations"
        BY <2>2, <2>3, <2>4
      <4> QED BY <1>0, <3>1, <4>1, AfterUntouched DEF Files
    <3>5. ASSUME NEW k \in Files, k # "marker", k = "publication" => R \notin Q
          PROVE  e[k] = after(d, T)[k]
      <4>1. \A v : v.file = k => (v \in Q <=> v \in T)
        BY <2>2, <2>4, <3>1, <3>5
      <4> QED BY <3>1, <4>1, AfterAgrees
    <3>6. CASE R \notin Q
      <4>1. ApplyPart(d, tx, T)
        BY <2>2, <2>5, <3>1
      <4>2. /\ e.records = after(d, T).records /\ e.checkpoint = after(d, T).checkpoint
            /\ e.publication = after(d, T).publication
        BY <3>5, <3>6 DEF Files
      <4>3. Limits(e)
        BY <1>2, <2>1, <3>4, <4>1, <4>2, ApplyingRoom
      <4> QED BY <3>1, <4>3
    <3>7. CASE R \in Q
      <4>1. T = A
        BY <2>2, <2>5, <3>1, <3>7
      <4>2. PICK g : g = after(d, T)
        OBVIOUS
      <4>3. /\ e.records = g.records /\ e.sequences = g.sequences /\ e.index = g.index
            /\ e.checkpoint = g.checkpoint /\ e.descriptor = g.descriptor
        BY <3>5, <4>2 DEF Files
      <4>4. ~InFlight(e)
        BY <2>1, <3>1, <3>3, <3>7, OnlyDropped DEF InFlight, SingleFiles
      <4>5. Limits(e)
        BY <1>2, <2>1, <3>3, <3>4, <4>1, <4>2, <4>3, <4>4, AppliedRoom
      <4> QED BY <3>1, <4>5
    <3> QED BY <3>6, <3>7
  <2> QED BY <2>5 DEF RoomSafe
<1> QED BY <1>1, <1>2

\* So does the publication of a frozen batch.
LEMMA PublicationRoom ==
  ASSUME NEW d, NEW b, Frozen(d, b), Limits(d), NEW tx, tx = transactionOf(d, b),
         NEW ws, ws = applyStages(d, tx), NEW u, NEW xs, xs = publicationOf(tx, ws, u)
  PROVE  RoomSafe(d, xs)
<1>1. PICK P, U, R, A : /\ P = put("publication", "only", tx) /\ U = put("usage", "only", u)
                        /\ R = remove("publication", "only") /\ A = applyWrites(d, tx)
  OBVIOUS
<1>2. IsDirectory(d)
  BY DEF Frozen, Recoverable
<1>3. IsBatch(tx.batch)
  <2>1. PICK c, x, n : c = checkpointOf(d) /\ x = c.sequence /\ n = Len(b)
    OBVIOUS
  <2>2. FrozenParts(d, b, d.records, x, n)
    BY <2>1, FrozenBatch
  <2> QED BY <2>2 DEF FrozenParts, transactionOf
<1>4. /\ Queue(ws) /\ pending(ws) = A
      /\ \A Q \in SUBSET pending(ws) : Closed(ws, Q) => ApplyPart(d, tx, Q)
  BY <1>1, <1>3, ApplyQueue
<1>5. \A v \in A : v.file \notin {"usage", "publication", "marker", "reservations"}
  BY <1>1, ApplyUntouched
<1>6. /\ Queue(xs) /\ pending(xs) = ({P} \cup A) \cup ({U} \cup {R})
      /\ \A Q \in SUBSET pending(xs) : Closed(xs, Q) /\ Q # {} =>
           P \in Q /\ (R \in Q => Q = pending(xs)) /\ Closed(ws, Q \cap A)
  <2>1. PublicationQueued(xs, ws, P, U, R)
    BY <1>1, <1>4, <1>5, PublicationQueue
  <2> QED BY <1>4, <2>1 DEF PublicationQueued
<1>7. P.file = "publication" /\ U.file = "usage" /\ R.file = "publication"
  BY <1>1 DEF put, remove
<1>8. PICK p : p = written(d, P)
  OBVIOUS
<1>9. Transacts(d, p, b) /\ IsDirectory(p) /\ p.reservations = d.reservations
  BY <1>1, <1>8, TransactionWritten
<1>10. Recoverable(p) /\ Limits(p)
  BY <1>9, TransactedRecoverable, TransactedRoom
<1>11. InFlight(p) /\ tx = transaction(p) /\ p.checkpoint = d.checkpoint /\ p.descriptor = d.descriptor
  BY <1>9 DEF Transacts
<1>12. /\ applyWrites(p, tx) = A /\ descriptorWrites(p) = descriptorWrites(d)
       /\ checkpointWrites(p, tx) = checkpointWrites(d, tx)
  BY <1>1, <1>11, SameApply
<1>13. ASSUME NEW Q \in SUBSET pending(xs), Closed(xs, Q) PROVE Limits(after(d, Q))
  <2>1. CASE Q = {}
    BY <1>2, <2>1, AfterNothing
  <2>2. CASE Q # {}
    <3>1. PICK e, T : e = after(d, Q) /\ T = Q \cap A
      OBVIOUS
    <3>2. P \in Q /\ (R \in Q => Q = pending(xs)) /\ Closed(ws, T)
      BY <1>6, <1>13, <2>2, <3>1
    <3>3. ApplyPart(p, tx, T)
      <4>1. T \in SUBSET pending(ws)
        BY <1>4, <3>1
      <4>2. ApplyPart(d, tx, T)
        BY <1>4, <3>2, <4>1
      <4> QED BY <1>1, <1>12, <4>2 DEF ApplyPart
    <3>4. after(p, T) = after(d, T \cup {P})
      <4>1. P \notin T /\ \A v \in T : ~agree(v, P)
        BY <1>5, <1>7, <3>1 DEF agree
      <4>2. P.file \in Files
        BY <1>7 DEF Files
      <4> QED BY <1>2, <1>8, <4>1, <4>2, AfterWritten
    <3>5. IsFiniteSet(Q) /\ \A w \in Q : IsWrite(w)
      BY <1>6, FS_Subset DEF Queue
    <3>6. IsDirectory(e)
      BY <1>2, <3>1, <3>5, AfterIsDirectory
    <3>7. e.reservations = p.reservations
      <4>1. \A v \in Q : v.file # "reservations"
        BY <1>5, <1>6, <1>7
      <4> QED BY <1>2, <1>9, <3>1, <4>1, AfterUntouched DEF Files
    <3>8. ASSUME NEW k \in Files, k # "usage", k = "publication" => R \notin Q
          PROVE  e[k] = after(p, T)[k]
      <4>1. \A v : v.file = k => (v \in Q <=> v \in T \cup {P})
        BY <1>6, <1>7, <3>1, <3>2, <3>8
      <4> QED BY SMTT(30), <3>1, <3>4, <4>1, AfterAgrees
    <3>9. CASE R \notin Q
      <4>1. /\ e.records = after(p, T).records /\ e.checkpoint = after(p, T).checkpoint
            /\ e.publication = after(p, T).publication
        BY <3>8, <3>9 DEF Files
      <4>2. Limits(e)
        BY <1>10, <1>11, <3>3, <3>7, <4>1, ApplyingRoom
      <4> QED BY <3>1, <4>2
    <3>10. CASE R \in Q
      <4>1. T = applyWrites(p, tx)
        BY <1>6, <1>12, <3>1, <3>2, <3>10
      <4>2. PICK g : g = after(p, T)
        OBVIOUS
      <4>3. /\ e.records = g.records /\ e.sequences = g.sequences /\ e.index = g.index
            /\ e.checkpoint = g.checkpoint /\ e.descriptor = g.descriptor
        BY <3>8, <4>2 DEF Files
      <4>4. ~InFlight(e)
        BY <1>1, <3>1, <3>6, <3>10, OnlyDropped DEF InFlight, SingleFiles
      <4>5. Limits(e)
        BY <1>10, <1>11, <3>6, <3>7, <4>1, <4>2, <4>3, <4>4, AppliedRoom
      <4> QED BY <3>1, <4>5
    <3> QED BY <3>9, <3>10
  <2> QED BY <2>1, <2>2
<1> QED BY <1>13 DEF RoomSafe

-----------------------------------------------------------------------------
(* The steps keep the room.                                                 *)

RInv == RoomSafe(disk, writes)

\* The disk as it is.
LEMMA RoomHere ==
  ASSUME IInv, RInv
  PROVE  Limits(disk) /\ IsDirectory(disk) /\ Recoverable(disk) /\ TrustedOK(disk)
<1>1. IsDirectory(disk) /\ Good(disk, begun, refs, handed, confirmed)
  BY Quiet DEF IInv
<1> QED BY <1>1, RoomNow DEF RInv, Good

\* Nothing is left to write.
LEMMA RoomRests ==
  ASSUME Limits(disk), IsDirectory(disk), disk' = disk, writes' = << >>
  PROVE  RInv'
<1>1. Lean(pending(<< >>))
  BY NoStages DEF Lean
<1>2. RoomSafe(disk, << >>)
  BY <1>1, LeanSafe
<1> QED BY <1>2 DEF RInv

\* A call has begun to write xs.
LEMMA RoomBegins ==
  ASSUME NEW xs, RoomSafe(disk, xs), disk' = disk, writes' = xs
  PROVE  RInv'
BY DEF RInv

\* A mutation that needs no room.
LEMMA LeanMutation ==
  ASSUME Limits(disk), IsDirectory(disk), NEW ws, Queue(ws), Lean(pending(ws)), NEW u, NEW a,
         begins(mutation(ws, u), a)
  PROVE  RInv'
<1>1. PICK xs : xs = mutation(ws, u)
  OBVIOUS
<1>2. Lean(pending(xs))
  BY <1>1, MutationPending DEF Lean
<1>3. RoomSafe(disk, xs)
  BY <1>2, LeanSafe
<1>4. disk' = disk /\ writes' = xs
  BY <1>1 DEF begins
<1> QED BY <1>3, <1>4, RoomBegins

\* A refused call is only counted.
LEMMA BlocksRoom == ASSUME Limits(disk), IsDirectory(disk), blocks PROVE RInv'
<1>1. CASE returnsNow(NoReply)
  BY <1>1, RoomRests DEF returnsNow
<1>2. CASE begins(mutation(<< >>, [usageOf(disk) EXCEPT !.blocked = @ + 1]), NoReply)
  <2>1. PICK u : u = [usageOf(disk) EXCEPT !.blocked = @ + 1]
    OBVIOUS
  <2>2. Queue(<< >>) /\ Lean(pending(<< >>))
    BY NoStages DEF Lean
  <2>3. begins(mutation(<< >>, u), NoReply)
    BY <1>2, <2>1
  <2> QED BY <2>2, <2>3, LeanMutation
<1> QED BY <1>1, <1>2 DEF blocks

\* A write.
LEMMA WriteRoom ==
  ASSUME NEW d, IsDirectory(d), NEW ws, Queue(ws), RoomSafe(d, ws), NEW k \in DOMAIN ws, NEW w \in ws[k],
         \A j \in DOMAIN ws : j < k => ws[j] = {},
         NEW us, us = [ws EXCEPT ![k] = @ \ {w}], NEW e, e = written(d, w)
  PROVE  RoomSafe(e, us)
<1>1. /\ Queue(us) /\ w \notin pending(us) /\ pending(ws) = pending(us) \cup {w}
      /\ \A Q \in SUBSET pending(us) : Closed(us, Q) =>
           /\ Closed(ws, Q \cup {w})
           /\ \A v \in Q : agree(v, w) => removes(v, w.file, w.key) /\ puts(w, w.file, w.key)
  <2>1. QueueWritten(ws, us, w)
    BY QueueWrite
  <2> QED BY <2>1 DEF QueueWritten
<1>2. w.file \in Files
  BY <1>1 DEF Queue, IsWrite
<1>3. ASSUME NEW Q \in SUBSET pending(us), Closed(us, Q) PROVE Limits(after(e, Q))
  <2>1. w \notin Q /\ \A v \in Q : agree(v, w) => removes(v, w.file, w.key) /\ puts(w, w.file, w.key)
    BY <1>1, <1>3
  <2>2. after(e, Q) = after(d, Q \cup {w})
    BY <1>2, <2>1, AfterWritten
  <2>3. Q \cup {w} \in SUBSET pending(ws) /\ Closed(ws, Q \cup {w})
    BY <1>1, <1>3
  <2> QED BY <2>2, <2>3 DEF RoomSafe
<1> QED BY <1>3 DEF RoomSafe

\* One write of the call in progress.
LEMMA WriteStepRoom == ASSUME IInv, RInv, Write PROVE RInv'
<1>1. PICK k \in DOMAIN writes :
        /\ \A j \in DOMAIN writes : j < k => writes[j] = {}
        /\ \E w \in writes[k] : disk' = written(disk, w) /\ writes' = [writes EXCEPT ![k] = @ \ {w}]
  BY DEF Write
<1>2. PICK w \in writes[k] : disk' = written(disk, w) /\ writes' = [writes EXCEPT ![k] = @ \ {w}]
  BY <1>1
<1>3. IsDirectory(disk) /\ Queue(writes)
  BY DEF IInv, Inv
<1>4. RoomSafe(disk', writes')
  BY <1>1, <1>2, <1>3, WriteRoom DEF RInv
<1> QED BY <1>4 DEF RInv

\* A rebuild begins.
LEMMA RebuildRoom ==
  ASSUME IInv, RInv, NEW p, startsRebuild(p), disk' = disk
  PROVE  RInv'
<1>1. Limits(disk) /\ IsDirectory(disk) /\ Recoverable(disk)
  BY RoomHere
<1>2. Good(disk, begun, refs, handed, confirmed)
  BY Quiet DEF IInv
<1>3. writes' = replayStages \/ writes' = <<marked>>
  BY <1>2, RebuildRefusesForeign
<1>4. CASE writes' = replayStages
  <2>1. PICK xs : xs = replayOf(disk)
    OBVIOUS
  <2>2. writes' = xs
    BY <1>4, <2>1 DEF replayOf, replayStages, InFlight, transaction
  <2>3. RoomSafe(disk, xs)
    BY <1>1, <2>1, ReplayRoom
  <2> QED BY <2>2, <2>3, RoomBegins
<1>5. CASE writes' = <<marked>>
  <2>1. Lean(pending(<<marked>>))
    <3>1. pending(<<marked>>) = {theMarker} /\ theMarker.file = "marker"
      BY <1>2, MarkerSafe DEF theMarker, put
    <3> QED BY <3>1 DEF Lean
  <2>2. RoomSafe(disk, <<marked>>)
    BY <1>1, <2>1, LeanSafe
  <2> QED BY <1>5, <2>2, RoomBegins
<1> QED BY <1>3, <1>4, <1>5

\* The lock is taken, with or without a rebuild.
LEMMA TakeLockRoom == ASSUME IInv, RInv, TakeLock PROVE RInv'
<1>1. disk' = disk
  BY DEF TakeLock
<1>2. CASE needsRebuild(disk)
  <2>1. startsRebuild(release)
    BY <1>2 DEF TakeLock
  <2> QED BY <1>1, <2>1, RebuildRoom
<1>3. CASE ~needsRebuild(disk)
  <2>1. writes' = << >>
    BY <1>3 DEF TakeLock
  <2> QED BY <1>1, <2>1, RoomHere, RoomRests
<1> QED BY <1>2, <1>3

\* The scan removes reservations and adds sequence files.
LEMMA ScanRoom == ASSUME IInv, RInv, Scan PROVE RInv'
<1>1. Limits(disk) /\ IsDirectory(disk) /\ Recoverable(disk)
  BY RoomHere
<1>2. holder = "replaying" /\ nothingLeft /\ disk' = disk
  BY DEF Scan
<1>3. ~InFlight(disk)
  <2>1. after(disk, pending(writes)) = disk
    BY <1>2, Done
  <2>2. HolderOK(holder, writes, disk, disk, reply)
    BY <2>1 DEF IInv, Inv
  <2> QED BY <1>2, <2>2 DEF HolderOK
<1>4. consistent(disk)
  BY <1>1, <1>3, RestIsConsistent
<1>5. PICK ys, u : ys = scanOf(disk) /\ u = accountedUsage(disk)
  OBVIOUS
<1>6. Queue(ys) /\ pending(ys) = missingSequences(disk) \cup removedReservations(disk)
  BY <1>1, <1>3, <1>5, ScanQueue
<1>7. Lean(pending(ys))
  <2>1. /\ \A w \in missingSequences(disk) : w.file = "sequences"
        /\ \A w \in removedReservations(disk) : w.file = "reservations" /\ w.content = << >>
    BY <1>1, <1>3, ScanWrites
  <2> QED BY <1>6, <2>1 DEF Lean
<1>8. \/ writes' = ys \o << >>
      \/ writes' = ys \o <<only("usage", u), drop("marker")>>
      \/ \E some \in SUBSET missingSequences(disk) : writes' = <<some>>
  BY <1>4, <1>5 DEF Scan, scanOf, removedReservations
<1>9. CASE writes' = ys \o << >>
  <2>1. ys \o << >> = ys
    BY <1>6, ConcatEmptySeq DEF Queue
  <2>2. RoomSafe(disk, ys)
    BY <1>1, <1>7, LeanSafe
  <2> QED BY <1>2, <1>9, <2>1, <2>2, RoomBegins
<1>10. CASE writes' = ys \o <<only("usage", u), drop("marker")>>
  <2>1. PICK xs : xs = ys \o <<only("usage", u), drop("marker")>>
    OBVIOUS
  <2>2. Lean(pending(xs))
    BY <1>6, <1>7, <2>1, FinishPending DEF Lean
  <2>3. RoomSafe(disk, xs)
    BY <1>1, <2>2, LeanSafe
  <2> QED BY <1>2, <1>10, <2>1, <2>3, RoomBegins
<1>11. ASSUME NEW some \in SUBSET missingSequences(disk), writes' = <<some>> PROVE RInv'
  <2>1. IsFiniteSet(some) /\ \A w \in some : IsWrite(w) /\ w.file = "sequences"
    BY <1>1, <1>3, ScanWrites, FS_Subset
  <2>2. pending(<<some>>) = some
    BY DEF pending
  <2>3. Lean(pending(<<some>>))
    BY <2>1, <2>2 DEF Lean
  <2>4. RoomSafe(disk, <<some>>)
    BY <1>1, <2>3, LeanSafe
  <2> QED BY <1>2, <1>11, <2>4, RoomBegins
<1> QED BY <1>8, <1>9, <1>10, <1>11

\* Reserve finds the room.
LEMMA ReserveStepRoom == ASSUME IInv, RInv, NEW i \in Identity, Reserve(i) PROVE RInv'
<1>1. /\ Limits(disk) /\ IsDirectory(disk) /\ Recoverable(disk) /\ TrustedOK(disk) /\ ~needsRebuild(disk)
  BY RoomHere, Calls DEF Reserve
<1>2. CASE returnsNow(token(i, disk.reservations[i]))
  BY <1>1, <1>2, RoomRests DEF returnsNow
<1>3. CASE blocks
  BY <1>1, <1>3, BlocksRoom
<1>4. CASE /\ i \notin DOMAIN disk.reservations /\ ~full(i)
           /\ begins(mutation(<<{put("reservations", i, nextToken)}>>, reservedUsage(usageOf(disk))),
                     token(i, nextToken))
  <2>1. i \notin DOMAIN disk.records
    BY DEF Reserve
  <2>2. PICK t, v, w, xs : /\ t = nextToken /\ v = reservedUsage(usageOf(disk)) /\ w = put("reservations", i, t)
                           /\ xs = mutation(<<{w}>>, v)
    OBVIOUS
  <2>3. IsWrite(w)
    BY <2>2 DEF put, IsWrite, Files, SingleFiles
  <2>4. Queue(<<{w}>>) /\ pending(<<{w}>>) = {w}
    BY <2>3, QueueStage, FS_Singleton
  <2>5. \A q \in pending(xs) : q = put("reservations", i, t) \/ q.file \in {"marker", "usage"}
    BY <2>2, <2>4, MutationPending
  <2>6. PICK u : u = usageOf(disk)
    OBVIOUS
  <2>7. u = accountedUsage(disk) /\ ~InFlight(disk)
    BY <1>1, <2>6, TrustedFacts
  <2>8. /\ u.records \in Nat /\ u.reservations \in Nat /\ u.keys \in Nat /\ occupied(u) \in Int
    <3>1. PICK K, C, I, cp, h : /\ K = kept(disk) /\ C = DOMAIN disk.reservations \ K
                                /\ I = DOMAIN settled(disk).indexed /\ cp = (InFlight(disk) \/ Exists(disk, "checkpoint"))
                                /\ h = charge(disk, "descriptor", DescriptorCharge)
      OBVIOUS
    <3>2. cp \in BOOLEAN /\ Room(K, C, I, cp)
      BY <1>1, <3>1, LimitsOf
    <3>3. Cardinality(K) \in Nat /\ Cardinality(C) \in Nat /\ Cardinality(I) \in Nat
      BY <3>2, RoomTypes
    <3>4. h \in Nat
      BY <3>1, LimitTypes DEF charge
    <3>5. /\ u.records = Cardinality(K) /\ u.reservations = Cardinality(C) /\ u.keys = Cardinality(I)
          /\ u.used = Cardinality(K) * RecordCharge + Cardinality(I) * IndexCharge
                        + (IF Exists(disk, "checkpoint") THEN CheckpointCharge ELSE 0) + h
      BY <1>1, <2>7, <3>1, UsageSizes
    <3>6. /\ Cardinality(K) * RecordCharge \in Nat /\ Cardinality(I) * IndexCharge \in Nat
          /\ Cardinality(C) * ReservedBytes \in Nat
      BY <3>3, LimitTypes, Grows
    <3>7. u.used \in Int
      BY <3>4, <3>5, <3>6, LimitTypes
    <3> QED BY <3>3, <3>5, <3>6, <3>7 DEF occupied
  <2>9. /\ u.records + u.reservations < MaxPendingRecords /\ u.reservations < MaxReservations
        /\ u.keys + u.records + u.reservations < MaxOperationKeys \/ i.operation \in DOMAIN disk.index
        /\ occupied(u) + ReservedBytes + Headroom <= MaxBytes
    <3>1. /\ ~(u.records + u.reservations >= MaxPendingRecords) /\ ~(u.reservations >= MaxReservations)
          /\ ~(u.keys + u.records + u.reservations >= MaxOperationKeys) \/ i.operation \in DOMAIN disk.index
          /\ ~(occupied(u) + ReservedBytes + Headroom > MaxBytes)
      BY <1>4, <2>6 DEF full
    <3> QED BY <2>8, <3>1, LimitTypes
  <2>10. RoomSafe(disk, xs)
    BY <1>1, <1>4, <2>1, <2>5, <2>6, <2>9, ReserveRoom
  <2>11. disk' = disk /\ writes' = xs
    BY <1>4, <2>2 DEF begins
  <2> QED BY <2>10, <2>11, RoomBegins
<1> QED BY <1>2, <1>3, <1>4 DEF Reserve

\* AppendValidated has it already.
LEMMA AppendStepRoom ==
  ASSUME IInv, RInv, NEW i \in Identity, NEW r \in Receipt, AppendValidated(i, r) PROVE RInv'
<1>1. /\ Limits(disk) /\ IsDirectory(disk) /\ Recoverable(disk) /\ TrustedOK(disk) /\ ~needsRebuild(disk)
      /\ ~InFlight(disk) /\ settledReservations(disk) = {}
  BY RoomHere, Calls DEF AppendValidated
<1>2. PICK t \in live : AppendAgain(i, r, t.token) \/ AppendPublished(i, r) \/ AppendNew(i, r, t.token)
  BY DEF AppendValidated
<1>3. CASE AppendAgain(i, r, t.token)
  <2>1. i \notin DOMAIN disk.reservations
    BY <1>1, <1>3 DEF AppendAgain, settledReservations
  <2>2. returnsNow(ref(i, r))
    BY <1>3, <2>1 DEF AppendAgain
  <2> QED BY <1>1, <2>2, RoomRests DEF returnsNow
<1>4. CASE AppendPublished(i, r)
  BY <1>1, <1>4, RoomRests DEF AppendPublished, returnsNow
<1>5. CASE AppendNew(i, r, t.token)
  <2>1. PICK s, u : s = nextSequence(usageOf(disk)) /\ u = appendedUsage(usageOf(disk))
    OBVIOUS
  <2>2. i \notin DOMAIN disk.records /\ i \in DOMAIN disk.reservations
    BY <1>5 DEF AppendNew
  <2>3. CASE blocks
    BY <1>1, <2>3, BlocksRoom
  <2>4. CASE begins(mutation(appendStages(i, r, s), u), ref(i, r))
    <3>1. PICK ws, xs : ws = appendStages(i, r, s) /\ xs = mutation(ws, u)
      OBVIOUS
    <3>2. s \notin DOMAIN disk.sequences
      <4>1. PICK n, c : n = Cardinality(DOMAIN disk.records) /\ c = checkpointOf(disk).sequence
        OBVIOUS
      <4>2. /\ n \in Nat /\ c \in Nat /\ usageOf(disk).accepted = c + n
            /\ \A j \in DOMAIN disk.records : disk.records[j].sequence \in c + 1 .. c + n
        BY <1>1, <4>1, TrustedCounts
      <4>3. s = c + n + 1
        BY <2>1, <4>2 DEF nextSequence
      <4>4. batchOf(disk) = << >> /\ kept(disk) = DOMAIN disk.records
        BY <1>1, TrustedFacts
      <4>5. DOMAIN << >> = {}
        OBVIOUS
      <4>6. \A q \in DOMAIN disk.sequences : \E j \in DOMAIN disk.records : q = disk.records[j].sequence
        BY <1>1, <4>4, <4>5 DEF Recoverable, SequencesOK, Named
      <4> QED BY <4>2, <4>3, <4>6
    <3>3. Queue(ws)
      BY <1>1, <2>2, <3>1, <3>2, AppendQueue
    <3>4. \A v \in pending(ws) :
            \/ v = put("records", i, [receipt |-> r, sequence |-> s])
            \/ v.file = "sequences" \/ v = remove("reservations", i)
      BY <3>1 DEF appendStages, pending, put
    <3>5. RoomSafe(disk, xs)
      <4>1. \A v \in pending(xs) :
              \/ v = put("records", i, [receipt |-> r, sequence |-> s])
              \/ v.file \in {"sequences", "marker", "usage"} \/ v = remove("reservations", i)
        BY <3>1, <3>3, <3>4, MutationPending
      <4> QED BY <1>1, <2>2, <4>1, AppendRoom
    <3>6. disk' = disk /\ writes' = xs
      BY <2>4, <3>1 DEF begins
    <3> QED BY <3>5, <3>6, RoomBegins
  <2> QED BY <1>5, <2>1, <2>3, <2>4 DEF AppendNew, appendStages, appendedUsage
<1> QED BY <1>2, <1>3, <1>4, <1>5

\* CancelReservation gives it back.
LEMMA CancelStepRoom == ASSUME IInv, RInv, NEW i \in Identity, CancelReservation(i) PROVE RInv'
<1>1. Limits(disk) /\ IsDirectory(disk)
  BY RoomHere
<1>2. PICK u, w : u = [usageOf(disk) EXCEPT !.reservations = @ - 1] /\ w = remove("reservations", i)
  OBVIOUS
<1>3. begins(mutation(<<{w}>>, u), NoReply)
  BY <1>2 DEF CancelReservation
<1>4. w.file = "reservations" /\ w.content = << >> /\ IsWrite(w)
  BY <1>2 DEF remove, IsWrite, Files, SingleFiles
<1>5. Queue(<<{w}>>) /\ pending(<<{w}>>) = {w}
  BY <1>4, QueueStage, FS_Singleton
<1>6. Lean(pending(<<{w}>>))
  BY <1>4, <1>5 DEF Lean
<1> QED BY <1>1, <1>3, <1>5, <1>6, LeanMutation

\* A descriptor takes none of what was reserved.
LEMMA FreezesRoom == ASSUME Limits(disk), IsDirectory(disk), NEW a, freezes(a) PROVE RInv'
<1>1. CASE blocks
  BY <1>1, BlocksRoom
<1>2. CASE begins(mutation(<<frozen(pendingRefs(disk))>>,
                           [usageOf(disk) EXCEPT !.used = @ + DescriptorCharge]), a)
  <2>1. PICK b, u, w : /\ b = pendingRefs(disk) /\ u = [usageOf(disk) EXCEPT !.used = @ + DescriptorCharge]
                       /\ w = put("descriptor", "only", b)
    OBVIOUS
  <2>2. frozen(b) = {w}
    BY <2>1 DEF frozen, only
  <2>3. begins(mutation(<<{w}>>, u), a)
    BY <1>2, <2>1, <2>2
  <2>4. w.file = "descriptor" /\ IsWrite(w)
    BY <2>1 DEF put, IsWrite, Files
  <2>5. Queue(<<{w}>>) /\ pending(<<{w}>>) = {w}
    BY <2>4, QueueStage, FS_Singleton
  <2>6. Lean(pending(<<{w}>>))
    BY <2>4, <2>5 DEF Lean
  <2> QED BY <2>3, <2>5, <2>6, LeanMutation
<1> QED BY <1>1, <1>2 DEF freezes

\* PendingOperationHistoryBatch freezes the batch it returns.
LEMMA PendingStepRoom == ASSUME IInv, RInv, PendingOperationHistoryBatch PROVE RInv'
<1>1. Limits(disk) /\ IsDirectory(disk)
  BY RoomHere
<1>2. CASE Exists(disk, "descriptor")
  BY <1>1, <1>2, RoomRests DEF PendingOperationHistoryBatch, returnsNow
<1>3. CASE ~Exists(disk, "descriptor")
  <2>1. freezes(batch(pendingRefs(disk)))
    BY <1>3 DEF PendingOperationHistoryBatch
  <2> QED BY <1>1, <2>1, FreezesRoom
<1> QED BY <1>2, <1>3

\* A publication frees more than it takes.
LEMMA AcknowledgeStepRoom ==
  ASSUME IInv, RInv, NEW b \in handed, AcknowledgeOperationHistoryBatch(b) PROVE RInv'
<1>1. Limits(disk) /\ IsDirectory(disk) /\ Recoverable(disk) /\ TrustedOK(disk) /\ ~needsRebuild(disk)
  BY RoomHere, Calls DEF AcknowledgeOperationHistoryBatch
<1>2. CASE ~Exists(disk, "descriptor")
  <2>1. freezes(NoReply)
    BY <1>2 DEF AcknowledgeOperationHistoryBatch
  <2> QED BY <1>1, <2>1, FreezesRoom
<1>3. CASE Exists(disk, "descriptor")
  <2>1. Only(disk, "descriptor") = b
    BY <1>3 DEF AcknowledgeOperationHistoryBatch, loadable
  <2>2. Frozen(disk, b)
    BY <1>1, <1>3, <2>1 DEF Frozen
  <2>3. PICK tx : tx = transactionOf(disk, b)
    OBVIOUS
  <2>4. applicable(disk, tx)
    BY <2>2, <2>3, FrozenIsApplicable
  <2>5. CASE blocks
    BY <1>1, <2>5, BlocksRoom
  <2>6. CASE begins(publication(tx), NoReply)
    <3>1. PICK ws, u, xs : ws = applyStages(disk, tx) /\ u = publishedUsage(disk, tx) /\ xs = publicationOf(tx, ws, u)
      OBVIOUS
    <3>2. publication(tx) = xs
      BY <3>1 DEF publication, publicationOf
    <3>3. RoomSafe(disk, xs)
      BY <1>1, <2>2, <2>3, <3>1, PublicationRoom
    <3>4. disk' = disk /\ writes' = xs
      BY <2>6, <3>2 DEF begins
    <3> QED BY <3>3, <3>4, RoomBegins
  <2> QED BY <1>3, <2>3, <2>4, <2>5, <2>6 DEF AcknowledgeOperationHistoryBatch
<1> QED BY <1>2, <1>3

\* The empty directory has room: NewOperationHistoryStore refuses a limit below
\* the headroom and one reservation.
LEMMA RoomInit == Init => RInv
<1> SUFFICES ASSUME Init PROVE RInv
  OBVIOUS
<1>1. PICK d : d = EmptyDirectory
  OBVIOUS
<1>2. IsDirectory(d)
  BY <1>1, EmptyGood
<1>3. /\ d.records = << >> /\ d.reservations = << >> /\ d.checkpoint = << >> /\ d.publication = << >>
  BY <1>1 DEF EmptyDirectory
<1>4. DOMAIN << >> = {}
  OBVIOUS
<1>5. ~InFlight(d) /\ ~Exists(d, "checkpoint")
  BY <1>3, <1>4 DEF InFlight, Exists
<1>6. settled(d).indexed = << >>
  BY <1>5 DEF settled, checkpointOf
<1>7. kept(d) = {}
  BY <1>3, <1>4 DEF kept
<1>8. IsFiniteSet({}) /\ Cardinality({}) = 0
  BY FS_EmptySet
<1>9. operationsIn({} \cup {}) = {} /\ {} \cup {} = {}
  BY DEF operationsIn
<1>10. Cardinality({} \cup operationsIn({} \cup {})) = 0
  BY <1>8, <1>9
<1>11. Room({}, {}, {}, FALSE)
  BY <1>8, <1>10, LimitTypes, ChargeAssumption DEF Room
<1>12. Limits(d)
  <2>1. DOMAIN d.reservations \ {} = {} /\ DOMAIN settled(d).indexed = {}
    BY <1>3, <1>4, <1>6
  <2>2. FALSE <=> InFlight(d) \/ Exists(d, "checkpoint")
    BY <1>5
  <2> QED BY <1>7, <1>11, <2>1, <2>2, LimitsOf
<1>13. Lean(pending(<< >>))
  BY NoStages DEF Lean
<1>14. RoomSafe(d, << >>)
  BY <1>2, <1>12, <1>13, LeanSafe
<1> QED BY <1>1, <1>14 DEF Init, RInv

\* Every step keeps the room.
LEMMA RoomStep == ASSUME IInv, RInv, [Next]_vars PROVE RInv'
<1>1. Limits(disk) /\ IsDirectory(disk)
  BY RoomHere
<1>2. CASE UNCHANGED vars
  BY <1>2 DEF vars, lockVars, RInv
<1>3. CASE TakeLock
  BY <1>3, TakeLockRoom
<1>4. ASSUME NEW p \in Release, Open(p) PROVE RInv'
  BY <1>4, RebuildRoom DEF Open
<1>5. CASE Scan
  BY <1>5, ScanRoom
<1>6. CASE Rebuilt \/ Return \/ Fail
  <2>1. disk' = disk /\ writes' = << >>
    BY <1>6 DEF Rebuilt, Return, Fail, returnsNow
  <2> QED BY <1>1, <2>1, RoomRests
<1>7. CASE Write
  BY <1>7, WriteStepRoom
<1>8. ASSUME NEW i \in Identity, Reserve(i) \/ CancelReservation(i) PROVE RInv'
  BY <1>8, ReserveStepRoom, CancelStepRoom
<1>9. ASSUME NEW i \in Identity, NEW r \in Receipt, AppendValidated(i, r) PROVE RInv'
  BY <1>9, AppendStepRoom
<1>10. ASSUME NEW t \in live, Abandon(t) PROVE RInv'
  BY <1>10 DEF Abandon, lockVars, RInv
<1>11. CASE PendingOperationHistoryBatch
  BY <1>11, PendingStepRoom
<1>12. ASSUME NEW b \in handed, AcknowledgeOperationHistoryBatch(b) PROVE RInv'
  BY <1>12, AcknowledgeStepRoom
<1> QED BY <1>2, <1>3, <1>4, <1>5, <1>6, <1>7, <1>8, <1>9, <1>10, <1>11, <1>12 DEF Next

\* Every state has room, at each prefix of the writes that are left.
LEMMA RoomInvariant == ASSUME ~OverlappingAttempts PROVE Spec => [](IInv /\ RInv)
<1>1. IInv /\ RInv /\ [Next]_vars => RInv'
  BY RoomStep
<1> QED BY <1>1, HistoryInvariant, RoomInit, PTL DEF Spec

\* The bytes that are used or reserved exceed what Reserve allowed by no more than
\* a descriptor.
LEMMA LimitsBytes ==
  ASSUME NEW d, Recoverable(d), ~InFlight(d), Limits(d), NEW u, u = accountedUsage(d)
  PROVE  /\ occupied(u) \in Nat
         /\ occupied(u) + Headroom <= MaxBytes + charge(d, "descriptor", DescriptorCharge)
         /\ occupied(u) + Headroom <= MaxBytes + DescriptorCharge
<1>1. PICK K, C, I : K = kept(d) /\ C = DOMAIN d.reservations \ K /\ I = DOMAIN settled(d).indexed
  OBVIOUS
<1>2. PICK cp \in BOOLEAN : cp <=> Exists(d, "checkpoint")
  BY DEF Exists
<1>3. Room(K, C, I, cp)
  BY <1>1, <1>2, LimitsOf
<1>4. PICK k, c, n : k = Cardinality(K) /\ c = Cardinality(C) /\ n = Cardinality(I)
  OBVIOUS
<1>5. k \in Nat /\ c \in Nat /\ n \in Nat
  BY <1>3, <1>4, RoomTypes
<1>6. PICK x, y, z, h, e : /\ x = k * RecordCharge /\ y = n * IndexCharge /\ z = c * ReservedBytes
                           /\ h = (IF Exists(d, "checkpoint") THEN CheckpointCharge ELSE 0)
                           /\ e = charge(d, "descriptor", DescriptorCharge)
  OBVIOUS
<1>7. x \in Nat /\ y \in Nat /\ z \in Nat /\ h \in Nat
  BY <1>5, <1>6, LimitTypes, Grows
<1>8. e \in Nat /\ e <= DescriptorCharge
  BY <1>6, LimitTypes DEF charge
<1>9. x + z + y + h + Headroom <= MaxBytes
  BY <1>2, <1>3, <1>4, <1>6 DEF Room
<1>10. u.used = x + y + h + e /\ u.reservations = c
  BY <1>1, <1>4, <1>6, UsageSizes
<1>11. occupied(u) = x + y + h + e + z
  BY <1>6, <1>10 DEF occupied
<1> QED BY <1>6, <1>7, <1>8, <1>9, <1>11, LimitTypes

\* What has room passes the limits of a rebuild, but for the bytes of a
\* descriptor.
LEMMA LimitsFit ==
  ASSUME NEW d, Recoverable(d), ~InFlight(d), Limits(d), NEW u, u = accountedUsage(d),
         Exists(d, "descriptor") => occupied(u) + Headroom <= MaxBytes
  PROVE  fits(u)
<1>1. PICK K, C, I : K = kept(d) /\ C = DOMAIN d.reservations \ K /\ I = DOMAIN settled(d).indexed
  OBVIOUS
<1>2. PICK cp \in BOOLEAN : cp <=> Exists(d, "checkpoint")
  BY DEF Exists
<1>3. Room(K, C, I, cp)
  BY <1>1, <1>2, LimitsOf
<1>4. PICK k, c, n : k = Cardinality(K) /\ c = Cardinality(C) /\ n = Cardinality(I)
  OBVIOUS
<1>5. k \in Nat /\ c \in Nat /\ n \in Nat
  BY <1>3, <1>4, RoomTypes
<1>6. /\ u.records = k /\ u.reservations = c /\ u.keys = n
      /\ u.used = k * RecordCharge + n * IndexCharge
                    + (IF Exists(d, "checkpoint") THEN CheckpointCharge ELSE 0)
                    + charge(d, "descriptor", DescriptorCharge)
  BY <1>1, <1>4, UsageSizes
<1>7. c <= MaxReservations /\ k + c <= MaxPendingRecords
  BY <1>3, <1>4 DEF Room
<1>8. n <= MaxOperationKeys
  <2>1. PICK J : J = I \cup operationsIn(K \cup C)
    OBVIOUS
  <2>2. IsFiniteSet(J) /\ Cardinality(J) <= MaxOperationKeys
    <3>1. IsFiniteSet(K \cup C) /\ IsFiniteSet(I)
      BY <1>3, FS_Union DEF Room
    <3>2. IsFiniteSet(operationsIn(K \cup C))
      BY <3>1, FiniteOperations
    <3>3. IsFiniteSet(J)
      BY <2>1, <3>1, <3>2, FS_Union
    <3> QED BY <1>3, <2>1, <3>3 DEF Room
  <2>3. Cardinality(I) <= Cardinality(J) /\ Cardinality(J) \in Nat
    BY <2>1, <2>2, FS_Subset, FS_CardinalityType
  <2> QED BY <1>4, <1>5, <2>2, <2>3, LimitTypes
<1>9. occupied(u) + Headroom <= MaxBytes
  <2>1. CASE ~Exists(d, "descriptor")
    <3>1. charge(d, "descriptor", DescriptorCharge) = 0
      BY <2>1 DEF charge
    <3> QED BY <3>1, LimitsBytes, LimitTypes
  <2> QED BY <2>1
<1> QED BY <1>6, <1>7, <1>8, <1>9 DEF fits

-----------------------------------------------------------------------------
(* Releases.  A program appends only what it validates, and only after it    *)
(* opened the store, which it does when it validates all that is there.  So   *)
(* the records that are there, or still to be written, are of one release.    *)

\* No write of a record is left; none that writes or removes one.
Bare(ws) == \A v \in pending(ws) : v.file = "records" => v.content = << >>
Neat(ws) == \A v \in pending(ws) : v.file # "records"

\* The attempts whose records are there, or are still to be written.
ahead(d, ws) ==
  DOMAIN d.records \cup {v.key : v \in {w \in pending(ws) : w.file = "records" /\ w.content # << >>}}

PInv ==
  /\ \A t \in live : resolves(release, t.identity)
  /\ reply.kind = "token" => resolves(release, reply.it.identity)
  /\ holder \in {"ready", "writing"} => opened
  /\ opened \/ holder = "rebuilding" => \A i \in ahead(disk, writes) : resolves(release, i)
  /\ \A i, j \in ahead(disk, writes) : i.release = j.release
  /\ holder = "refused" => Neat(writes)

\* A call, a recovery or a start that adds no record, in one and the same program.
LEMMA AddsNothing ==
  ASSUME PInv, disk' = disk, Bare(writes'), release' = release, opened' => opened,
         holder' = "refused" => Neat(writes'), holder' \in {"ready", "writing"} => opened',
         holder' # "rebuilding", \A t \in live' : resolves(release, t.identity),
         reply'.kind = "token" => resolves(release, reply'.it.identity)
  PROVE  PInv'
<1>1. ahead(disk', writes') \subseteq ahead(disk, writes)
  BY DEF ahead, Bare
<1> QED BY <1>1 DEF PInv

\* The files of the usual mutations are not records.
LEMMA NeatMutation ==
  ASSUME NEW ws, Queue(ws), Neat(ws), NEW u
  PROVE  Neat(mutation(ws, u)) /\ Bare(mutation(ws, u))
<1>1. PICK xs : xs = mutation(ws, u)
  OBVIOUS
<1>2. Neat(xs)
  BY <1>1, MutationPending DEF Neat
<1> QED BY <1>1, <1>2 DEF Neat, Bare

\* Nor are those of an empty list, or the marker.
LEMMA NeatNothing == Neat(<< >>) /\ Bare(<< >>)
BY NoStages DEF Neat, Bare

\* One write of another file.
LEMMA NeatWrite ==
  ASSUME NEW w, IsWrite(w), w.file # "records"
  PROVE  Queue(<<{w}>>) /\ Neat(<<{w}>>)
<1>1. Queue(<<{w}>>) /\ pending(<<{w}>>) = {w}
  BY QueueStage, FS_Singleton
<1> QED BY <1>1 DEF Neat

\* A step that only changes what the current program's callers have in hand, or
\* begins a mutation without a record.
LEMMA CallAddsNothing ==
  ASSUME PInv, holder = "ready", disk' = disk, UNCHANGED processVars, Bare(writes'),
         holder' \in {"free", "writing"}, \A t \in live' : resolves(release, t.identity),
         reply'.kind = "token" => resolves(release, reply'.it.identity)
  PROVE  PInv'
<1>1. release' = release /\ opened' = opened
  BY DEF processVars
<1>2. opened
  BY DEF PInv
<1> QED BY <1>1, <1>2, AddsNothing

\* A refused call is only counted.
LEMMA BlocksAlike ==
  ASSUME PInv, holder = "ready", UNCHANGED processVars, blocks, live' = live PROVE PInv'
<1>1. NoReply.kind = "none"
  BY DEF NoReply
<1>2. CASE returnsNow(NoReply)
  <2>1. disk' = disk /\ writes' = << >> /\ holder' = "free" /\ reply' = NoReply
    BY <1>2 DEF returnsNow
  <2> QED BY <1>1, <2>1, NeatNothing, CallAddsNothing DEF PInv
<1>3. CASE begins(mutation(<< >>, [usageOf(disk) EXCEPT !.blocked = @ + 1]), NoReply)
  <2>1. PICK u : u = [usageOf(disk) EXCEPT !.blocked = @ + 1]
    OBVIOUS
  <2>2. Bare(mutation(<< >>, u))
    BY NoStages, NeatNothing, NeatMutation
  <2>3. disk' = disk /\ holder' = "writing" /\ reply' = NoReply /\ Bare(writes')
    BY <1>3, <2>1, <2>2 DEF begins
  <2> QED BY <1>1, <2>3, CallAddsNothing DEF PInv
<1> QED BY <1>2, <1>3 DEF blocks

\* So is a blocked call whose callers keep what they have.
LEMMA BlocksLive == ASSUME blocks PROVE live' = live
BY DEF blocks, returnsNow, handsOver, NoReply

\* The replay of a transaction removes records and writes none.
LEMMA ReplayBare ==
  ASSUME IInv, NEW p, startsRebuild(p)
  PROVE  Bare(writes') /\ (holder' = "refused" => Neat(writes'))
<1>1. Good(disk, begun, refs, handed, confirmed) /\ Recoverable(disk)
  BY Quiet DEF IInv, Good
<1>2. Neat(<<marked>>) /\ Bare(<<marked>>)
  <2>1. pending(<<marked>>) = {theMarker} /\ theMarker.file = "marker"
    BY <1>1, MarkerSafe DEF theMarker, put
  <2> QED BY <2>1 DEF Neat, Bare
<1>3. CASE holder' = "refused"
  BY <1>2, <1>3 DEF startsRebuild
<1>4. CASE holder' # "refused"
  <2>1. writes' = replayStages
    BY <1>4 DEF startsRebuild
  <2>2. CASE InFlight(disk)
    <3>1. PICK tx, M, R, xs : /\ tx = transaction(disk) /\ M = theMarker
                              /\ R = remove("publication", "only") /\ xs = replayOf(disk)
      OBVIOUS
    <3>2. pending(xs) = {M} \cup (applyWrites(disk, tx) \cup {R})
      BY <1>1, <2>2, <3>1, ReplayQueue
    <3>3. M.file = "marker" /\ R.file = "publication"
      BY <3>1 DEF theMarker, put, remove
    <3>4. \A v \in applyWrites(disk, tx) : v.file = "records" => v.content = << >>
      BY ApplyKinds
    <3>5. Bare(xs)
      BY <3>2, <3>3, <3>4 DEF Bare
    <3>6. writes' = xs
      BY <2>1, <3>1 DEF replayOf, replayStages, InFlight, transaction
    <3> QED BY <1>4, <3>5, <3>6
  <2>3. CASE ~InFlight(disk)
    <3>1. marked \in {marked}
      OBVIOUS
    <3>2. <<marked>> \o << >> = <<marked>>
      BY <3>1, ConcatEmptySeq
    <3>3. writes' = <<marked>>
      BY <2>1, <2>3, <3>2 DEF replayStages, InFlight
    <3> QED BY <1>2, <1>4, <3>3
  <2> QED BY <2>2, <2>3
<1> QED BY <1>3, <1>4

\* A caller takes the lock.
LEMMA TakeLockAlike == ASSUME IInv, PInv, TakeLock PROVE PInv'
<1>1. disk' = disk /\ release' = release /\ opened' = opened /\ opened /\ live' = live /\ reply' = reply
  BY DEF TakeLock, processVars, callerVars
<1>2. CASE needsRebuild(disk)
  <2>1. startsRebuild(release)
    BY <1>2 DEF TakeLock
  <2>2. holder' \in {"replaying", "refused"}
    BY <2>1 DEF startsRebuild
  <2>3. Bare(writes') /\ (holder' = "refused" => Neat(writes'))
    BY <2>1, ReplayBare
  <2> QED BY <1>1, <2>2, <2>3, AddsNothing DEF PInv
<1>3. CASE ~needsRebuild(disk)
  <2>1. holder' = "ready" /\ writes' = << >>
    BY <1>3 DEF TakeLock
  <2> QED BY <1>1, <2>1, NeatNothing, AddsNothing DEF PInv
<1> QED BY <1>2, <1>3

\* The next program starts: it has no workers yet.
LEMMA OpenAlike == ASSUME IInv, PInv, NEW p, Open(p) PROVE PInv'
<1>1. /\ disk' = disk /\ release' = p /\ opened' = FALSE /\ live' = {} /\ reply' = reply
      /\ holder = "free" /\ startsRebuild(p)
  BY DEF Open
<1>2. reply.kind = "none"
  <2>1. HolderOK(holder, writes, disk, after(disk, pending(writes)), reply)
    BY DEF IInv, Inv
  <2> QED BY <1>1, <2>1 DEF HolderOK, NoReply
<1>3. Bare(writes') /\ (holder' = "refused" => Neat(writes'))
  BY <1>1, ReplayBare
<1>4. holder' \in {"replaying", "refused"}
  BY <1>1 DEF startsRebuild
<1>5. ahead(disk', writes') \subseteq ahead(disk, writes)
  BY <1>1, <1>3 DEF ahead, Bare
<1> QED BY <1>1, <1>2, <1>3, <1>4, <1>5 DEF PInv

\* The scan goes on only when the program validates every record.
LEMMA ScanAlike == ASSUME IInv, PInv, Scan PROVE PInv'
<1>1. /\ holder = "replaying" /\ nothingLeft /\ disk' = disk /\ release' = release /\ opened' = opened
      /\ live' = live /\ reply' = reply
  BY DEF Scan, processVars, callerVars
<1>2. Recoverable(disk)
  BY Quiet DEF IInv, Good
<1>3. ~InFlight(disk)
  <2>1. after(disk, pending(writes)) = disk
    BY <1>1, Done
  <2>2. HolderOK(holder, writes, disk, disk, reply)
    BY <2>1 DEF IInv, Inv
  <2> QED BY <1>1, <2>2 DEF HolderOK
<1>4. PICK ys, u : ys = scanOf(disk) /\ u = accountedUsage(disk)
  OBVIOUS
<1>5. Queue(ys) /\ Neat(ys)
  BY <1>2, <1>3, <1>4, ScanQueue DEF Neat
<1>6. /\ \/ writes' = ys \o << >>
         \/ writes' = ys \o <<only("usage", u), drop("marker")>>
         \/ \E some \in SUBSET missingSequences(disk) : writes' = <<some>>
      /\ holder' = "rebuilding" => readable(release, DOMAIN disk.records)
      /\ holder' \in {"rebuilding", "refused"}
  BY <1>4 DEF Scan, scanOf, removedReservations
<1>7. Neat(writes')
  <2>1. CASE writes' = ys \o << >>
    <3>1. ys \o << >> = ys
      BY <1>5, ConcatEmptySeq DEF Queue
    <3> QED BY <1>5, <2>1, <3>1
  <2>2. CASE writes' = ys \o <<only("usage", u), drop("marker")>>
    <3>1. PICK xs : xs = ys \o <<only("usage", u), drop("marker")>>
      OBVIOUS
    <3>2. Neat(xs)
      BY <1>5, <3>1, FinishPending DEF Neat
    <3> QED BY <2>2, <3>1, <3>2
  <2>3. ASSUME NEW some \in SUBSET missingSequences(disk), writes' = <<some>> PROVE Neat(writes')
    <3>1. \A w \in some : w.file = "sequences"
      BY <1>2, <1>3, ScanWrites
    <3>2. pending(<<some>>) = some
      BY DEF pending
    <3> QED BY <2>3, <3>1, <3>2 DEF Neat
  <2> QED BY <1>6, <2>1, <2>2, <2>3
<1>8. Bare(writes')
  BY <1>7 DEF Neat, Bare
<1>9. ahead(disk', writes') = DOMAIN disk.records
  BY <1>1, <1>8 DEF ahead, Bare
<1>10. ahead(disk', writes') \subseteq ahead(disk, writes)
  BY <1>9 DEF ahead
<1> QED BY <1>1, <1>6, <1>7, <1>9, <1>10 DEF PInv, readable

\* What a write adds was still to be written.
LEMMA WriteAlike == ASSUME IInv, PInv, Write PROVE PInv'
<1>1. PICK k \in DOMAIN writes :
        /\ \A j \in DOMAIN writes : j < k => writes[j] = {}
        /\ \E w \in writes[k] : disk' = written(disk, w) /\ writes' = [writes EXCEPT ![k] = @ \ {w}]
  BY DEF Write
<1>2. PICK w \in writes[k] : disk' = written(disk, w) /\ writes' = [writes EXCEPT ![k] = @ \ {w}]
  BY <1>1
<1>3. IsDirectory(disk) /\ Queue(writes)
  BY DEF IInv, Inv
<1>4. pending(writes) = pending(writes') \cup {w}
  <2>1. QueueWritten(writes, writes', w)
    BY <1>1, <1>2, <1>3, QueueWrite
  <2> QED BY <2>1 DEF QueueWritten
<1>5. w.file \in Files /\ "records" \in Files
  BY <1>3, <1>4 DEF Queue, IsWrite, Files
<1>6. DOMAIN disk'.records \subseteq ahead(disk, writes)
  <2>1. CASE w.file # "records"
    <3>1. disk'.records = disk.records
      BY <1>2, <1>3, <1>5, <2>1, WrittenFile
    <3> QED BY <3>1 DEF ahead
  <2>2. CASE w.file = "records" /\ w.content = << >>
    <3>1. DOMAIN disk'.records = DOMAIN disk.records \ {w.key}
      BY <1>2, <1>3, <1>5, <2>2, WrittenFile
    <3> QED BY <3>1 DEF ahead
  <2>3. CASE w.file = "records" /\ w.content # << >>
    <3>1. DOMAIN disk'.records = DOMAIN disk.records \cup {w.key}
      BY <1>2, <1>3, <1>5, <2>3, WrittenFile
    <3>2. w \in pending(writes)
      BY <1>4
    <3> QED BY <2>3, <3>1, <3>2 DEF ahead
  <2> QED BY <2>1, <2>2, <2>3
<1>7. ahead(disk', writes') \subseteq ahead(disk, writes)
  BY <1>4, <1>6 DEF ahead
<1>8. Neat(writes) => Neat(writes')
  BY <1>4 DEF Neat
<1>9. UNCHANGED <<release, opened, holder, reply, live>>
  BY DEF Write, processVars, callerVars
<1> QED BY <1>7, <1>8, <1>9 DEF PInv

\* The call is over; a worker may have a reservation of its own attempt.
LEMMA OverAlike == ASSUME IInv, PInv, Return \/ Fail PROVE PInv'
<1>1. disk' = disk /\ writes' = << >> /\ holder' = "free" /\ reply' = NoReply /\ UNCHANGED processVars
  BY DEF Return, Fail, returnsNow
<1>2. release' = release /\ opened' = opened /\ NoReply.kind = "none"
  BY <1>1 DEF processVars, NoReply
<1>3. \A t \in live' : resolves(release, t.identity)
  <2>1. CASE live' = live
    BY <2>1 DEF PInv
  <2>2. ASSUME reply.kind = "token", NEW t, t \in {reply.it, [reply.it EXCEPT !.may = "cancel"]}, takes(t)
        PROVE  \A s \in live' : resolves(release, s.identity)
    <3>1. ReplyOK(reply, after(disk, pending(writes)), begun, confirmed)
      BY DEF IInv, Inv
    <3>2. IsToken(reply, begun)
      BY <2>2, <3>1 DEF ReplyOK, IsRef, IsFrozen, ref, batch, NoReply
    <3>3. PICK i, n : i = reply.it.identity /\ n = reply.it.token
      OBVIOUS
    <3>4. reply.it = [identity |-> i, token |-> n, may |-> "append"]
      BY <3>2, <3>3 DEF IsToken, token
    <3>5. t.identity = i
      BY <2>2, <3>4
    <3>6. resolves(release, i)
      BY <2>2, <3>3 DEF PInv
    <3>7. live' = {u \in live : u.identity # t.identity} \cup {t}
      BY <2>2 DEF takes
    <3> QED BY <3>5, <3>6, <3>7 DEF PInv
  <2> QED BY <2>1, <2>2 DEF Return, Fail, returnsNow, handsOver
<1> QED BY <1>1, <1>2, <1>3, NeatNothing, AddsNothing

\* The rebuild was made by a program that validates what is there.
LEMMA RebuiltAlike == ASSUME IInv, PInv, Rebuilt PROVE PInv'
<1>1. /\ holder = "rebuilding" /\ disk' = disk /\ writes' = << >> /\ holder' = "ready" /\ opened' = TRUE
      /\ release' = release /\ live' = live /\ reply' = reply
  BY DEF Rebuilt, callerVars
<1>2. ahead(disk', writes') \subseteq ahead(disk, writes)
  BY <1>1, NeatNothing DEF ahead, Bare
<1> QED BY <1>1, <1>2 DEF PInv

\* A worker reserves for an attempt of its own release.
LEMMA ReserveAlike == ASSUME IInv, PInv, NEW i \in Identity, Reserve(i) PROVE PInv'
<1>1. holder = "ready" /\ i.release = release /\ UNCHANGED processVars
  BY DEF Reserve, attempts
<1>2. \A n : token(i, n).kind = "token" /\ token(i, n).it.identity = i
  BY DEF token
<1>3. CASE returnsNow(token(i, disk.reservations[i]))
  <2>1. PICK a : a = token(i, disk.reservations[i])
    OBVIOUS
  <2>2. a.kind = "token" /\ a.it.identity = i
    BY <1>2, <2>1
  <2>3. disk' = disk /\ writes' = << >> /\ holder' = "free" /\ reply' = NoReply /\ takes(a.it)
    BY <1>3, <2>1, <2>2 DEF returnsNow, handsOver
  <2>4. \A t \in live' : resolves(release, t.identity)
    BY <1>1, <2>2, <2>3 DEF takes, PInv, resolves
  <2>5. NoReply.kind = "none"
    BY DEF NoReply
  <2> QED BY <1>1, <2>3, <2>4, <2>5, NeatNothing, CallAddsNothing
<1>4. CASE blocks
  BY <1>1, <1>4, BlocksLive, BlocksAlike
<1>5. CASE /\ begins(mutation(<<{put("reservations", i, nextToken)}>>, reservedUsage(usageOf(disk))),
                     token(i, nextToken))
           /\ UNCHANGED <<live, refs, handed>>
  <2>1. PICK w, u, a : w = put("reservations", i, nextToken) /\ u = reservedUsage(usageOf(disk))
                       /\ a = token(i, nextToken)
    OBVIOUS
  <2>2. w.file = "reservations" /\ IsWrite(w)
    BY <2>1 DEF put, IsWrite, Files, SingleFiles
  <2>3. Bare(mutation(<<{w}>>, u))
    BY <2>2, NeatWrite, NeatMutation
  <2>4. disk' = disk /\ holder' = "writing" /\ reply' = a /\ Bare(writes') /\ live' = live
    BY <1>5, <2>1, <2>3 DEF begins
  <2>5. resolves(release, a.it.identity)
    BY <1>1, <1>2, <2>1 DEF resolves
  <2> QED BY <1>1, <2>4, <2>5, CallAddsNothing DEF PInv
<1> QED BY <1>3, <1>4, <1>5 DEF Reserve

\* An append writes a record of the program that validates all the others.
LEMMA AppendAlike ==
  ASSUME IInv, PInv, NEW i \in Identity, NEW r \in Receipt, AppendValidated(i, r) PROVE PInv'
<1>1. /\ IsDirectory(disk) /\ Recoverable(disk) /\ TrustedOK(disk) /\ ~needsRebuild(disk)
      /\ ~InFlight(disk) /\ settledReservations(disk) = {}
  BY Calls DEF AppendValidated, Good
<1>2. holder = "ready" /\ UNCHANGED processVars
  BY DEF AppendValidated
<1>3. ref(i, r).kind = "ref" /\ NoReply.kind = "none"
  BY DEF ref, NoReply
<1>4. PICK t \in live :
        t.identity = i /\ (AppendAgain(i, r, t.token) \/ AppendPublished(i, r) \/ AppendNew(i, r, t.token))
  BY DEF AppendValidated
<1>5. resolves(release, i)
  BY <1>4 DEF PInv
<1>6. CASE returnsNow(ref(i, r))
  <2>1. disk' = disk /\ writes' = << >> /\ holder' = "free" /\ reply' = NoReply /\ live' = live
    BY <1>3, <1>6 DEF returnsNow, handsOver
  <2> QED BY <1>2, <1>3, <2>1, NeatNothing, CallAddsNothing DEF PInv
<1>7. CASE blocks
  BY <1>2, <1>7, BlocksLive, BlocksAlike
<1>8. CASE AppendAgain(i, r, t.token)
  <2>1. i \notin DOMAIN disk.reservations
    BY <1>1, <1>8 DEF AppendAgain, settledReservations
  <2> QED BY <1>6, <1>8, <2>1 DEF AppendAgain
<1>9. CASE AppendNew(i, r, t.token) /\ ~blocks
  <2>1. PICK s, u : s = nextSequence(usageOf(disk)) /\ u = appendedUsage(usageOf(disk))
    OBVIOUS
  <2>2. i \notin DOMAIN disk.records
    BY <1>9 DEF AppendNew
  <2>3. begins(mutation(appendStages(i, r, s), u), ref(i, r)) /\ UNCHANGED <<live, refs, handed>>
    BY <1>9, <2>1 DEF AppendNew, appendStages, appendedUsage
  <2>4. PICK ws, xs : ws = appendStages(i, r, s) /\ xs = mutation(ws, u)
    OBVIOUS
  <2>5. s \notin DOMAIN disk.sequences
    <3>1. PICK n, c : n = Cardinality(DOMAIN disk.records) /\ c = checkpointOf(disk).sequence
      OBVIOUS
    <3>2. /\ n \in Nat /\ c \in Nat /\ usageOf(disk).accepted = c + n
          /\ \A j \in DOMAIN disk.records : disk.records[j].sequence \in c + 1 .. c + n
      BY <1>1, <3>1, TrustedCounts
    <3>3. s = c + n + 1
      BY <2>1, <3>2 DEF nextSequence
    <3>4. batchOf(disk) = << >> /\ kept(disk) = DOMAIN disk.records
      BY <1>1, TrustedFacts
    <3>5. DOMAIN << >> = {}
      OBVIOUS
    <3>6. \A q \in DOMAIN disk.sequences : \E j \in DOMAIN disk.records : q = disk.records[j].sequence
      BY <1>1, <3>4, <3>5 DEF Recoverable, SequencesOK, Named
    <3> QED BY <3>2, <3>3, <3>6
  <2>6. Queue(ws)
    BY <1>1, <2>2, <2>4, <2>5, AppendQueue
  <2>7. \A v \in pending(ws) : v.file = "records" /\ v.content # << >> => v.key = i
    BY <2>4 DEF appendStages, pending, put, remove
  <2>8. \A v \in pending(xs) : v.file = "records" /\ v.content # << >> => v.key = i
    BY <2>4, <2>6, <2>7, MutationPending
  <2>9. disk' = disk /\ writes' = xs /\ holder' = "writing" /\ reply' = ref(i, r) /\ live' = live
    BY <2>3, <2>4 DEF begins
  <2>10. ahead(disk', writes') \subseteq DOMAIN disk.records \cup {i}
    BY <2>8, <2>9 DEF ahead
  <2>11. opened /\ \A j \in DOMAIN disk.records : resolves(release, j)
    BY <1>2 DEF PInv, ahead
  <2>12. \A j \in ahead(disk', writes') : resolves(release, j)
    BY <1>5, <2>10, <2>11
  <2>13. release' = release /\ opened' = opened
    BY <1>2 DEF processVars
  <2> QED BY <1>3, <2>9, <2>11, <2>12, <2>13 DEF PInv, resolves
<1> QED BY <1>4, <1>6, <1>7, <1>8, <1>9 DEF AppendPublished

\* A cancelled reservation is no record.
LEMMA CancelAlike == ASSUME PInv, NEW i \in Identity, CancelReservation(i) PROVE PInv'
<1>1. PICK u, w : u = [usageOf(disk) EXCEPT !.reservations = @ - 1] /\ w = remove("reservations", i)
  OBVIOUS
<1>2. w.file = "reservations" /\ IsWrite(w)
  BY <1>1 DEF remove, IsWrite, Files, SingleFiles
<1>3. Bare(mutation(<<{w}>>, u))
  BY <1>2, NeatWrite, NeatMutation
<1>4. begins(mutation(<<{w}>>, u), NoReply) /\ live' \subseteq live /\ holder = "ready" /\ UNCHANGED processVars
  BY <1>1 DEF CancelReservation
<1>5. disk' = disk /\ holder' = "writing" /\ reply' = NoReply /\ Bare(writes')
  BY <1>3, <1>4 DEF begins
<1>6. NoReply.kind = "none"
  BY DEF NoReply
<1> QED BY <1>4, <1>5, <1>6, CallAddsNothing DEF PInv

\* Nor is a descriptor.
LEMMA FreezesAlike ==
  ASSUME PInv, holder = "ready", UNCHANGED processVars, NEW a, a.kind # "token", freezes(a) PROVE PInv'
<1>1. CASE blocks
  BY <1>1, BlocksLive, BlocksAlike
<1>2. CASE ~blocks
  <2>1. PICK b, u, w : /\ b = pendingRefs(disk) /\ u = [usageOf(disk) EXCEPT !.used = @ + DescriptorCharge]
                       /\ w = put("descriptor", "only", b)
    OBVIOUS
  <2>2. frozen(b) = {w}
    BY <2>1 DEF frozen, only
  <2>3. begins(mutation(<<{w}>>, u), a) /\ live' = live
    BY <1>2, <2>1, <2>2 DEF freezes
  <2>4. w.file = "descriptor" /\ IsWrite(w)
    BY <2>1 DEF put, IsWrite, Files
  <2>5. Bare(mutation(<<{w}>>, u))
    BY <2>4, NeatWrite, NeatMutation
  <2>6. disk' = disk /\ holder' = "writing" /\ reply' = a /\ Bare(writes')
    BY <2>3, <2>5 DEF begins
  <2> QED BY <2>3, <2>6, CallAddsNothing DEF PInv
<1> QED BY <1>1, <1>2

\* A publisher asks for a batch.
LEMMA PendingAlike == ASSUME PInv, PendingOperationHistoryBatch PROVE PInv'
<1>1. holder = "ready" /\ UNCHANGED processVars
  BY DEF PendingOperationHistoryBatch
<1>2. \A b : batch(b).kind = "batch"
  BY DEF batch
<1>3. NoReply.kind = "none"
  BY DEF NoReply
<1>4. CASE Exists(disk, "descriptor")
  <2>1. PICK a : a = batch(Only(disk, "descriptor"))
    OBVIOUS
  <2>2. returnsNow(a) /\ a.kind # "token"
    BY <1>2, <1>4, <2>1 DEF PendingOperationHistoryBatch
  <2>3. disk' = disk /\ writes' = << >> /\ holder' = "free" /\ reply' = NoReply /\ live' = live
    BY <2>2 DEF returnsNow, handsOver
  <2> QED BY <1>1, <1>3, <2>3, NeatNothing, CallAddsNothing DEF PInv
<1>5. CASE ~Exists(disk, "descriptor")
  <2>1. PICK a : a = batch(pendingRefs(disk))
    OBVIOUS
  <2>2. freezes(a) /\ a.kind # "token"
    BY <1>2, <1>5, <2>1 DEF PendingOperationHistoryBatch
  <2> QED BY <1>1, <2>2, FreezesAlike
<1> QED BY <1>4, <1>5

\* A publication removes records.
LEMMA AcknowledgeAlike ==
  ASSUME IInv, PInv, NEW b \in handed, AcknowledgeOperationHistoryBatch(b) PROVE PInv'
<1>1. holder = "ready" /\ UNCHANGED processVars
  BY DEF AcknowledgeOperationHistoryBatch
<1>2. Recoverable(disk) /\ TrustedOK(disk) /\ ~needsRebuild(disk)
  BY <1>1, Calls DEF Good
<1>3. NoReply.kind = "none"
  BY DEF NoReply
<1>4. CASE ~Exists(disk, "descriptor")
  <2>1. freezes(NoReply)
    BY <1>4 DEF AcknowledgeOperationHistoryBatch
  <2> QED BY <1>1, <1>3, <2>1, FreezesAlike
<1>5. CASE Exists(disk, "descriptor")
  <2>1. Only(disk, "descriptor") = b
    BY <1>5 DEF AcknowledgeOperationHistoryBatch, loadable
  <2>2. Frozen(disk, b)
    BY <1>2, <1>5, <2>1 DEF Frozen
  <2>3. PICK tx : tx = transactionOf(disk, b)
    OBVIOUS
  <2>4. applicable(disk, tx)
    BY <2>2, <2>3, FrozenIsApplicable
  <2>5. CASE blocks
    BY <1>1, <2>5, BlocksLive, BlocksAlike
  <2>6. CASE begins(publication(tx), NoReply) /\ UNCHANGED <<live, refs, handed>>
    <3>1. PICK ws, u, xs, P, U, R :
            /\ ws = applyStages(disk, tx) /\ u = publishedUsage(disk, tx) /\ xs = publicationOf(tx, ws, u)
            /\ P = put("publication", "only", tx) /\ U = put("usage", "only", u)
            /\ R = remove("publication", "only")
      OBVIOUS
    <3>2. publication(tx) = xs
      BY <3>1 DEF publication, publicationOf
    <3>3. IsBatch(tx.batch)
      <4>1. tx.batch = b
        BY <2>3 DEF transactionOf
      <4>2. IsBatch(b)
        BY <1>1, Calls DEF CallersOK
      <4> QED BY <4>1, <4>2
    <3>4. Queue(ws) /\ pending(ws) = applyWrites(disk, tx)
      BY <3>1, <3>3, ApplyQueue
    <3>5. \A v \in pending(ws) : v.file \notin {"usage", "publication"}
      BY <3>4, ApplyUntouched
    <3>6. PublicationQueued(xs, ws, P, U, R)
      BY <3>1, <3>4, <3>5, PublicationQueue
    <3>7. pending(xs) = ({P} \cup pending(ws)) \cup ({U} \cup {R})
      BY <3>6 DEF PublicationQueued
    <3>8. P.file = "publication" /\ U.file = "usage" /\ R.file = "publication"
      BY <3>1 DEF put, remove
    <3>9. \A v \in applyWrites(disk, tx) : v.file = "records" => v.content = << >>
      BY ApplyKinds
    <3>10. Bare(xs)
      BY <3>4, <3>7, <3>8, <3>9 DEF Bare
    <3>11. disk' = disk /\ writes' = xs /\ holder' = "writing" /\ reply' = NoReply /\ live' = live
      BY <2>6, <3>2 DEF begins
    <3> QED BY <1>1, <1>3, <3>10, <3>11, CallAddsNothing DEF PInv
  <2> QED BY <1>5, <2>3, <2>4, <2>5, <2>6 DEF AcknowledgeOperationHistoryBatch
<1> QED BY <1>4, <1>5

\* Every step keeps the releases apart.
LEMMA ReleaseStep == ASSUME IInv, PInv, [Next]_vars PROVE PInv'
<1>1. CASE UNCHANGED vars
  BY <1>1 DEF vars, processVars, lockVars, callerVars, PInv
<1>2. CASE TakeLock
  BY <1>2, TakeLockAlike
<1>3. ASSUME NEW p \in Release, Open(p) PROVE PInv'
  BY <1>3, OpenAlike
<1>4. CASE Scan
  BY <1>4, ScanAlike
<1>5. CASE Rebuilt
  BY <1>5, RebuiltAlike
<1>6. CASE Return \/ Fail
  BY <1>6, OverAlike
<1>7. CASE Write
  BY <1>7, WriteAlike
<1>8. ASSUME NEW i \in Identity, Reserve(i) \/ CancelReservation(i) PROVE PInv'
  BY <1>8, ReserveAlike, CancelAlike
<1>9. ASSUME NEW i \in Identity, NEW r \in Receipt, AppendValidated(i, r) PROVE PInv'
  BY <1>9, AppendAlike
<1>10. ASSUME NEW t \in live, Abandon(t) PROVE PInv'
  BY <1>10 DEF Abandon, processVars, lockVars, PInv
<1>11. CASE PendingOperationHistoryBatch
  BY <1>11, PendingAlike
<1>12. ASSUME NEW b \in handed, AcknowledgeOperationHistoryBatch(b) PROVE PInv'
  BY <1>12, AcknowledgeAlike
<1> QED BY <1>1, <1>2, <1>3, <1>4, <1>5, <1>6, <1>7, <1>8, <1>9, <1>10, <1>11, <1>12 DEF Next

\* In the empty directory there is nothing to validate.
LEMMA ReleaseInit == Init => PInv
<1> SUFFICES ASSUME Init PROVE PInv
  OBVIOUS
<1>1. disk.records = << >> /\ writes = << >> /\ live = {} /\ reply = NoReply /\ holder = "free" /\ opened = FALSE
  BY DEF Init, EmptyDirectory
<1>2. DOMAIN << >> = {} /\ NoReply.kind = "none"
  BY DEF NoReply
<1>3. ahead(disk, writes) = {}
  BY <1>1, <1>2, NeatNothing DEF ahead, Neat
<1> QED BY <1>1, <1>2, <1>3, NeatNothing DEF PInv

\* The three parts of the invariant together.
LEMMA StoreInvariant == ASSUME ~OverlappingAttempts PROVE Spec => [](IInv /\ RInv /\ PInv)
<1>1. IInv /\ PInv /\ [Next]_vars => PInv'
  BY ReleaseStep
<1> QED BY <1>1, RoomInvariant, ReleaseInit, PTL DEF Spec

-----------------------------------------------------------------------------
(* When recovery refuses.                                                   *)

\* The program that runs validates none of the receipts that wait.
Foreign == DOMAIN disk.records # {} /\ \A i \in DOMAIN disk.records : ~resolves(release', i)

\* A batch is frozen and the files, its descriptor included, come within the
\* publication headroom of the limit, by no more than the descriptor.
FrozenWithin ==
  /\ Exists(disk, "descriptor")
  /\ occupied(accountedUsage(disk)) + Headroom > MaxBytes
  /\ occupied(accountedUsage(disk)) + Headroom <= MaxBytes + DescriptorCharge

\* A call gives up, or a start fails, only when all receipts that wait are of
\* another release, or a frozen batch takes from the headroom: never because of what
\* a crash left behind, nor because of what was reserved, appended or published.
RefusesOnlyForeignOrFrozen ==
  [][holder # "refused" /\ holder' = "refused" => Foreign \/ FrozenWithin]_vars

\* A step that makes a call give up.
LEMMA StepRefusesOnlyForeignOrFrozen ==
  ASSUME IInv, RInv, PInv, Next, holder # "refused", holder' = "refused"
  PROVE  \/ Foreign
         \/ FrozenWithin /\ ~(occupied(accountedUsage(disk)) + Headroom <= MaxBytes)
<1>1. CASE \E i \in DOMAIN disk.records : ~resolves(release', i)
  <2>1. \A i, j \in DOMAIN disk.records : i.release = j.release
    BY DEF PInv, ahead
  <2> QED BY <1>1, <2>1 DEF Foreign, resolves
<1>2. CASE ~fits(accountedUsage(disk)) /\ ~InFlight(disk)
  <2>1. PICK u : u = accountedUsage(disk)
    OBVIOUS
  <2>2. ~fits(u) /\ ~InFlight(disk) /\ Recoverable(disk) /\ Limits(disk)
    BY <1>2, <2>1, RoomHere
  <2>3. Exists(disk, "descriptor") /\ ~(occupied(u) + Headroom <= MaxBytes)
    BY <2>1, <2>2, LimitsFit
  <2>4. occupied(u) \in Nat /\ occupied(u) + Headroom <= MaxBytes + DescriptorCharge
    BY <2>1, <2>2, LimitsBytes
  <2>5. Headroom \in Nat /\ MaxBytes \in Nat
    BY LimitTypes
  <2>6. occupied(u) + Headroom > MaxBytes
    BY <2>3, <2>4, <2>5
  <2> QED BY <2>1, <2>3, <2>4, <2>6 DEF FrozenWithin
<1> QED BY <1>1, <1>2, StepRefusesOnlyWhenFull

\* A step that makes a call give up writes nothing yet.
LEMMA RefusingReads ==
  ASSUME Next, holder # "refused", holder' = "refused" PROVE disk' = disk
<1>1. CASE TakeLock \/ Scan \/ \E p \in Release : Open(p)
  BY <1>1 DEF TakeLock, Scan, Open
<1>2. CASE Rebuilt \/ Write \/ Return \/ Fail
  BY <1>2 DEF Rebuilt, Write, Return, Fail, returnsNow
<1>3. ASSUME NEW i \in Identity, Reserve(i) \/ CancelReservation(i) PROVE FALSE
  BY <1>3 DEF Reserve, CancelReservation, blocks, begins, returnsNow
<1>4. ASSUME NEW i \in Identity, NEW r \in Receipt, AppendValidated(i, r) PROVE FALSE
  BY <1>4 DEF AppendValidated, AppendAgain, AppendPublished, AppendNew, blocks, begins, returnsNow
<1>5. ASSUME NEW t \in live, Abandon(t) PROVE FALSE
  BY <1>5 DEF Abandon, lockVars
<1>6. CASE PendingOperationHistoryBatch
  BY <1>6 DEF PendingOperationHistoryBatch, freezes, blocks, begins, returnsNow
<1>7. ASSUME NEW b \in handed, AcknowledgeOperationHistoryBatch(b) PROVE disk' = disk
  BY <1>7 DEF AcknowledgeOperationHistoryBatch, freezes, blocks, begins, returnsNow
<1> QED BY <1>1, <1>2, <1>3, <1>4, <1>5, <1>6, <1>7 DEF Next

\* A call that gives up touches no record.
LEMMA StaysRefused ==
  ASSUME IInv, PInv, Next, holder = "refused", holder' = "refused", DOMAIN disk.records # {},
         \A i \in DOMAIN disk.records : ~resolves(release, i)
  PROVE  DOMAIN disk'.records # {} /\ \A i \in DOMAIN disk'.records : ~resolves(release', i)
<1>1. ASSUME ~Write PROVE FALSE
  BY <1>1 DEF Next, TakeLock, Scan, Rebuilt, Return, Fail, returnsNow, Open, Reserve, CancelReservation,
              AppendValidated, Abandon, PendingOperationHistoryBatch, AcknowledgeOperationHistoryBatch
<1>2. PICK w \in pending(writes) : disk' = written(disk, w)
  BY <1>1 DEF Write, pending
<1>3. w.file # "records"
  BY DEF PInv, Neat
<1>4. IsDirectory(disk) /\ w.file \in Files /\ "records" \in Files
  BY <1>3 DEF IInv, Inv, Queue, IsWrite, Files
<1>5. disk'.records = disk.records
  BY <1>2, <1>3, <1>4, WrittenFile
<1>6. release' = release
  BY <1>1 DEF Write, processVars
<1> QED BY <1>5, <1>6

\* What OpenOperationHistoryStore and AcknowledgeOperationHistoryBatch find can
\* always be replayed, scanned and applied by the release that appended it, and fits
\* the limits that Reserve checked.  Two things can make rebuildUsageLocked refuse:
\* the validator of another release, which then knows none of the receipts, and the
\* descriptor that writePendingBatchDescriptorLocked lets into the publication
\* headroom.
THEOREM RecoveryIsComplete == ASSUME ~OverlappingAttempts PROVE Spec => RefusesOnlyForeignOrFrozen
<1>1. IInv /\ RInv /\ PInv /\ [Next]_vars =>
        [holder # "refused" /\ holder' = "refused" => Foreign \/ FrozenWithin]_vars
  BY StepRefusesOnlyForeignOrFrozen
<1> QED BY <1>1, StoreInvariant, PTL DEF RefusesOnlyForeignOrFrozen, Spec

\* A frozen batch leaves the whole publication headroom free, its descriptor
\* counted: what rebuildUsageLocked demands and writePendingBatchDescriptorLocked
\* does not.
FrozenFits == Exists(disk, "descriptor") => occupied(accountedUsage(disk)) + Headroom <= MaxBytes

\* As long as no batch is frozen in a store without room for its descriptor
\* beside the headroom, every call and every start recovers from whatever a crash
\* of Reserve, AppendValidated, a publication or a rebuild left, unless the receipts
\* that wait are of another release; and they are all of one release, so that the
\* program of that release recovers them.
THEOREM StoreReopens == ASSUME ~OverlappingAttempts PROVE Spec /\ []FrozenFits => []Reopens
<1> DEFINE OnlyForeign == holder = "refused" =>
                            DOMAIN disk.records # {} /\ \A i \in DOMAIN disk.records : ~resolves(release, i)
<1>1. Init => OnlyForeign
  BY DEF Init
<1>2. IInv /\ RInv /\ PInv /\ FrozenFits /\ OnlyForeign /\ [Next]_vars => OnlyForeign'
  <2> SUFFICES ASSUME IInv, RInv, PInv, FrozenFits, OnlyForeign, [Next]_vars, holder' = "refused"
               PROVE  DOMAIN disk'.records # {} /\ \A i \in DOMAIN disk'.records : ~resolves(release', i)
    OBVIOUS
  <2>1. CASE UNCHANGED vars
    BY <2>1 DEF vars, processVars, lockVars
  <2>2. CASE Next /\ holder # "refused"
    <3>1. Foreign
      BY <2>2, StepRefusesOnlyForeignOrFrozen DEF FrozenFits, FrozenWithin
    <3>2. disk' = disk
      BY <2>2, RefusingReads
    <3> QED BY <3>1, <3>2 DEF Foreign
  <2>3. CASE Next /\ holder = "refused"
    BY <2>3, StaysRefused
  <2> QED BY <2>1, <2>2, <2>3
<1>3. PInv => \A i, j \in DOMAIN disk.records : i.release = j.release
  BY DEF PInv, ahead
<1>4. OnlyForeign /\ PInv => Reopens
  BY <1>3 DEF Reopens
<1> QED BY <1>1, <1>2, <1>4, StoreInvariant, PTL DEF Spec
=============================================================================
