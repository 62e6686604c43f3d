-------------------------- MODULE UploadQueueProofs --------------------------
(***************************************************************************)
(* That the queue never sends a file twice at a time, keeps within the     *)
(* bounds of its pool, forgets no file that could start and announces when *)
(* it has drained: for any number of files, any pool, any thresholds and   *)
(* any loss of the network.                                                *)
(***************************************************************************)
EXTENDS UploadQueue, FiniteSetTheorems, WellFoundedInduction, TLAPS

Item == [status : Statuses, run : {"none", "sending", "backoff"},
         attempt : 0 .. MaxAttempts, sum : BOOLEAN]
Batch == [ids : SUBSET Items, cur : Items, stage : {"hash", "check"}, asked : SUBSET Items]
Policy == [limit : 1 .. MaxConcurrency, failures : 0 .. DropAfter, successes : 0 .. RecoverAfter]

Runs(it) == {i \in Items : it[i].run # "none"}
OneLarge(S) == \A i, j \in S \cap Large : i = j

\* Who runs is uploading; while the queue lives, who is uploading runs and is listed.
ItemsInv(it, L, gone) ==
  /\ it \in [Items -> Item] /\ L \in SUBSET Items
  /\ \A i \in Items : it[i].run # "none" => it[i].status = "uploading"
  /\ ~gone => \A i \in Items : it[i].status = "uploading" => it[i].run # "none" /\ i \in L
  /\ Cardinality(Runs(it)) <= MaxConcurrency /\ OneLarge(Runs(it))
  /\ gone => L = {}

\* A batch hashes one of its files, which the others wait for or went before; then it
\* waits for what it asked.
BatchInv(it, b, n) ==
  /\ b.ids \subseteq 1 .. n - 1 /\ b.asked \subseteq b.ids
  /\ b.stage = "hash" =>
       /\ b.cur \in b.ids /\ it[b.cur].status = "hashing" /\ b.asked = {}
       /\ \A i \in b.ids : it[i].status \in {"pending", "hashing"}
  /\ b.stage = "check" =>
       /\ \A i \in b.ids : it[i].status \in {"hashing", "checking"}
       /\ \A i \in b.asked : it[i].status = "checking"

\* A file is of one batch at most.
BatchesInv(it, bs, n) ==
  /\ bs \subseteq Batch
  /\ \A b \in bs : BatchInv(it, b, n)
  /\ \A b, c \in bs : b # c => b.ids \cap c.ids = {}

FreshInv(it, L, n) ==
  /\ n \in 1 .. MaxItems + 1
  /\ \A i \in Items : i >= n => it[i] = Fresh /\ i \notin L

\* No queued file could start.
Quiet(it, L, limit) == \A i \in Queued(it, L) : ~CanStart(Uploading(it, L), i, limit)

NetInv ==
  /\ online \in BOOLEAN /\ losses \in 0 .. MaxLosses
  /\ events \in 0 .. 2 * losses + IF online THEN 1 ELSE 0

IInv ==
  /\ ItemsInv(item, listed, disposed)
  /\ BatchesInv(item, batches, nextId)
  /\ FreshInv(item, listed, nextId)
  /\ ~paused /\ ~disposed => Quiet(item, listed, policy.limit)
  /\ policy \in Policy
  /\ paused \in BOOLEAN /\ disposed \in BOOLEAN /\ hadActivity \in BOOLEAN
  /\ NetInv

-----------------------------------------------------------------------------
(* The pump: one pass over the list starts exactly those that the policy   *)
(* lets run beside the ones before them.                                   *)

LEMMA LeastNumber ==
  ASSUME NEW S \in SUBSET Nat, S # {}
  PROVE  \E x \in S : \A y \in S : x <= y
<1> DEFINE R == OpToRel(<, Nat)
<1>1. IsWellFoundedOn(R, Nat)
  BY NatLessThanWellFounded
<1>2. PICK x \in S : \A y \in S : ~(<<y, x>> \in R)
  <2> HIDE DEF R
  <2> QED
    BY <1>1, WFMin
<1>3. \A y \in S : ~(y < x)
  BY <1>2 DEF OpToRel
<1> QED
  BY <1>3

\* A pass over the queued files Q, beside the running U, that starts S.
Pass(Q, U, S, limit) ==
  \A i \in Q : i \in S <=> CanStart(U \cup {x \in S : x < i}, i, limit)

\* The choice of the pass exists: it is made along the list.
LEMMA PassExists ==
  ASSUME NEW Q \in SUBSET Items, NEW U, NEW limit
  PROVE  \E S \in SUBSET Q : Pass(Q, U, S, limit)
<1> DEFINE UpTo(n, S) == \A i \in Q : i <= n =>
                             (i \in S <=> CanStart(U \cup {x \in S : x < i}, i, limit))
           Bad == {n \in Nat : ~ \E S \in SUBSET Q : UpTo(n, S)}
<1>1. Q \subseteq Nat /\ 0 \notin Q /\ \A i \in Q : i <= MaxItems
  BY UploadQueueAssumption DEF UploadQueueAssumption, Items
<1>2. Bad = {}
  <2> SUFFICES ASSUME Bad # {} PROVE FALSE
    OBVIOUS
  <2>1. PICK m \in Bad : \A n \in Bad : m <= n
    <3>1. Bad \in SUBSET Nat
      OBVIOUS
    <3> HIDE DEF Bad
    <3> QED
      BY <3>1, LeastNumber
  <2>2. m \in Nat /\ ~ \E S \in SUBSET Q : UpTo(m, S)
    OBVIOUS
  <2>3. UpTo(0, {})
    BY <1>1
  <2>4. m # 0
    <3> HIDE DEF UpTo
    <3>1. {} \in SUBSET Q
      OBVIOUS
    <3> QED
      BY <2>2, <2>3, <3>1
  <2>5. m - 1 \in Nat /\ m - 1 \notin Bad
    BY <2>1, <2>2, <2>4
  <2>6. PICK S \in SUBSET Q : UpTo(m - 1, S)
    BY <2>5
  <2> DEFINE before == {x \in S : x < m}
             T == IF m \in Q /\ CanStart(U \cup before, m, limit) THEN before \cup {m} ELSE before
  <2>7. T \in SUBSET Q
    OBVIOUS
  <2>8. ASSUME NEW i \in Q, i < m
        PROVE  i \in T <=> CanStart(U \cup {x \in T : x < i}, i, limit)
    <3>1. {x \in T : x < i} = {x \in S : x < i}
      <4>1. \A x \in Q : x < i => x < m /\ x # m
        BY <1>1, <2>2, <2>8
      <4>2. \A x \in Q : x < m => (x \in T <=> x \in S)
        BY <1>1, <2>2
      <4> HIDE DEF T
      <4> QED
        BY <2>7, <4>1, <4>2
    <3>2. i \in T <=> i \in S
      BY <1>1, <2>2, <2>8
    <3>3. i <= m - 1
      BY <1>1, <2>2, <2>8
    <3> QED
      BY <2>6, <3>1, <3>2, <3>3
  <2>9. ASSUME m \in Q
        PROVE  m \in T <=> CanStart(U \cup {x \in T : x < m}, m, limit)
    <3>1. {x \in T : x < m} = before
      BY <1>1, <2>2
    <3>2. m \in T <=> CanStart(U \cup before, m, limit)
      BY <1>1, <2>2, <2>9
    <3> QED
      BY <3>1, <3>2
  <2>10. UpTo(m, T)
    <3> SUFFICES ASSUME NEW i \in Q, i <= m
                 PROVE  i \in T <=> CanStart(U \cup {x \in T : x < i}, i, limit)
      OBVIOUS
    <3>1. i < m \/ i = m
      BY <1>1, <2>2
    <3> QED
      BY <2>8, <2>9, <3>1
  <2> HIDE DEF T
  <2> QED
    BY <2>2, <2>7, <2>10
<1>3. PICK S \in SUBSET Q : UpTo(MaxItems, S)
  BY <1>2, UploadQueueAssumption DEF UploadQueueAssumption
<1> QED
  BY <1>1, <1>3 DEF Pass

LEMMA StartedIs ==
  ASSUME NEW it, NEW L \in SUBSET Items, NEW limit
  PROVE  /\ Started(it, L, limit) \in SUBSET Queued(it, L)
         /\ Pass(Queued(it, L), Uploading(it, L), Started(it, L, limit), limit)
<1>1. Queued(it, L) \in SUBSET Items
  BY DEF Queued
<1>2. \E S \in SUBSET Queued(it, L) : Pass(Queued(it, L), Uploading(it, L), S, limit)
  BY <1>1, PassExists
<1>3. Started(it, L, limit) =
        CHOOSE S \in SUBSET Queued(it, L) : Pass(Queued(it, L), Uploading(it, L), S, limit)
  BY DEF Started, Pass
<1> QED
  BY <1>2, <1>3

LEMMA ItemsFinite == IsFiniteSet(Items) /\ \A S \in SUBSET Items : IsFiniteSet(S)
<1>1. IsFiniteSet(Items)
  BY FS_Interval, UploadQueueAssumption DEF UploadQueueAssumption, Items
<1> QED
  BY <1>1, FS_Subset

\* The pool has room for less beside more.
LEMMA CanStartAntitone ==
  ASSUME NEW U \in SUBSET Items, NEW V \in SUBSET U, NEW i, NEW small \in Nat, NEW big \in Nat,
         small <= big, CanStart(U, i, small)
  PROVE  CanStart(V, i, big)
<1>1. IsFiniteSet(U) /\ IsFiniteSet(V)
  BY ItemsFinite
<1>2. Cardinality(V) <= Cardinality(U) /\ Cardinality(V) \in Nat /\ Cardinality(U) \in Nat
  BY <1>1, FS_Subset, FS_CardinalityType
<1> QED
  BY <1>2 DEF CanStart

\* Of a finite set of numbers that is not empty one is the greatest.
LEMMA LastOf ==
  ASSUME NEW S \in SUBSET Items, S # {}
  PROVE  \E x \in S : \A y \in S : y <= x
<1> DEFINE D == {n \in Nat : \E x \in S : n = MaxItems - x}
<1>1. \A x \in S : MaxItems - x \in D
  BY UploadQueueAssumption DEF UploadQueueAssumption, Items
<1>2. D \in SUBSET Nat /\ D # {}
  BY <1>1
<1>3. PICK n \in D : \A k \in D : n <= k
  <2> HIDE DEF D
  <2> QED
    BY <1>2, LeastNumber
<1>4. PICK x \in S : n = MaxItems - x
  BY <1>3
<1>5. \A y \in S : MaxItems - x <= MaxItems - y
  BY <1>1, <1>3, <1>4
<1>6. \A y \in S : y <= x
  BY <1>5, UploadQueueAssumption DEF UploadQueueAssumption, Items
<1> QED
  BY <1>6

\* A pass keeps the bounds of the pool and leaves nobody behind.
LEMMA PassKeeps ==
  ASSUME NEW Q \in SUBSET Items, NEW U \in SUBSET Items, NEW S \in SUBSET Q,
         NEW limit \in 1 .. MaxConcurrency, Pass(Q, U, S, limit),
         Cardinality(U) <= MaxConcurrency, OneLarge(U)
  PROVE  /\ Cardinality(U \cup S) <= MaxConcurrency /\ OneLarge(U \cup S)
         /\ \A i \in Q \ S : ~CanStart(U \cup S, i, limit)
<1>1. Q \subseteq Nat /\ limit \in Nat /\ limit <= MaxConcurrency /\ MaxConcurrency \in Nat
  BY UploadQueueAssumption DEF UploadQueueAssumption, Items
<1>2. ASSUME NEW i \in Q \ S PROVE ~CanStart(U \cup S, i, limit)
  <2>1. ~CanStart(U \cup {x \in S : x < i}, i, limit)
    BY <1>2 DEF Pass
  <2>2. U \cup {x \in S : x < i} \in SUBSET (U \cup S) /\ U \cup S \in SUBSET Items
    OBVIOUS
  <2> QED
    BY <1>1, <2>1, <2>2, CanStartAntitone
<1>3. Cardinality(U \cup S) <= MaxConcurrency
  <2>1. CASE S = {}
    <3>1. U \cup S = U
      BY <2>1
    <3> QED
      BY <3>1
  <2>2. CASE S # {}
    <3>1. PICK m \in S : \A y \in S : y <= m
      BY <2>2, LastOf
    <3> DEFINE W == U \cup {x \in S : x < m}
    <3>2. CanStart(W, m, limit)
      BY <3>1 DEF Pass
    <3>3. U \cup S = W \cup {m}
      <4>1. \A x \in S : x < m \/ x = m
        BY <1>1, <3>1
      <4> QED
        BY <4>1
    <3>4. W \in SUBSET Items /\ IsFiniteSet(W)
      BY ItemsFinite
    <3> HIDE DEF W
    <3>5. Cardinality(W) \in Nat /\ Cardinality(W) < limit
      BY <3>2, <3>4, FS_CardinalityType DEF CanStart
    <3>6. Cardinality(W \cup {m}) \in Nat /\ Cardinality(W \cup {m}) <= Cardinality(W) + 1
      <4>1. Cardinality(W \cup {m}) = IF m \in W THEN Cardinality(W) ELSE Cardinality(W) + 1
        BY <3>4, FS_AddElement
      <4> QED
        BY <3>5, <4>1
    <3> QED
      BY <1>1, <3>3, <3>5, <3>6
  <2> QED
    BY <2>1, <2>2
<1>4. ASSUME NEW i \in (U \cup S) \cap Large, NEW j \in (U \cup S) \cap Large, i # j
      PROVE  FALSE
  <2>1. \A x \in S \cap Large : U \cap Large = {} /\ \A y \in S \cap Large : ~(y < x)
    BY DEF Pass, CanStart
  <2>2. CASE i \in U /\ j \in U
    BY <1>4, <2>2 DEF OneLarge
  <2>3. CASE i \in S
    BY <1>1, <1>4, <2>1, <2>3
  <2>4. CASE j \in S
    BY <1>1, <1>4, <2>1, <2>4
  <2> QED
    BY <2>2, <2>3, <2>4
<1> QED
  BY <1>2, <1>3, <1>4 DEF OneLarge

Sent(it, S) ==
  [i \in Items |-> IF i \in S THEN [it[i] EXCEPT !.status = "uploading", !.run = "sending",
                                                 !.attempt = 1]
                   ELSE it[i]]

\* What a pump leaves: the queued files it started are sent, and the others wait for good
\* reason; a queue that is paused or gone is left as it was.
LEMMA PumpIs ==
  ASSUME NEW it, NEW L \in SUBSET Items, NEW limit, NEW waits
  PROVE  Pump(it, L, limit, waits)
           = IF waits \/ disposed THEN it ELSE Sent(it, Started(it, L, limit))
  BY DEF Pump, Sent

-----------------------------------------------------------------------------
(* What the parts of the invariant rest on.                                *)

\* Nobody starts, and who stops no longer uploads.
LEMMA ItemsFollow ==
  ASSUME NEW it, NEW it2 \in [Items -> Item], NEW L, NEW L2 \in SUBSET Items,
         NEW gone, NEW gone2, ItemsInv(it, L, gone),
         \A i \in Items : it2[i].run # "none" =>
             it[i].run # "none" /\ it2[i].status = "uploading",
         ~gone2 => \A i \in Items : it2[i].status = "uploading" =>
                       it2[i].run # "none" /\ i \in L2,
         gone2 => L2 = {}
  PROVE  ItemsInv(it2, L2, gone2)
<1>1. Runs(it2) \in SUBSET Runs(it) /\ Runs(it) \in SUBSET Items
  BY DEF Runs
<1>2. Cardinality(Runs(it2)) <= Cardinality(Runs(it))
        /\ Cardinality(Runs(it2)) \in Nat /\ Cardinality(Runs(it)) \in Nat
  BY <1>1, ItemsFinite, FS_Subset, FS_CardinalityType
<1>3. Cardinality(Runs(it2)) <= MaxConcurrency /\ OneLarge(Runs(it2))
  BY <1>1, <1>2, UploadQueueAssumption DEF UploadQueueAssumption, ItemsInv, OneLarge
<1> QED
  BY <1>3 DEF ItemsInv

\* A batch goes on as long as nobody else touches its files.
LEMMA BatchesFollow ==
  ASSUME NEW it, NEW it2, NEW bs, NEW bs2 \in SUBSET bs, NEW n, BatchesInv(it, bs, n),
         \A c \in bs2 : \A i \in c.ids : it2[i].status = it[i].status
  PROVE  BatchesInv(it2, bs2, n)
<1>1. bs2 \subseteq Batch
  BY DEF BatchesInv
<1>2. ASSUME NEW c \in bs2 PROVE BatchInv(it2, c, n)
  <2>1. BatchInv(it, c, n)
    BY DEF BatchesInv
  <2>2. \A i \in c.ids : it2[i].status = it[i].status
    OBVIOUS
  <2> QED
    BY <2>1, <2>2 DEF BatchInv
<1> QED
  BY <1>1, <1>2 DEF BatchesInv

\* The same when one of them moves on.
LEMMA BatchesMove ==
  ASSUME NEW it, NEW it2, NEW bs, NEW b \in bs, NEW b2 \in Batch, NEW n, BatchesInv(it, bs, n),
         b2.ids \subseteq b.ids, BatchInv(it2, b2, n),
         \A i \in Items \ b.ids : it2[i].status = it[i].status
  PROVE  BatchesInv(it2, (bs \ {b}) \cup {b2}, n)
<1>1. BatchesInv(it2, bs \ {b}, n)
  <2>1. \A c \in bs \ {b} : \A i \in c.ids : it2[i].status = it[i].status
    BY DEF BatchesInv, Batch
  <2> QED
    BY <2>1, BatchesFollow
<1>2. \A c \in bs \ {b} : c.ids \cap b2.ids = {} /\ b2.ids \cap c.ids = {}
  BY DEF BatchesInv
<1> QED
  BY <1>1, <1>2 DEF BatchesInv

\* What a pump did to a file.
Pumped(x, y) ==
  x.status = "queued" /\ y \in Item /\ y.status = "uploading" /\ y.run = "sending"

LEMMA PumpTouches ==
  ASSUME NEW it \in [Items -> Item], NEW L \in SUBSET Items, NEW limit, NEW waits
  PROVE  \A i \in Items : \/ Pump(it, L, limit, waits)[i] = it[i]
                          \/ /\ ~disposed /\ i \in L
                             /\ Pumped(it[i], Pump(it, L, limit, waits)[i])
<1> DEFINE S == Started(it, L, limit)
<1>1. CASE waits \/ disposed
  BY <1>1 DEF Pump
<1>2. CASE ~(waits \/ disposed)
  <2>1. Pump(it, L, limit, waits) = Sent(it, S)
    BY <1>2, PumpIs
  <2>2. \A i \in S : i \in L /\ i \in Items /\ it[i].status = "queued"
    <3>1. S \in SUBSET Queued(it, L)
      BY StartedIs
    <3> QED
      BY <3>1 DEF Queued
  <2> HIDE DEF S
  <2>3. ASSUME NEW i \in S PROVE Pumped(it[i], Sent(it, S)[i])
    <3>1. it[i] \in Item /\ i \in Items /\ 1 \in 0 .. MaxAttempts
      BY <2>2, UploadQueueAssumption DEF UploadQueueAssumption
    <3>2. Sent(it, S)[i] = [it[i] EXCEPT !.status = "uploading", !.run = "sending", !.attempt = 1]
      BY <3>1 DEF Sent
    <3> QED
      BY <2>2, <3>1, <3>2 DEF Pumped, Item, Statuses
  <2>4. \A i \in Items \ S : Sent(it, S)[i] = it[i]
    BY DEF Sent
  <2> QED
    BY <1>2, <2>1, <2>2, <2>3, <2>4
<1> QED
  BY <1>1, <1>2

LEMMA PumpKeeps ==
  ASSUME NEW it, NEW L, ItemsInv(it, L, disposed), NEW limit \in 1 .. MaxConcurrency, NEW waits
  PROVE  /\ ItemsInv(Pump(it, L, limit, waits), L, disposed)
         /\ ~waits /\ ~disposed => Quiet(Pump(it, L, limit, waits), L, limit)
<1>1. CASE waits \/ disposed
  <2>1. Pump(it, L, limit, waits) = it
    BY <1>1 DEF Pump
  <2> QED
    BY <1>1, <2>1
<1>2. CASE ~(waits \/ disposed)
  <2> DEFINE S == Started(it, L, limit)
             Q == Queued(it, L)
             U == Uploading(it, L)
             it2 == Sent(it, S)
  <2>1. Pump(it, L, limit, waits) = it2 /\ L \in SUBSET Items /\ it \in [Items -> Item]
    BY <1>2, PumpIs DEF ItemsInv
  <2>2. S \in SUBSET Q /\ Pass(Q, U, S, limit)
    BY <2>1, StartedIs
  <2>3. /\ Q \in SUBSET L /\ U \in SUBSET L /\ Q \in SUBSET Items /\ U \in SUBSET Items
        /\ \A i \in Items : i \in Q <=> i \in L /\ it[i].status = "queued"
        /\ \A i \in Items : i \in U <=> i \in L /\ it[i].status = "uploading"
    BY <2>1 DEF Queued, Uploading
  <2>4. U = Runs(it)
    BY <1>2, <2>1, <2>3 DEF ItemsInv, Runs
  <2> HIDE DEF S, Q, U
  <2>5. \A i \in Items \ S : it2[i] = it[i]
    BY DEF Sent
  <2>6. \A i \in S : it2[i] \in Item /\ it2[i].status = "uploading" /\ it2[i].run = "sending"
    <3> SUFFICES ASSUME NEW i \in S
                 PROVE  it2[i] \in Item /\ it2[i].status = "uploading" /\ it2[i].run = "sending"
      OBVIOUS
    <3>1. i \in Items /\ it[i] \in Item /\ it[i].status = "queued"
      BY <2>1, <2>2, <2>3
    <3>2. it2[i] = [it[i] EXCEPT !.status = "uploading", !.run = "sending", !.attempt = 1]
      BY <3>1 DEF Sent
    <3>3. 1 \in 0 .. MaxAttempts
      BY UploadQueueAssumption DEF UploadQueueAssumption
    <3> QED
      BY <3>1, <3>2, <3>3 DEF Item, Statuses
  <2>7. it2 \in [Items -> Item]
    <3>1. \A i \in Items : it2[i] \in Item
      BY <2>1, <2>5, <2>6
    <3> QED
      BY <3>1 DEF Sent
  <2> HIDE DEF it2
  <2>8. /\ Cardinality(U \cup S) <= MaxConcurrency /\ OneLarge(U \cup S)
        /\ \A i \in Q \ S : ~CanStart(U \cup S, i, limit)
    BY <2>2, <2>3, <2>4, PassKeeps DEF ItemsInv
  <2>9. Runs(it2) = U \cup S
    BY <2>2, <2>3, <2>4, <2>5, <2>6 DEF Runs
  <2>10. ItemsInv(it2, L, disposed)
    BY <1>2, <2>1, <2>2, <2>3, <2>5, <2>6, <2>7, <2>8, <2>9 DEF ItemsInv
  <2>11. Queued(it2, L) = Q \ S /\ Uploading(it2, L) = U \cup S
    BY <2>1, <2>2, <2>3, <2>5, <2>6 DEF Queued, Uploading
  <2>12. Quiet(it2, L, limit)
    BY <2>8, <2>11 DEF Quiet
  <2> QED
    BY <2>1, <2>10, <2>12
<1> QED
  BY <1>1, <1>2

\* Less that waits, more that runs and a lower limit leave the queue quiet.
LEMMA QuietFollows ==
  ASSUME NEW it, NEW it2, NEW L \in SUBSET Items, NEW L2 \in SUBSET Items,
         NEW limit \in Nat, NEW limit2 \in Nat, Quiet(it, L, limit), limit2 <= limit,
         \A i \in L2 : it2[i].status = "queued" => i \in L /\ it[i].status = "queued",
         \A i \in L : it[i].status = "uploading" => i \in L2 /\ it2[i].status = "uploading"
  PROVE  Quiet(it2, L2, limit2)
<1> SUFFICES ASSUME NEW i \in Queued(it2, L2), CanStart(Uploading(it2, L2), i, limit2)
             PROVE  FALSE
  BY DEF Quiet
<1>1. i \in Queued(it, L)
  BY DEF Queued
<1>2. Uploading(it2, L2) \in SUBSET Items /\ Uploading(it, L) \in SUBSET Uploading(it2, L2)
  BY DEF Uploading
<1>3. CanStart(Uploading(it, L), i, limit)
  BY <1>2, CanStartAntitone
<1> QED
  BY <1>1, <1>3 DEF Quiet

\* The pool's limit moves by one, between one and the baseline.
LEMMA PolicyFollows ==
  ASSUME NEW p \in Policy
  PROVE  /\ NoteSuccess(p) \in Policy
         /\ NoteRetryableFailure(p) \in Policy /\ NoteRetryableFailure(p).limit <= p.limit
<1>1. /\ DropAfter \in Nat \ {0} /\ RecoverAfter \in Nat \ {0} /\ MaxConcurrency \in Nat \ {0}
      /\ p.limit \in 1 .. MaxConcurrency /\ p.failures \in 0 .. DropAfter
      /\ p.successes \in 0 .. RecoverAfter
  BY UploadQueueAssumption DEF UploadQueueAssumption, Policy
<1>2. /\ Least(p.successes + 1, RecoverAfter) \in 0 .. RecoverAfter
      /\ Least(p.failures + 1, DropAfter) \in 0 .. DropAfter
      /\ 0 \in 0 .. RecoverAfter /\ 0 \in 0 .. DropAfter
  BY <1>1 DEF Least
<1>3. NoteSuccess(p) \in Policy
  <2>1. CASE p.successes + 1 >= RecoverAfter /\ p.limit < MaxConcurrency
    <3>1. NoteSuccess(p) = [limit |-> p.limit + 1, failures |-> 0, successes |-> 0]
      BY <2>1 DEF NoteSuccess
    <3>2. p.limit + 1 \in 1 .. MaxConcurrency
      BY <1>1, <2>1
    <3> QED
      BY <1>2, <3>1, <3>2 DEF Policy
  <2>2. CASE ~(p.successes + 1 >= RecoverAfter /\ p.limit < MaxConcurrency)
    <3>1. NoteSuccess(p) = [p EXCEPT !.failures = 0,
                                     !.successes = Least(p.successes + 1, RecoverAfter)]
      BY <2>2 DEF NoteSuccess
    <3> QED
      BY <1>2, <3>1 DEF Policy
  <2> QED
    BY <2>1, <2>2
<1>4. NoteRetryableFailure(p) \in Policy /\ NoteRetryableFailure(p).limit <= p.limit
  <2>1. CASE p.failures + 1 >= DropAfter /\ p.limit > 1
    <3>1. NoteRetryableFailure(p) = [limit |-> p.limit - 1, failures |-> 0, successes |-> 0]
      BY <2>1 DEF NoteRetryableFailure
    <3>2. p.limit - 1 \in 1 .. MaxConcurrency /\ p.limit - 1 <= p.limit
      BY <1>1, <2>1
    <3> QED
      BY <1>2, <3>1, <3>2 DEF Policy
  <2>2. CASE ~(p.failures + 1 >= DropAfter /\ p.limit > 1)
    <3>1. NoteRetryableFailure(p) = [p EXCEPT !.successes = 0,
                                              !.failures = Least(p.failures + 1, DropAfter)]
      BY <2>2 DEF NoteRetryableFailure
    <3>2. NoteRetryableFailure(p).limit = p.limit
      BY <3>1 DEF Policy
    <3>3. NoteRetryableFailure(p) \in Policy
      BY <1>2, <3>1 DEF Policy
    <3> QED
      BY <1>1, <3>2, <3>3
  <2> QED
    BY <2>1, <2>2
<1> QED
  BY <1>3, <1>4

-----------------------------------------------------------------------------
(* The steps.                                                              *)

LEMMA InitIInv == Init => IInv
<1> SUFFICES ASSUME Init PROVE IInv
  OBVIOUS
<1>1. Fresh \in Item /\ Fresh.run = "none" /\ Fresh.status = "pending"
  BY UploadQueueAssumption DEF UploadQueueAssumption, Fresh, Item, Statuses
<1>2. item = [i \in Items |-> Fresh] /\ listed = {} /\ batches = {} /\ nextId = 1
  BY DEF Init
<1>3. Runs(item) = {}
  BY <1>1, <1>2 DEF Runs
<1>4. Cardinality(Runs(item)) <= MaxConcurrency /\ OneLarge(Runs(item))
  BY <1>3, FS_EmptySet, UploadQueueAssumption DEF UploadQueueAssumption, OneLarge
<1>5. ItemsInv(item, listed, disposed)
  BY <1>1, <1>2, <1>4 DEF ItemsInv
<1>6. BatchesInv(item, batches, nextId)
  BY <1>2 DEF BatchesInv
<1>7. FreshInv(item, listed, nextId)
  BY <1>2, UploadQueueAssumption DEF UploadQueueAssumption, FreshInv
<1>8. Quiet(item, listed, policy.limit)
  BY <1>2 DEF Quiet, Queued
<1>9. policy \in Policy
  BY UploadQueueAssumption DEF UploadQueueAssumption, Init, Policy
<1>10. paused \in BOOLEAN /\ disposed \in BOOLEAN /\ hadActivity \in BOOLEAN
  BY DEF Init
<1>11. NetInv
  BY UploadQueueAssumption DEF UploadQueueAssumption, Init, NetInv
<1> QED
  BY <1>5, <1>6, <1>7, <1>8, <1>9, <1>10, <1>11 DEF IInv

\* A step that ends in a pump: what it pumps has to be sound, and is quiet afterwards.
LEMMA PumpStep ==
  ASSUME NEW it, NEW limit, IInv,
         ItemsInv(it, listed, disposed), BatchesInv(it, batches', nextId),
         FreshInv(it, listed, nextId),
         item' = Pump(it, listed, limit, paused'), policy' \in Policy, policy'.limit = limit,
         paused' \in BOOLEAN, hadActivity' \in BOOLEAN,
         UNCHANGED <<listed, nextId, disposed>>, NetInv'
  PROVE  IInv'
<1>1. limit \in 1 .. MaxConcurrency
  BY DEF Policy
<1>2. /\ ItemsInv(item', listed, disposed)
      /\ ~paused' /\ ~disposed => Quiet(item', listed, limit)
      /\ \A i \in Items : \/ item'[i] = it[i]
                          \/ i \in listed /\ it[i].status = "queued"
  <2>1. it \in [Items -> Item] /\ listed \in SUBSET Items
    BY DEF ItemsInv
  <2> QED
    BY <1>1, <2>1, PumpKeeps, PumpTouches DEF Pumped
<1>3. BatchesInv(item', batches', nextId)
  <2>1. ASSUME NEW c \in batches', NEW i \in c.ids PROVE item'[i].status = it[i].status
    <3>1. i \in Items /\ it[i].status # "queued"
      BY DEF BatchesInv, BatchInv, Batch
    <3> QED
      BY <1>2, <3>1
  <2> QED
    BY <2>1, BatchesFollow
<1>4. FreshInv(item', listed, nextId)
  BY <1>2 DEF FreshInv
<1> QED
  BY <1>2, <1>3, <1>4 DEF IInv

LEMMA SetStatusIs ==
  ASSUME NEW it \in [Items -> Item], NEW S, NEW st \in Statuses
  PROVE  /\ SetStatus(it, S, st) \in [Items -> Item]
         /\ \A i \in Items : /\ SetStatus(it, S, st)[i].run = it[i].run
                             /\ i \in S => SetStatus(it, S, st)[i].status = st
                             /\ i \notin S => SetStatus(it, S, st)[i] = it[i]
<1> DEFINE it2 == SetStatus(it, S, st)
<1>1. it2 = [i \in Items |-> IF i \in S THEN [it[i] EXCEPT !.status = st] ELSE it[i]]
  BY DEF SetStatus
<1> HIDE DEF it2
<1>2. ASSUME NEW i \in Items
      PROVE  /\ it2[i] \in Item /\ it2[i].run = it[i].run
             /\ i \in S => it2[i].status = st
             /\ i \notin S => it2[i] = it[i]
  <2>1. it[i] \in Item
    OBVIOUS
  <2>2. [it[i] EXCEPT !.status = st] \in Item /\ [it[i] EXCEPT !.status = st].run = it[i].run
          /\ [it[i] EXCEPT !.status = st].status = st
    BY <2>1 DEF Item
  <2> QED
    BY <1>1, <2>1, <2>2
<1> QED
  BY <1>1, <1>2 DEF it2

\* A batch that touches its own files only, and sends none.
LEMMA OfBatch ==
  ASSUME IInv, NEW b \in batches, NEW it \in [Items -> Item],
         \A i \in Items : it[i].run = item[i].run,
         \A i \in Items \ b.ids : it[i] = item[i],
         \A i \in b.ids : it[i].status # "uploading"
  PROVE  /\ ItemsInv(it, listed, disposed)
         /\ BatchesInv(it, batches \ {b}, nextId)
         /\ FreshInv(it, listed, nextId)
<1>1. /\ ItemsInv(item, listed, disposed) /\ BatchesInv(item, batches, nextId)
      /\ FreshInv(item, listed, nextId)
  BY DEF IInv
<1>2. b.ids \in SUBSET Items /\ \A i \in b.ids : item[i].status # "uploading" /\ i < nextId
  <2>1. /\ b.ids \in SUBSET Items /\ b.ids \subseteq 1 .. nextId - 1 /\ nextId \in Nat
        /\ b.stage \in {"hash", "check"}
    BY <1>1, UploadQueueAssumption
       DEF UploadQueueAssumption, BatchesInv, BatchInv, Batch, FreshInv
  <2>2. \A i \in b.ids : item[i].status \in {"pending", "hashing", "checking"}
    BY <1>1, <2>1 DEF BatchesInv, BatchInv
  <2> QED
    BY <2>1, <2>2
<1>3. ItemsInv(it, listed, disposed)
  <2>1. \A i \in Items : it[i].status = "uploading" => item[i].status = "uploading"
    OBVIOUS
  <2>2. \A i \in Items : it[i].run # "none" => item[i].run # "none" /\ it[i].status = "uploading"
    BY <1>1, <1>2 DEF ItemsInv
  <2>3. listed \in SUBSET Items /\ (disposed => listed = {})
    BY <1>1 DEF ItemsInv
  <2>4. ~disposed => \A i \in Items :
          it[i].status = "uploading" => it[i].run # "none" /\ i \in listed
    BY <1>1, <2>1 DEF ItemsInv
  <2> QED
    BY <1>1, <2>2, <2>3, <2>4, ItemsFollow
<1>4. BatchesInv(it, batches \ {b}, nextId)
  <2>1. ASSUME NEW c \in batches \ {b}, NEW i \in c.ids PROVE it[i].status = item[i].status
    BY <1>1 DEF BatchesInv, Batch
  <2> QED
    BY <1>1, <2>1, BatchesFollow
<1>5. FreshInv(it, listed, nextId)
  <2>1. \A i \in Items : i >= nextId => i \notin b.ids
    BY <1>1, <1>2 DEF FreshInv, Items
  <2> QED
    BY <1>1, <2>1 DEF FreshInv
<1> QED
  BY <1>3, <1>4, <1>5

\* The queue is as quiet as it was while the batch has queued nothing.
LEMMA OfBatchQuiet ==
  ASSUME IInv, NEW b \in batches, NEW it,
         \A i \in Items \ b.ids : it[i] = item[i],
         \A i \in b.ids : it[i].status # "queued",
         \A i \in b.ids : it[i].status # "uploading"
  PROVE  ~paused /\ ~disposed => Quiet(it, listed, policy.limit)
<1> SUFFICES ASSUME ~paused, ~disposed PROVE Quiet(it, listed, policy.limit)
  OBVIOUS
<1>1. Quiet(item, listed, policy.limit) /\ listed \in SUBSET Items /\ policy.limit \in Nat
  BY DEF IInv, ItemsInv, Policy
<1>2. \A i \in b.ids : item[i].status # "uploading"
  <2>1. BatchInv(item, b, nextId) /\ b \in Batch
    BY DEF IInv, BatchesInv
  <2> QED
    BY <2>1 DEF BatchInv, Batch
<1>3. /\ \A i \in listed : it[i].status = "queued" => i \in listed /\ item[i].status = "queued"
      /\ \A i \in listed : item[i].status = "uploading" =>
             i \in listed /\ it[i].status = "uploading"
  BY <1>1, <1>2
<1> QED
  BY <1>1, <1>3, QuietFollows

Ended(ids, it) ==
  [i \in Items |-> IF i \in ids /\ it[i].status \in {"hashing", "checking"}
                     THEN [it[i] EXCEPT !.status = "queued"] ELSE it[i]]

LEMMA EndedIs ==
  ASSUME NEW it \in [Items -> Item], NEW ids
  PROVE  /\ Ended(ids, it) \in [Items -> Item]
         /\ \A i \in Items : /\ Ended(ids, it)[i].run = it[i].run
                             /\ i \notin ids => Ended(ids, it)[i] = it[i]
                             /\ \/ Ended(ids, it)[i] = it[i]
                                \/ /\ it[i].status \in {"hashing", "checking"}
                                   /\ Ended(ids, it)[i].status = "queued"
<1> DEFINE it2 == Ended(ids, it)
<1>1. it2 = [i \in Items |-> IF i \in ids /\ it[i].status \in {"hashing", "checking"}
                               THEN [it[i] EXCEPT !.status = "queued"] ELSE it[i]]
  BY DEF Ended
<1> HIDE DEF it2
<1>2. ASSUME NEW i \in Items
      PROVE  /\ it2[i] \in Item /\ it2[i].run = it[i].run
             /\ i \notin ids => it2[i] = it[i]
             /\ \/ it2[i] = it[i]
                \/ it[i].status \in {"hashing", "checking"} /\ it2[i].status = "queued"
  <2>1. it[i] \in Item
    OBVIOUS
  <2>2. [it[i] EXCEPT !.status = "queued"] \in Item
          /\ [it[i] EXCEPT !.status = "queued"].run = it[i].run
          /\ [it[i] EXCEPT !.status = "queued"].status = "queued"
    BY <2>1 DEF Item, Statuses
  <2> QED
    BY <1>1, <2>1, <2>2
<1> QED
  BY <1>1, <1>2 DEF it2

\* A batch that ends queues what is left of it and pumps.
LEMMA EndBatchKeeps ==
  ASSUME IInv, NEW b \in batches, NEW ids, ids \subseteq b.ids, NEW it \in [Items -> Item],
         \A i \in Items : it[i].run = item[i].run,
         \A i \in Items \ b.ids : it[i] = item[i],
         \A i \in b.ids : it[i].status # "uploading",
         EndBatch(ids, it), batches' = batches \ {b},
         UNCHANGED <<listed, nextId, policy, paused, disposed, netVars>>
  PROVE  IInv'
<1> DEFINE it2 == Ended(ids, it)
<1>1. /\ item' = Pump(it2, listed, policy.limit, paused)
      /\ hadActivity' = (hadActivity /\ (disposed \/ IsActive(item', listed)))
  BY DEF EndBatch, PumpAndSettle, Ended
<1>2. /\ it2 \in [Items -> Item]
      /\ \A i \in Items : it2[i].run = item[i].run
      /\ \A i \in Items \ b.ids : it2[i] = item[i]
  BY EndedIs
<1>3. b.ids \in SUBSET Items
  BY DEF IInv, BatchesInv, Batch
<1>4. \A i \in b.ids : it2[i].status # "uploading"
  BY <1>3, EndedIs
<1> HIDE DEF it2
<1>5. /\ ItemsInv(it2, listed, disposed) /\ BatchesInv(it2, batches', nextId)
      /\ FreshInv(it2, listed, nextId)
  BY <1>2, <1>4, OfBatch
<1>6. hadActivity' \in BOOLEAN
  BY <1>1
<1>7. paused' = paused /\ paused' \in BOOLEAN /\ policy' = policy /\ policy' \in Policy
  BY DEF IInv
<1>8. NetInv'
  BY DEF IInv, NetInv, netVars
<1> QED
  BY <1>1, <1>5, <1>6, <1>7, <1>8, PumpStep

\* Learning a checksum moves no file.
LEMMA HashedIs ==
  ASSUME IInv, NEW b \in batches, b.stage = "hash", NEW ok \in BOOLEAN
  PROVE  /\ [item EXCEPT ![b.cur].sum = ok] \in [Items -> Item]
         /\ \A i \in Items : /\ [item EXCEPT ![b.cur].sum = ok][i].run = item[i].run
                             /\ [item EXCEPT ![b.cur].sum = ok][i].status = item[i].status
                             /\ i \notin b.ids => [item EXCEPT ![b.cur].sum = ok][i] = item[i]
<1> DEFINE hashed == [item EXCEPT ![b.cur].sum = ok]
<1>1. item \in [Items -> Item] /\ b.cur \in b.ids /\ b.cur \in Items
  BY DEF IInv, ItemsInv, BatchesInv, BatchInv, Batch
<1>2. /\ [item[b.cur] EXCEPT !.sum = ok] \in Item
      /\ [item[b.cur] EXCEPT !.sum = ok].run = item[b.cur].run
      /\ [item[b.cur] EXCEPT !.sum = ok].status = item[b.cur].status
  <2>1. item[b.cur] \in Item
    BY <1>1
  <2> QED
    BY <2>1 DEF Item
<1>3. hashed = [item EXCEPT ![b.cur] = [item[b.cur] EXCEPT !.sum = ok]]
  BY <1>1
<1> HIDE DEF hashed
<1>4. /\ hashed \in [Items -> Item]
      /\ \A i \in Items : /\ hashed[i].run = item[i].run /\ hashed[i].status = item[i].status
                          /\ i \notin b.ids => hashed[i] = item[i]
  BY <1>1, <1>2, <1>3
<1> QED
  BY <1>4 DEF hashed

LEMMA HashDoneKeeps ==
  ASSUME IInv, NEW b \in batches, NEW ok \in BOOLEAN, HashDone(b, ok)
  PROVE  IInv'
<1> DEFINE hashed == [item EXCEPT ![b.cur].sum = ok]
           later  == {i \in b.ids \cap listed : i > b.cur /\ item[i].status = "pending"}
           mine   == {i \in b.ids \cap listed : item[i].status = "hashing"}
           asked  == {i \in mine : hashed[i].sum}
<1>1. /\ b \in Batch /\ BatchInv(item, b, nextId) /\ b.stage = "hash"
      /\ item \in [Items -> Item] /\ batches \subseteq Batch
      /\ BatchesInv(item, batches, nextId) /\ listed \in SUBSET Items
  BY DEF IInv, ItemsInv, BatchesInv, HashDone
<1>2. /\ b.ids \in SUBSET Items /\ b.cur \in b.ids /\ b.cur \in Items /\ b.asked = {}
      /\ item[b.cur].status = "hashing"
      /\ \A i \in b.ids : item[i].status \in {"pending", "hashing"}
      /\ b.ids \subseteq 1 .. nextId - 1
  BY <1>1 DEF Batch, BatchInv
<1>3. /\ hashed \in [Items -> Item]
      /\ \A i \in Items : hashed[i].run = item[i].run /\ hashed[i].status = item[i].status
      /\ \A i \in Items \ b.ids : hashed[i] = item[i]
  BY <1>1, HashedIs
<1>4. /\ UNCHANGED <<listed, nextId, policy, paused, disposed, netVars>>
      /\ \/ /\ disposed
            /\ batches' = batches \ {b}
            /\ item' = hashed
            /\ UNCHANGED hadActivity
         \/ /\ ~disposed /\ later # {}
            /\ \E i \in later :
                 /\ \A k \in later : i <= k
                 /\ item' = SetStatus(hashed, {i}, "hashing")
                 /\ batches' = (batches \ {b}) \cup {[b EXCEPT !.cur = i]}
            /\ UNCHANGED hadActivity
         \/ /\ ~disposed /\ later = {} /\ asked # {}
            /\ item' = SetStatus(hashed, asked, "checking")
            /\ batches' = (batches \ {b})
                 \cup {[b EXCEPT !.stage = "check", !.ids = mine, !.asked = asked]}
            /\ UNCHANGED hadActivity
         \/ /\ ~disposed /\ later = {} /\ asked = {}
            /\ EndBatch(mine, hashed)
            /\ batches' = batches \ {b}
  BY DEF HashDone
<1>5. /\ policy' \in Policy /\ paused' \in BOOLEAN /\ disposed' \in BOOLEAN
      /\ hadActivity \in BOOLEAN /\ NetInv'
  BY <1>4 DEF IInv, NetInv, netVars
<1>6. /\ mine \subseteq b.ids /\ later \subseteq b.ids /\ asked \subseteq mine
      /\ \A i \in mine : item[i].status = "hashing"
  OBVIOUS
<1> HIDE DEF hashed, later, mine, asked
<1>7. \A i \in b.ids : /\ hashed[i].status # "uploading" /\ hashed[i].status # "queued"
                       /\ hashed[i].status \in {"pending", "hashing"}
  BY <1>2, <1>3
<1>8. CASE disposed /\ batches' = batches \ {b} /\ item' = hashed /\ UNCHANGED hadActivity
  <2>1. /\ ItemsInv(item', listed, disposed) /\ BatchesInv(item', batches', nextId)
        /\ FreshInv(item', listed, nextId)
    BY <1>3, <1>7, <1>8, OfBatch
  <2> QED
    BY <1>4, <1>5, <1>8, <2>1 DEF IInv
<1>9. ASSUME ~disposed, NEW i \in later, item' = SetStatus(hashed, {i}, "hashing"),
             batches' = (batches \ {b}) \cup {[b EXCEPT !.cur = i]}, UNCHANGED hadActivity
      PROVE  IInv'
  <2> DEFINE b2 == [b EXCEPT !.cur = i]
  <2>1. i \in b.ids /\ i \in Items
    BY <1>2, <1>6
  <2>2. "hashing" \in Statuses
    BY DEF Statuses
  <2>3. /\ item' \in [Items -> Item]
        /\ \A k \in Items : item'[k].run = hashed[k].run /\ (k # i => item'[k] = hashed[k])
        /\ item'[i].status = "hashing"
    BY <1>3, <1>9, <2>1, <2>2, SetStatusIs
  <2>4. /\ \A k \in Items : item'[k].run = item[k].run
        /\ \A k \in Items \ b.ids : item'[k] = item[k]
        /\ \A k \in b.ids : item'[k].status # "uploading" /\ item'[k].status # "queued"
        /\ \A k \in b.ids : item'[k].status \in {"pending", "hashing"}
    BY <1>2, <1>3, <1>7, <2>1, <2>3
  <2>5. ItemsInv(item', listed, disposed) /\ FreshInv(item', listed, nextId)
    BY <2>3, <2>4, OfBatch
  <2>6. b2 \in Batch /\ b2.ids = b.ids /\ b2.cur = i /\ b2.stage = "hash" /\ b2.asked = {}
    BY <1>1, <1>2, <2>1 DEF Batch
  <2> HIDE DEF b2
  <2>7. BatchInv(item', b2, nextId)
    BY <1>2, <2>1, <2>3, <2>4, <2>6 DEF BatchInv
  <2>8. BatchesInv(item', batches', nextId)
    <3>1. b2.ids \subseteq b.ids /\ \A k \in Items \ b.ids : item'[k].status = item[k].status
      BY <2>4, <2>6
    <3>2. batches' = (batches \ {b}) \cup {b2}
      BY <1>9 DEF b2
    <3> QED
      BY <1>1, <2>6, <2>7, <3>1, <3>2, BatchesMove
  <2>9. ~paused /\ ~disposed => Quiet(item', listed, policy.limit)
    BY <2>4, OfBatchQuiet
  <2> QED
    BY <1>4, <1>5, <1>9, <2>5, <2>8, <2>9 DEF IInv
<1>10. ASSUME ~disposed, item' = SetStatus(hashed, asked, "checking"),
              batches' = (batches \ {b})
                \cup {[b EXCEPT !.stage = "check", !.ids = mine, !.asked = asked]},
              UNCHANGED hadActivity
       PROVE  IInv'
  <2> DEFINE b2 == [b EXCEPT !.stage = "check", !.ids = mine, !.asked = asked]
  <2>1. "checking" \in Statuses
    BY DEF Statuses
  <2>2. /\ item' \in [Items -> Item]
        /\ \A k \in Items : /\ item'[k].run = hashed[k].run
                            /\ k \notin asked => item'[k] = hashed[k]
                            /\ k \in asked => item'[k].status = "checking"
    BY <1>3, <1>10, <2>1, SetStatusIs
  <2>3. /\ \A k \in Items : item'[k].run = item[k].run
        /\ \A k \in Items \ b.ids : item'[k] = item[k]
        /\ \A k \in b.ids : item'[k].status # "uploading" /\ item'[k].status # "queued"
        /\ \A k \in mine : item'[k].status \in {"hashing", "checking"}
        /\ \A k \in asked : item'[k].status = "checking"
    BY <1>2, <1>3, <1>6, <1>7, <2>2
  <2>4. ItemsInv(item', listed, disposed) /\ FreshInv(item', listed, nextId)
    BY <2>2, <2>3, OfBatch
  <2>5. mine \in SUBSET Items /\ asked \in SUBSET Items
    BY <1>2, <1>6
  <2>6. b2 \in Batch /\ b2.ids = mine /\ b2.stage = "check" /\ b2.asked = asked
    BY <1>1, <2>5 DEF Batch
  <2> HIDE DEF b2
  <2>7. BatchInv(item', b2, nextId)
    BY <1>2, <1>6, <2>3, <2>6 DEF BatchInv
  <2>8. BatchesInv(item', batches', nextId)
    <3>1. b2.ids \subseteq b.ids /\ \A k \in Items \ b.ids : item'[k].status = item[k].status
      BY <1>6, <2>3, <2>6
    <3>2. batches' = (batches \ {b}) \cup {b2}
      BY <1>10 DEF b2
    <3> QED
      BY <1>1, <2>6, <2>7, <3>1, <3>2, BatchesMove
  <2>9. ~paused /\ ~disposed => Quiet(item', listed, policy.limit)
    BY <2>3, OfBatchQuiet
  <2> QED
    BY <1>4, <1>5, <1>10, <2>4, <2>8, <2>9 DEF IInv
<1>11. CASE EndBatch(mine, hashed) /\ batches' = batches \ {b}
  <2>1. /\ \A i \in Items : hashed[i].run = item[i].run
        /\ \A i \in Items \ b.ids : hashed[i] = item[i]
        /\ \A i \in b.ids : hashed[i].status # "uploading"
    BY <1>3, <1>7
  <2> QED
    BY <1>3, <1>4, <1>6, <1>11, <2>1, EndBatchKeeps
<1> QED
  BY <1>4, <1>8, <1>9, <1>10, <1>11

LEMMA CheckDoneKeeps ==
  ASSUME IInv, NEW b \in batches, NEW dups \in SUBSET b.asked, CheckDone(b, dups)
  PROVE  IInv'
<1> DEFINE checked == SetStatus(item, dups, "duplicate")
<1>1. /\ b \in Batch /\ BatchInv(item, b, nextId) /\ b.stage = "check"
      /\ item \in [Items -> Item]
  BY DEF IInv, ItemsInv, BatchesInv, CheckDone
<1>2. /\ b.ids \in SUBSET Items /\ dups \subseteq b.ids
      /\ \A i \in b.ids : item[i].status \in {"hashing", "checking"}
  BY <1>1 DEF Batch, BatchInv
<1>3. /\ UNCHANGED <<listed, nextId, policy, paused, disposed, netVars>>
      /\ batches' = batches \ {b}
      /\ IF disposed THEN item' = checked /\ UNCHANGED hadActivity
                     ELSE EndBatch(b.ids, checked)
  BY DEF CheckDone
<1>4. "duplicate" \in Statuses
  BY DEF Statuses
<1>5. /\ checked \in [Items -> Item]
      /\ \A i \in Items : checked[i].run = item[i].run
      /\ \A i \in dups : checked[i].status = "duplicate"
      /\ \A i \in Items \ dups : checked[i] = item[i]
  BY <1>1, <1>2, <1>4, SetStatusIs
<1> HIDE DEF checked
<1>6. /\ \A i \in Items \ b.ids : checked[i] = item[i]
      /\ \A i \in b.ids : checked[i].status # "uploading"
  BY <1>2, <1>5
<1>7. CASE disposed
  <2>1. /\ ItemsInv(item', listed, disposed) /\ BatchesInv(item', batches', nextId)
        /\ FreshInv(item', listed, nextId)
    BY <1>3, <1>5, <1>6, <1>7, OfBatch
  <2>2. NetInv' /\ UNCHANGED hadActivity
    BY <1>3, <1>7 DEF IInv, NetInv, netVars
  <2> QED
    BY <1>3, <1>7, <2>1, <2>2 DEF IInv
<1>8. CASE ~disposed
  <2>1. EndBatch(b.ids, checked) /\ b.ids \subseteq b.ids
    BY <1>3, <1>8
  <2> QED
    BY <1>3, <1>5, <1>6, <2>1, EndBatchKeeps
<1> QED
  BY <1>7, <1>8

\* A run that ends leaves its place in the pool, and pumps.
LEMMA EndRunKeeps ==
  ASSUME IInv, NEW i \in Items, item[i].run # "none",
         NEW st \in {"queued", "done", "duplicate", "failed"}, NEW p \in Policy,
         EndRun(i, st, p), UNCHANGED <<listed, nextId, batches, paused, disposed, netVars>>
  PROVE  IInv'
<1> DEFINE x == [item[i] EXCEPT !.status = st, !.run = "none",
                                !.attempt = IF st = "queued" THEN 0 ELSE @]
           it == [item EXCEPT ![i] = x]
<1>1. /\ ItemsInv(item, listed, disposed) /\ BatchesInv(item, batches, nextId)
      /\ FreshInv(item, listed, nextId) /\ item \in [Items -> Item]
      /\ item[i] \in Item /\ item[i].status = "uploading"
  BY DEF IInv, ItemsInv
<1>2. /\ policy' = p /\ item' = Pump(it, listed, p.limit, paused)
      /\ hadActivity' = (hadActivity /\ (disposed \/ IsActive(item', listed)))
  BY <1>1 DEF EndRun, PumpAndSettle
<1>3. x \in Item /\ x.status = st /\ x.run = "none"
  <2>1. 0 \in 0 .. MaxAttempts
    BY UploadQueueAssumption DEF UploadQueueAssumption
  <2> QED
    BY <1>1, <2>1 DEF Item, Statuses
<1> HIDE DEF x
<1>4. it \in [Items -> Item] /\ it[i] = x /\ \A k \in Items \ {i} : it[k] = item[k]
  BY <1>1, <1>3
<1> HIDE DEF it
<1>5. ItemsInv(it, listed, disposed)
  <2>1. /\ \A k \in Items : it[k].run # "none" =>
               item[k].run # "none" /\ it[k].status = "uploading"
        /\ ~disposed => \A k \in Items :
             it[k].status = "uploading" => it[k].run # "none" /\ k \in listed
    BY <1>1, <1>3, <1>4 DEF ItemsInv
  <2>2. listed \in SUBSET Items /\ (disposed => listed = {})
    BY <1>1 DEF ItemsInv
  <2> QED
    BY <1>1, <1>4, <2>1, <2>2, ItemsFollow
<1>6. BatchesInv(it, batches', nextId)
  <2>1. ASSUME NEW c \in batches, NEW k \in c.ids PROVE it[k].status = item[k].status
    <3>1. k \in Items /\ item[k].status # "uploading"
      BY <1>1 DEF BatchesInv, BatchInv, Batch
    <3> QED
      BY <1>1, <1>4, <3>1
  <2>2. batches' = batches /\ batches \in SUBSET batches
    OBVIOUS
  <2> QED
    BY <1>1, <2>1, <2>2, BatchesFollow
<1>7. FreshInv(it, listed, nextId)
  BY <1>1, <1>4 DEF FreshInv, Fresh
<1>8. hadActivity' \in BOOLEAN
  BY <1>2
<1>9. NetInv' /\ paused' = paused /\ paused' \in BOOLEAN
  BY DEF IInv, NetInv, netVars
<1> QED
  BY <1>2, <1>5, <1>6, <1>7, <1>8, <1>9, PumpStep

LEMMA UploadOkKeeps ==
  ASSUME IInv, NEW i \in Items, NEW st \in {"done", "duplicate"}, UploadOk(i, st)
  PROVE  IInv'
<1>1. NoteSuccess(policy) \in Policy
  BY PolicyFollows DEF IInv
<1>2. /\ item[i].run # "none" /\ EndRun(i, st, NoteSuccess(policy))
      /\ UNCHANGED <<listed, nextId, batches, paused, disposed, netVars>>
  BY DEF UploadOk
<1> QED
  BY <1>1, <1>2, EndRunKeeps

\* A file whose run alone moves on, backing off or sending again.
LEMMA OneRunMoves ==
  ASSUME IInv, NEW i \in Items, item[i].run # "none", NEW x \in Item, x.status = "uploading",
         x.run = "none" => disposed,
         item' = [item EXCEPT ![i] = x], policy' \in Policy, policy'.limit <= policy.limit,
         UNCHANGED <<listed, nextId, batches, paused, disposed, hadActivity, netVars>>
  PROVE  IInv'
<1>1. /\ ItemsInv(item, listed, disposed) /\ BatchesInv(item, batches, nextId)
      /\ FreshInv(item, listed, nextId) /\ item \in [Items -> Item]
      /\ listed \in SUBSET Items /\ item[i].status = "uploading"
  BY DEF IInv, ItemsInv
<1>2. item' \in [Items -> Item] /\ item'[i] = x /\ \A k \in Items \ {i} : item'[k] = item[k]
  BY <1>1
<1>3. \A k \in Items : item'[k].status = item[k].status
  BY <1>1, <1>2
<1>4. ItemsInv(item', listed, disposed)
  <2>1. /\ \A k \in Items : item'[k].run # "none" =>
               item[k].run # "none" /\ item'[k].status = "uploading"
        /\ ~disposed => \A k \in Items :
             item'[k].status = "uploading" => item'[k].run # "none" /\ k \in listed
        /\ disposed => listed = {}
    BY <1>1, <1>2 DEF ItemsInv
  <2> QED
    BY <1>1, <1>2, <2>1, ItemsFollow
<1>5. BatchesInv(item', batches, nextId)
  <2>1. \A c \in batches : \A k \in c.ids : item'[k].status = item[k].status
    BY <1>1, <1>3 DEF BatchesInv, Batch
  <2>2. batches \in SUBSET batches /\ BatchesInv(item, batches, nextId)
    BY <1>1
  <2> QED
    BY <2>1, <2>2, BatchesFollow
<1>6. FreshInv(item', listed, nextId)
  <2>1. FreshInv(item, listed, nextId) /\ item[i].status # Fresh.status
    BY <1>1 DEF Fresh
  <2>2. i < nextId
    BY <2>1, UploadQueueAssumption DEF UploadQueueAssumption, FreshInv, Items
  <2> QED
    BY <1>2, <2>1, <2>2 DEF FreshInv
<1>7. ~paused /\ ~disposed => Quiet(item', listed, policy'.limit)
  <2> SUFFICES ASSUME ~paused, ~disposed PROVE Quiet(item', listed, policy'.limit)
    OBVIOUS
  <2>1. Quiet(item, listed, policy.limit) /\ policy.limit \in Nat /\ policy'.limit \in Nat
    BY DEF IInv, Policy
  <2>2. /\ \A k \in listed : item'[k].status = "queued" =>
               k \in listed /\ item[k].status = "queued"
        /\ \A k \in listed : item[k].status = "uploading" =>
               k \in listed /\ item'[k].status = "uploading"
    BY <1>1, <1>3
  <2> QED
    BY <1>1, <2>1, <2>2, QuietFollows
<1>8. NetInv' /\ paused' \in BOOLEAN /\ disposed' \in BOOLEAN /\ hadActivity' \in BOOLEAN
  BY DEF IInv, NetInv, netVars
<1> QED
  BY <1>4, <1>5, <1>6, <1>7, <1>8 DEF IInv

LEMMA UploadFailsKeeps ==
  ASSUME IInv, NEW i \in Items, NEW retryable \in BOOLEAN, UploadFails(i, retryable)
  PROVE  IInv'
<1> DEFINE p == IF retryable THEN NoteRetryableFailure(policy) ELSE policy
<1>1. /\ item[i].run = "sending"
      /\ UNCHANGED <<listed, nextId, batches, paused, disposed, netVars>>
      /\ \/ ~online /\ EndRun(i, "queued", policy)
         \/ /\ online /\ retryable /\ item[i].attempt < MaxAttempts
            /\ item' = [item EXCEPT ![i].run = "backoff", ![i].attempt = @ + 1]
            /\ policy' = p
            /\ UNCHANGED hadActivity
         \/ /\ online /\ ~(retryable /\ item[i].attempt < MaxAttempts)
            /\ EndRun(i, "failed", p)
  BY DEF UploadFails
<1>2. policy \in Policy /\ p \in Policy /\ p.limit <= policy.limit
  <2>1. policy \in Policy /\ policy.limit <= policy.limit
    BY UploadQueueAssumption DEF UploadQueueAssumption, IInv, Policy
  <2> QED
    BY <2>1, PolicyFollows
<1>3. item \in [Items -> Item] /\ item[i] \in Item /\ item[i].status = "uploading"
  BY <1>1 DEF IInv, ItemsInv
<1> HIDE DEF p
<1>4. CASE EndRun(i, "queued", policy)
  BY <1>1, <1>2, <1>4, EndRunKeeps
<1>5. CASE EndRun(i, "failed", p)
  BY <1>1, <1>2, <1>5, EndRunKeeps
<1>6. CASE /\ item[i].attempt < MaxAttempts
           /\ item' = [item EXCEPT ![i].run = "backoff", ![i].attempt = @ + 1]
           /\ policy' = p /\ UNCHANGED hadActivity
  <2> DEFINE x == [item[i] EXCEPT !.run = "backoff", !.attempt = @ + 1]
  <2>1. item' = [item EXCEPT ![i] = x]
    BY <1>3, <1>6
  <2>2. x \in Item /\ x.status = "uploading" /\ x.run = "backoff"
    <3>1. item[i].attempt + 1 \in 0 .. MaxAttempts
      BY <1>3, <1>6, UploadQueueAssumption DEF UploadQueueAssumption, Item
    <3> QED
      BY <1>3, <3>1 DEF Item
  <2> HIDE DEF x
  <2> QED
    BY <1>1, <1>2, <1>6, <2>1, <2>2, OneRunMoves
<1> QED
  BY <1>1, <1>4, <1>5, <1>6

LEMMA BackoffOverKeeps ==
  ASSUME IInv, NEW i \in Items, BackoffOver(i)
  PROVE  IInv'
<1> DEFINE r == IF disposed THEN "none" ELSE "sending"
           x == [item[i] EXCEPT !.run = r]
<1>1. item \in [Items -> Item] /\ item[i] \in Item /\ item[i].status = "uploading"
  BY DEF IInv, ItemsInv, BackoffOver
<1>2. /\ item[i].run # "none" /\ item' = [item EXCEPT ![i] = x]
      /\ UNCHANGED <<listed, nextId, batches, policy, paused, disposed, hadActivity, netVars>>
  BY <1>1 DEF BackoffOver
<1>3. x \in Item /\ x.status = "uploading" /\ (x.run = "none" => disposed)
  BY <1>1 DEF Item
<1>4. policy' \in Policy /\ policy'.limit <= policy.limit
  BY <1>2, UploadQueueAssumption DEF UploadQueueAssumption, IInv, Policy
<1> HIDE DEF x
<1> QED
  BY <1>2, <1>3, <1>4, OneRunMoves

LEMMA FlapKeeps == ASSUME IInv, Flap PROVE IInv'
<1>1. NetInv'
  <2>1. /\ online \in BOOLEAN /\ losses \in 0 .. MaxLosses /\ MaxLosses \in Nat
        /\ events \in 0 .. 2 * losses + IF online THEN 1 ELSE 0
        /\ events' = events \/ events' = events + 1
    BY UploadQueueAssumption DEF UploadQueueAssumption, IInv, NetInv, Flap
  <2>2. CASE online
    <3>1. online' = FALSE /\ losses < MaxLosses /\ losses' = losses + 1
      BY <2>2 DEF Flap
    <3>2. events \in 0 .. 2 * losses + 1
      BY <2>1, <2>2
    <3>3. losses' \in 0 .. MaxLosses /\ events' \in 0 .. 2 * losses' + 0
      BY <2>1, <3>1, <3>2
    <3> QED
      BY <3>1, <3>3 DEF NetInv
  <2>3. CASE ~online
    <3>1. online' = TRUE /\ losses' = losses
      BY <2>3 DEF Flap
    <3>2. events \in 0 .. 2 * losses
      BY <2>1, <2>3
    <3>3. losses' \in 0 .. MaxLosses /\ events' \in 0 .. 2 * losses' + 1
      BY <2>1, <3>1, <3>2
    <3> QED
      BY <3>1, <3>3 DEF NetInv
  <2> QED
    BY <2>2, <2>3
<1>2. UNCHANGED <<item, listed, nextId, batches, policy, paused, disposed, hadActivity>>
  BY DEF Flap, queueVars
<1> QED
  BY <1>1, <1>2 DEF IInv

LEMMA DeliverEventKeeps == ASSUME IInv, DeliverEvent PROVE IInv'
<1>1. /\ item' = Pump(item, listed, policy.limit, paused') /\ paused' = ~paused
      /\ UNCHANGED <<listed, nextId, batches, policy, disposed, hadActivity, online, losses>>
      /\ events > 0 /\ events' = events - 1
  BY DEF DeliverEvent
<1>2. NetInv'
  BY <1>1, UploadQueueAssumption DEF UploadQueueAssumption, IInv, NetInv
<1>3. /\ ItemsInv(item, listed, disposed) /\ BatchesInv(item, batches', nextId)
      /\ FreshInv(item, listed, nextId) /\ policy' \in Policy /\ policy'.limit = policy.limit
      /\ paused' \in BOOLEAN /\ hadActivity' \in BOOLEAN
  BY <1>1 DEF IInv
<1> QED
  BY <1>1, <1>2, <1>3, PumpStep

\* Files leave the list, of which none uploads while the queue lives.
LEMMA ShrinkKeeps ==
  ASSUME IInv, listed' \in SUBSET listed, disposed' \in BOOLEAN, disposed => disposed',
         ~disposed' => \A i \in listed \ listed' : item[i].status # "uploading",
         disposed' => listed' = {}, hadActivity' \in BOOLEAN, NetInv',
         UNCHANGED <<item, nextId, batches, policy, paused>>
  PROVE  IInv'
<1>1. /\ ItemsInv(item, listed, disposed) /\ item \in [Items -> Item] /\ listed \in SUBSET Items
      /\ FreshInv(item, listed, nextId)
  BY DEF IInv, ItemsInv
<1>2. ItemsInv(item, listed', disposed')
  <2>1. /\ \A i \in Items : item[i].run # "none" =>
               item[i].run # "none" /\ item[i].status = "uploading"
        /\ ~disposed' => \A i \in Items :
             item[i].status = "uploading" => item[i].run # "none" /\ i \in listed'
    BY <1>1 DEF ItemsInv
  <2>2. listed' \in SUBSET Items
    BY <1>1
  <2> QED
    BY <1>1, <2>1, <2>2, ItemsFollow
<1>3. FreshInv(item, listed', nextId)
  BY <1>1 DEF FreshInv
<1>4. ~paused /\ ~disposed' => Quiet(item, listed', policy.limit)
  <2> SUFFICES ASSUME ~paused, ~disposed' PROVE Quiet(item, listed', policy.limit)
    OBVIOUS
  <2>1. Quiet(item, listed, policy.limit) /\ policy.limit \in Nat /\ policy.limit <= policy.limit
    BY DEF IInv, Policy
  <2>2. /\ \A k \in listed' : item[k].status = "queued" =>
               k \in listed /\ item[k].status = "queued"
        /\ \A k \in listed : item[k].status = "uploading" =>
               k \in listed' /\ item[k].status = "uploading"
        /\ listed' \in SUBSET Items
    BY <1>1
  <2> QED
    BY <1>1, <2>1, <2>2, QuietFollows
<1> QED
  BY <1>2, <1>3, <1>4 DEF IInv

LEMMA RemoveKeeps == ASSUME IInv, NEW i \in Items, Remove(i) PROVE IInv'
<1>1. /\ listed' = listed \ {i} /\ item[i].status # "uploading"
      /\ UNCHANGED <<item, nextId, batches, policy, paused, disposed, hadActivity, netVars>>
  BY DEF Remove
<1>2. /\ disposed' \in BOOLEAN /\ hadActivity' \in BOOLEAN /\ NetInv'
      /\ disposed' => listed' = {}
  BY <1>1 DEF IInv, ItemsInv, NetInv, netVars
<1> QED
  BY <1>1, <1>2, ShrinkKeeps

LEMMA ClearCompletedKeeps == ASSUME IInv, ClearCompleted PROVE IInv'
<1>1. /\ listed' = {i \in listed : item[i].status \notin {"done", "duplicate"}}
      /\ UNCHANGED <<item, nextId, batches, policy, paused, disposed, hadActivity, netVars>>
  BY DEF ClearCompleted
<1>2. /\ disposed' \in BOOLEAN /\ hadActivity' \in BOOLEAN /\ NetInv'
      /\ disposed' => listed' = {}
  BY <1>1 DEF IInv, ItemsInv, NetInv, netVars
<1> QED
  BY <1>1, <1>2, ShrinkKeeps

LEMMA CloseKeeps == ASSUME IInv, Close PROVE IInv'
<1>1. /\ listed' = {} /\ \A i \in listed : item[i].status \in Terminal
      /\ hadActivity' = FALSE
      /\ UNCHANGED <<item, nextId, batches, policy, paused, disposed, netVars>>
  BY DEF Close, IsActive
<1>2. disposed' \in BOOLEAN /\ NetInv' /\ hadActivity' \in BOOLEAN
  BY <1>1 DEF IInv, NetInv, netVars
<1> QED
  BY <1>1, <1>2, ShrinkKeeps DEF Terminal

LEMMA DisposeKeeps == ASSUME IInv, Dispose PROVE IInv'
<1>1. /\ ~disposed /\ disposed' = TRUE /\ listed' = {} /\ events' = 0
      /\ UNCHANGED <<item, nextId, batches, policy, paused, hadActivity, online, losses>>
  BY DEF Dispose
<1>2. hadActivity' \in BOOLEAN
  BY <1>1 DEF IInv
<1>3. NetInv'
  BY <1>1, UploadQueueAssumption DEF UploadQueueAssumption, IInv, NetInv
<1> QED
  BY <1>1, <1>2, <1>3, ShrinkKeeps

LEMMA ParkIs ==
  ASSUME NEW it \in [Items -> Item], NEW S
  PROVE  /\ Park(it, S) \in [Items -> Item]
         /\ \A i \in Items : /\ Park(it, S)[i].run = it[i].run
                             /\ i \in S => Park(it, S)[i].status = "queued"
                             /\ i \notin S => Park(it, S)[i] = it[i]
<1> DEFINE it2 == Park(it, S)
<1>1. it2 = [i \in Items |-> IF i \in S THEN [it[i] EXCEPT !.status = "queued", !.attempt = 0]
                                        ELSE it[i]]
  BY DEF Park
<1> HIDE DEF it2
<1>2. ASSUME NEW i \in Items
      PROVE  /\ it2[i] \in Item /\ it2[i].run = it[i].run
             /\ i \in S => it2[i].status = "queued"
             /\ i \notin S => it2[i] = it[i]
  <2> DEFINE x == [it[i] EXCEPT !.status = "queued", !.attempt = 0]
  <2>1. it[i] \in Item /\ 0 \in 0 .. MaxAttempts
    BY UploadQueueAssumption DEF UploadQueueAssumption
  <2>2. x \in Item /\ x.run = it[i].run /\ x.status = "queued"
    BY <2>1 DEF Item, Statuses
  <2> QED
    BY <1>1, <2>1, <2>2
<1> QED
  BY <1>1, <1>2 DEF it2

LEMMA RetryFailedKeeps == ASSUME IInv, RetryFailed PROVE IInv'
<1> DEFINE S == {i \in listed : item[i].status = "failed"}
           it == Park(item, S)
<1>1. /\ item' = Pump(it, listed, policy.limit, paused) /\ hadActivity' = TRUE
      /\ UNCHANGED <<listed, nextId, batches, policy, paused, disposed, netVars>>
  BY DEF RetryFailed
<1>2. /\ ItemsInv(item, listed, disposed) /\ BatchesInv(item, batches, nextId)
      /\ FreshInv(item, listed, nextId) /\ item \in [Items -> Item] /\ listed \in SUBSET Items
      /\ disposed => listed = {}
  BY DEF IInv, ItemsInv
<1>3. /\ S \in SUBSET listed /\ \A i \in S : item[i].status = "failed"
  OBVIOUS
<1>4. /\ it \in [Items -> Item]
      /\ \A i \in Items : /\ it[i].run = item[i].run
                          /\ i \in S => it[i].status = "queued"
                          /\ i \notin S => it[i] = item[i]
  BY <1>2, ParkIs
<1> HIDE DEF S, it
<1>5. ItemsInv(it, listed, disposed)
  <2>1. /\ \A i \in Items : it[i].run # "none" =>
               item[i].run # "none" /\ it[i].status = "uploading"
        /\ ~disposed => \A i \in Items :
             it[i].status = "uploading" => it[i].run # "none" /\ i \in listed
    BY <1>2, <1>3, <1>4 DEF ItemsInv
  <2> QED
    BY <1>2, <1>4, <2>1, ItemsFollow
<1>6. BatchesInv(it, batches', nextId)
  <2>1. ASSUME NEW c \in batches, NEW k \in c.ids PROVE it[k].status = item[k].status
    <3>1. k \in Items /\ item[k].status # "failed"
      BY <1>2 DEF BatchesInv, BatchInv, Batch
    <3> QED
      BY <1>3, <1>4, <3>1
  <2>2. batches' = batches /\ batches \in SUBSET batches
    BY <1>1
  <2> QED
    BY <1>2, <2>1, <2>2, BatchesFollow
<1>7. FreshInv(it, listed, nextId)
  BY <1>2, <1>3, <1>4 DEF FreshInv
<1>8. NetInv' /\ paused' = paused /\ paused' \in BOOLEAN /\ policy' \in Policy /\ policy' = policy
  BY <1>1 DEF IInv, NetInv, netVars
<1> QED
  BY <1>1, <1>5, <1>6, <1>7, <1>8, PumpStep

\* Files that are added get numbers nobody has.
LEMMA AddFilesKeeps == ASSUME IInv, NEW n \in 1 .. MaxItems, AddFiles(n) PROVE IInv'
<1> DEFINE ids == nextId .. nextId + n - 1
           b == [ids |-> ids, cur |-> nextId, stage |-> "hash", asked |-> {}]
<1>1. /\ ~disposed /\ nextId + n - 1 <= MaxItems /\ listed' = listed \cup ids
      /\ item' = SetStatus(item, {nextId}, "hashing") /\ batches' = batches \cup {b}
      /\ nextId' = nextId + n /\ hadActivity' = TRUE
      /\ UNCHANGED <<policy, paused, disposed, netVars>>
  BY DEF AddFiles
<1>2. /\ ItemsInv(item, listed, disposed) /\ BatchesInv(item, batches, nextId)
      /\ FreshInv(item, listed, nextId) /\ item \in [Items -> Item] /\ listed \in SUBSET Items
      /\ nextId \in 1 .. MaxItems + 1 /\ MaxItems \in Nat
  BY UploadQueueAssumption DEF UploadQueueAssumption, IInv, ItemsInv, FreshInv
<1>3. /\ nextId \in ids /\ ids \in SUBSET Items /\ nextId' \in 1 .. MaxItems + 1
      /\ \A i \in ids : i >= nextId /\ i < nextId' /\ i \in Items
      /\ \A i \in Items : i >= nextId' => i >= nextId /\ i \notin ids
      /\ 1 .. nextId - 1 \subseteq 1 .. nextId' - 1
      /\ ids \subseteq 1 .. nextId' - 1
  BY <1>1, <1>2 DEF Items
<1>4. \A i \in ids : item[i] = Fresh /\ i \notin listed
  BY <1>2, <1>3 DEF FreshInv
<1>5. /\ item' \in [Items -> Item]
      /\ \A i \in Items : item'[i].run = item[i].run /\ (i # nextId => item'[i] = item[i])
      /\ item'[nextId].status = "hashing"
  <2>1. "hashing" \in Statuses
    BY DEF Statuses
  <2> QED
    BY <1>1, <1>2, <1>3, <2>1, SetStatusIs
<1>6. b \in Batch /\ b.ids = ids /\ b.cur = nextId /\ b.stage = "hash" /\ b.asked = {}
  BY <1>3 DEF Batch
<1> HIDE DEF ids, b
<1>7. ItemsInv(item', listed', disposed')
  <2>1. item[nextId].run = "none"
    BY <1>3, <1>4 DEF Fresh
  <2>2. /\ \A i \in Items : item'[i].run # "none" =>
               item[i].run # "none" /\ item'[i].status = "uploading"
        /\ ~disposed' => \A i \in Items :
             item'[i].status = "uploading" => item'[i].run # "none" /\ i \in listed'
        /\ listed' \in SUBSET Items /\ ~disposed'
    BY <1>1, <1>2, <1>3, <1>5, <2>1 DEF ItemsInv
  <2> QED
    BY <1>2, <1>5, <2>2, ItemsFollow
<1>8. BatchesInv(item', batches', nextId')
  <2>1. ASSUME NEW c \in batches
        PROVE  /\ c \in Batch /\ c.ids \subseteq 1 .. nextId - 1
               /\ nextId \notin c.ids /\ c.ids \cap ids = {}
    <3>1. c \in Batch /\ c.ids \subseteq 1 .. nextId - 1
      BY <1>2 DEF BatchesInv, BatchInv
    <3>2. \A i \in 1 .. nextId - 1 : i # nextId /\ ~(i >= nextId)
      BY <1>2
    <3> QED
      BY <1>3, <3>1, <3>2
  <2>2. BatchesInv(item', batches, nextId)
    <3>1. \A c \in batches : \A k \in c.ids : item'[k].status = item[k].status
      <4>1. \A c \in batches : c.ids \in SUBSET Items /\ nextId \notin c.ids
        BY <2>1 DEF Batch
      <4> QED
        BY <1>5, <4>1
    <3>2. batches \in SUBSET batches
      OBVIOUS
    <3> QED
      BY <1>2, <3>1, <3>2, BatchesFollow
  <2>3. \A c \in batches : BatchInv(item', c, nextId')
    BY <1>3, <2>2 DEF BatchesInv, BatchInv
  <2>4. BatchInv(item', b, nextId')
    <3>1. \A i \in ids : item'[i].status \in {"pending", "hashing"}
      BY <1>3, <1>4, <1>5 DEF Fresh
    <3> QED
      BY <1>3, <1>5, <1>6, <3>1 DEF BatchInv
  <2> QED
    BY <1>1, <1>6, <2>1, <2>2, <2>3, <2>4 DEF BatchesInv
<1>9. FreshInv(item', listed', nextId')
  <2>1. ASSUME NEW i \in Items, i >= nextId' PROVE item'[i] = Fresh /\ i \notin listed'
    <3>1. i >= nextId /\ i \notin ids /\ i # nextId
      BY <1>3, <2>1
    <3> QED
      BY <1>1, <1>2, <1>5, <3>1 DEF FreshInv
  <2> QED
    BY <1>3, <2>1 DEF FreshInv
<1>10. ~paused /\ ~disposed => Quiet(item', listed', policy.limit)
  <2> SUFFICES ASSUME ~paused, ~disposed PROVE Quiet(item', listed', policy.limit)
    OBVIOUS
  <2>1. Quiet(item, listed, policy.limit) /\ policy.limit \in Nat /\ policy.limit <= policy.limit
    BY DEF IInv, Policy
  <2>2. /\ \A k \in listed' : item'[k].status = "queued" =>
               k \in listed /\ item[k].status = "queued"
        /\ \A k \in listed : item[k].status = "uploading" =>
               k \in listed' /\ item'[k].status = "uploading"
        /\ listed' \in SUBSET Items
    <3>1. \A k \in ids : item'[k].status # "queued"
      BY <1>3, <1>4, <1>5 DEF Fresh
    <3>2. \A k \in listed : k # nextId /\ k \in Items
      BY <1>2, <1>3, <1>4
    <3> QED
      BY <1>1, <1>2, <1>3, <1>5, <3>1, <3>2
  <2> QED
    BY <1>2, <2>1, <2>2, QuietFollows
<1>11. NetInv' /\ policy' \in Policy /\ paused' \in BOOLEAN /\ disposed' \in BOOLEAN
         /\ hadActivity' \in BOOLEAN
  BY <1>1 DEF IInv, NetInv, netVars
<1> QED
  BY <1>1, <1>7, <1>8, <1>9, <1>10, <1>11 DEF IInv

LEMMA NextIInv == IInv /\ [Next]_vars => IInv'
<1> SUFFICES ASSUME IInv, [Next]_vars PROVE IInv'
  OBVIOUS
<1>1. CASE UserStep
  BY <1>1, AddFilesKeeps, RemoveKeeps, ClearCompletedKeeps, RetryFailedKeeps, CloseKeeps,
     DisposeKeeps DEF UserStep
<1>2. CASE BatchStep
  BY <1>2, HashDoneKeeps, CheckDoneKeeps DEF BatchStep
<1>3. CASE Flap
  BY <1>3, FlapKeeps
<1>4. CASE DeliverEvent
  BY <1>4, DeliverEventKeeps
<1>5. ASSUME NEW i \in Items, UploadAnswer(i) PROVE IInv'
  BY <1>5, UploadOkKeeps, UploadFailsKeeps DEF UploadAnswer
<1>6. ASSUME NEW i \in Items, BackoffOver(i) PROVE IInv'
  BY <1>6, BackoffOverKeeps
<1>7. CASE UNCHANGED vars
  BY <1>7 DEF vars, queueVars, netVars, IInv, NetInv
<1> QED
  BY <1>1, <1>2, <1>3, <1>4, <1>5, <1>6, <1>7 DEF Next

LEMMA AlwaysIInv == Spec => []IInv
  BY InitIInv, NextIInv, PTL DEF Spec

\* The attempts of every file, the pool's limit and the requests in flight stay within
\* their bounds, of the large files one at a time (canStart and noteRetryableFailure of
\* pool.ts, runUpload of queue.ts), for any number of files and any pool.
THEOREM PoolIsSound == Spec => []PoolSound
<1>1. IInv => PoolSound
  <2> SUFFICES ASSUME IInv PROVE PoolSound
    OBVIOUS
  <2>1. TypeOK
    <3>1. item \in [Items -> Item] /\ listed \in SUBSET Items /\ nextId \in 1 .. MaxItems + 1
      BY DEF IInv, ItemsInv, FreshInv
    <3>2. \A b \in batches : /\ b.ids \in SUBSET Items /\ b.asked \in SUBSET b.ids
                             /\ b.cur \in Items /\ b.stage \in {"hash", "check"}
      BY DEF IInv, BatchesInv, BatchInv, Batch
    <3>3. policy \in Policy /\ {paused, disposed, hadActivity, online} \subseteq BOOLEAN
      BY DEF IInv, NetInv
    <3>4. events \in 0 .. 2 * MaxLosses + 1 /\ losses \in 0 .. MaxLosses
      BY UploadQueueAssumption DEF UploadQueueAssumption, IInv, NetInv
    <3> QED
      BY <3>1, <3>2, <3>3, <3>4 DEF TypeOK, Item, Policy
  <2>2. /\ Running \in SUBSET Items /\ Cardinality(Running) <= MaxConcurrency
        /\ OneLarge(Running)
    BY DEF IInv, ItemsInv, Runs, Running
  <2>3. Cardinality(Running \cap Large) <= 1
    <3>1. CASE Running \cap Large = {}
      BY <3>1, FS_EmptySet
    <3>2. ASSUME NEW i \in Running \cap Large PROVE Running \cap Large = {i}
      BY <2>2 DEF OneLarge
    <3> QED
      BY <3>1, <3>2, FS_Singleton
  <2> QED
    BY <2>1, <2>2, <2>3 DEF PoolSound, PoolBounds
<1> QED
  BY <1>1, AlwaysIInv, PTL

\* A file is sent by one runUpload at a time, and the pump (pump of queue.ts, from
\* wherever it is called) leaves no file waiting that the policy would let start.
THEOREM PumpIsSound == Spec => []PumpSound
<1>1. IInv => PumpSound
  <2> SUFFICES ASSUME IInv PROVE PumpSound
    OBVIOUS
  <2>1. OneRunPerItem
    BY DEF IInv, ItemsInv, OneRunPerItem
  <2>2. PumpQuiescent
    BY DEF IInv, Quiet, PumpQuiescent
  <2> QED
    BY <2>1, <2>2 DEF PumpSound
<1> QED
  BY <1>1, AlwaysIInv, PTL

-----------------------------------------------------------------------------
(* What a step may not do to a file, and what it announces.                *)

Moves(i) ==
  /\ item'[i].status = item[i].status \/ <<item[i].status, item'[i].status>> \in Flows
  /\ disposed /\ item'[i].run = "sending" => item[i].run = "sending"

\* A pump moves a file only from where the step put it, and only while the queue lives.
LEMMA PumpMoves ==
  ASSUME IInv, NEW it \in [Items -> Item], NEW limit, NEW waits,
         item' = Pump(it, listed, limit, waits), NEW i \in Items,
         item[i].run = it[i].run \/ it[i].run = "none",
         it[i].status = item[i].status \/ <<item[i].status, it[i].status>> \in Flows,
         it[i].status = "queued" =>
           item[i].status \in {"queued", "uploading", "hashing", "checking", "failed"}
  PROVE  Moves(i)
<1>1. \/ item'[i] = it[i]
      \/ /\ ~disposed /\ it[i].status = "queued"
         /\ item'[i].status = "uploading"
  <2>1. listed \in SUBSET Items
    BY DEF IInv, ItemsInv
  <2> QED
    BY <2>1, PumpTouches DEF Pumped
<1> QED
  BY <1>1 DEF Moves, Flows

LEMMA EndBatchMoves ==
  ASSUME IInv, NEW it \in [Items -> Item], NEW ids, EndBatch(ids, it), NEW i \in Items,
         it[i].run = item[i].run,
         \/ it[i].status = item[i].status
         \/ item[i].status = "checking" /\ it[i].status = "duplicate"
  PROVE  Moves(i)
<1> DEFINE it2 == Ended(ids, it)
<1>1. item' = Pump(it2, listed, policy.limit, paused)
  BY DEF EndBatch, PumpAndSettle, Ended
<1>2. /\ it2 \in [Items -> Item] /\ it2[i].run = item[i].run
      /\ \/ it2[i] = it[i]
         \/ it[i].status \in {"hashing", "checking"} /\ it2[i].status = "queued"
  BY EndedIs
<1> HIDE DEF it2
<1>3. /\ it2[i].status = item[i].status \/ <<item[i].status, it2[i].status>> \in Flows
      /\ it2[i].status = "queued" => item[i].status \in {"queued", "hashing", "checking"}
  BY <1>2 DEF Flows
<1> QED
  BY <1>1, <1>2, <1>3, PumpMoves

LEMMA HashDoneMoves ==
  ASSUME IInv, NEW b \in batches, NEW ok \in BOOLEAN, HashDone(b, ok), NEW i \in Items
  PROVE  Moves(i)
<1> DEFINE hashed == [item EXCEPT ![b.cur].sum = ok]
           later  == {k \in b.ids \cap listed : k > b.cur /\ item[k].status = "pending"}
           mine   == {k \in b.ids \cap listed : item[k].status = "hashing"}
           asked  == {k \in mine : hashed[k].sum}
<1>1. \/ item' = hashed
      \/ \E k \in later : item' = SetStatus(hashed, {k}, "hashing")
      \/ item' = SetStatus(hashed, asked, "checking")
      \/ EndBatch(mine, hashed)
  BY DEF HashDone
<1>2. /\ hashed \in [Items -> Item]
      /\ hashed[i].run = item[i].run /\ hashed[i].status = item[i].status
  BY HashedIs DEF HashDone
<1>3. /\ \A k \in later : item[k].status = "pending"
      /\ \A k \in asked : item[k].status = "hashing"
  OBVIOUS
<1> HIDE DEF hashed, later, mine, asked
<1>4. CASE item' = hashed
  BY <1>2, <1>4 DEF Moves
<1>5. ASSUME NEW k \in later, item' = SetStatus(hashed, {k}, "hashing") PROVE Moves(i)
  <2>1. /\ item'[i].run = hashed[i].run
        /\ i = k => item'[i].status = "hashing"
        /\ i # k => item'[i] = hashed[i]
    BY <1>2, <1>5, SetStatusIs DEF Statuses
  <2> QED
    BY <1>2, <1>3, <2>1 DEF Moves, Flows
<1>6. CASE item' = SetStatus(hashed, asked, "checking")
  <2>1. /\ item'[i].run = hashed[i].run
        /\ i \in asked => item'[i].status = "checking"
        /\ i \notin asked => item'[i] = hashed[i]
    BY <1>2, <1>6, SetStatusIs DEF Statuses
  <2> QED
    BY <1>2, <1>3, <2>1 DEF Moves, Flows
<1>7. CASE EndBatch(mine, hashed)
  BY <1>2, <1>7, EndBatchMoves
<1> QED
  BY <1>1, <1>4, <1>5, <1>6, <1>7

LEMMA CheckDoneMoves ==
  ASSUME IInv, NEW b \in batches, NEW dups \in SUBSET b.asked, CheckDone(b, dups), NEW i \in Items
  PROVE  Moves(i)
<1> DEFINE checked == SetStatus(item, dups, "duplicate")
<1>1. item' = checked \/ EndBatch(b.ids, checked)
  BY DEF CheckDone
<1>2. item \in [Items -> Item] /\ \A k \in dups : item[k].status = "checking"
  BY DEF IInv, ItemsInv, BatchesInv, BatchInv, CheckDone
<1>3. /\ checked \in [Items -> Item] /\ checked[i].run = item[i].run
      /\ i \in dups => checked[i].status = "duplicate"
      /\ i \notin dups => checked[i] = item[i]
  BY <1>2, SetStatusIs DEF Statuses
<1> HIDE DEF checked
<1>4. \/ checked[i].status = item[i].status
      \/ item[i].status = "checking" /\ checked[i].status = "duplicate"
  BY <1>2, <1>3
<1>5. CASE item' = checked
  BY <1>3, <1>4, <1>5 DEF Moves, Flows
<1>6. CASE EndBatch(b.ids, checked)
  BY <1>3, <1>4, <1>6, EndBatchMoves
<1> QED
  BY <1>1, <1>5, <1>6

LEMMA EndRunMoves ==
  ASSUME IInv, NEW i \in Items, item[i].run # "none",
         NEW st \in {"queued", "done", "duplicate", "failed"}, NEW p, EndRun(i, st, p),
         NEW k \in Items
  PROVE  Moves(k)
<1> DEFINE x == [item[i] EXCEPT !.status = st, !.run = "none",
                                !.attempt = IF st = "queued" THEN 0 ELSE @]
           it == [item EXCEPT ![i] = x]
<1>1. /\ item \in [Items -> Item] /\ item[i] \in Item /\ item[i].status = "uploading"
  BY DEF IInv, ItemsInv
<1>2. item' = Pump(it, listed, p.limit, paused)
  BY <1>1 DEF EndRun, PumpAndSettle
<1>3. x \in Item /\ x.status = st /\ x.run = "none"
  <2>1. 0 \in 0 .. MaxAttempts
    BY UploadQueueAssumption DEF UploadQueueAssumption
  <2> QED
    BY <1>1, <2>1 DEF Item, Statuses
<1> HIDE DEF x
<1>4. it \in [Items -> Item] /\ it[i] = x /\ (k # i => it[k] = item[k])
  BY <1>1, <1>3
<1> HIDE DEF it
<1>5. /\ item[k].run = it[k].run \/ it[k].run = "none"
      /\ it[k].status = item[k].status \/ <<item[k].status, it[k].status>> \in Flows
      /\ it[k].status = "queued" => item[k].status \in {"queued", "uploading"}
  BY <1>1, <1>3, <1>4 DEF Flows
<1> QED
  BY <1>2, <1>4, <1>5, PumpMoves

LEMMA AnswerMoves ==
  ASSUME IInv, NEW i \in Items, UploadAnswer(i), NEW k \in Items
  PROVE  Moves(k)
<1>1. ASSUME NEW st \in {"done", "duplicate"}, UploadOk(i, st) PROVE Moves(k)
  BY <1>1, EndRunMoves DEF UploadOk
<1>2. ASSUME NEW retryable \in BOOLEAN, UploadFails(i, retryable) PROVE Moves(k)
  <2>1. /\ item[i].run = "sending"
        /\ \/ \E p : EndRun(i, "queued", p) \/ EndRun(i, "failed", p)
           \/ item' = [item EXCEPT ![i].run = "backoff", ![i].attempt = @ + 1]
    BY <1>2 DEF UploadFails
  <2>2. CASE \E p : EndRun(i, "queued", p) \/ EndRun(i, "failed", p)
    BY <2>1, <2>2, EndRunMoves
  <2>3. CASE item' = [item EXCEPT ![i].run = "backoff", ![i].attempt = @ + 1]
    <3>1. item \in [Items -> Item] /\ item[k] \in Item
      BY DEF IInv, ItemsInv
    <3>2. item'[k] = IF k = i THEN [item[k] EXCEPT !.run = "backoff", !.attempt = @ + 1]
                              ELSE item[k]
      BY <2>3, <3>1
    <3>3. /\ item'[k].status = item[k].status
          /\ item'[k].run = "backoff" \/ item'[k].run = item[k].run
      BY <3>1, <3>2 DEF Item
    <3> QED
      BY <3>3 DEF Moves
  <2> QED
    BY <2>1, <2>2, <2>3
<1> QED
  BY <1>1, <1>2 DEF UploadAnswer

LEMMA BackoffOverMoves ==
  ASSUME IInv, NEW i \in Items, BackoffOver(i), NEW k \in Items
  PROVE  Moves(k)
<1>1. item \in [Items -> Item] /\ item[k] \in Item
  BY DEF IInv, ItemsInv
<1>2. item'[k] = IF k = i THEN [item[k] EXCEPT !.run = IF disposed THEN "none" ELSE "sending"]
                          ELSE item[k]
  BY <1>1 DEF BackoffOver
<1>3. /\ item'[k].status = item[k].status
      /\ disposed => item'[k].run = "none" \/ item'[k].run = item[k].run
  BY <1>1, <1>2 DEF Item
<1> QED
  BY <1>3 DEF Moves

LEMMA UserMoves ==
  ASSUME IInv, UserStep, NEW k \in Items
  PROVE  Moves(k)
<1>1. item \in [Items -> Item]
  BY DEF IInv, ItemsInv
<1>2. ASSUME NEW n \in 1 .. MaxItems, AddFiles(n) PROVE Moves(k)
  <2>1. item' = SetStatus(item, {nextId}, "hashing") /\ (k = nextId => item[k].status = "pending")
    BY <1>2, UploadQueueAssumption
       DEF UploadQueueAssumption, AddFiles, IInv, FreshInv, Fresh
  <2>2. /\ item'[k].run = item[k].run
        /\ k = nextId => item'[k].status = "hashing"
        /\ k # nextId => item'[k] = item[k]
    BY <1>1, <2>1, SetStatusIs DEF Statuses
  <2> QED
    BY <2>1, <2>2 DEF Moves, Flows
<1>3. CASE RetryFailed
  <2> DEFINE S == {i \in listed : item[i].status = "failed"}
             it == Park(item, S)
  <2>1. item' = Pump(it, listed, policy.limit, paused)
    BY <1>3 DEF RetryFailed
  <2>2. k \in S => item[k].status = "failed"
    OBVIOUS
  <2>3. /\ it \in [Items -> Item] /\ it[k].run = item[k].run
        /\ k \in S => it[k].status = "queued"
        /\ k \notin S => it[k] = item[k]
    BY <1>1, ParkIs
  <2> HIDE DEF S, it
  <2>4. /\ it[k].status = item[k].status \/ <<item[k].status, it[k].status>> \in Flows
        /\ it[k].status = "queued" => item[k].status \in {"queued", "failed"}
    BY <2>2, <2>3 DEF Flows
  <2> QED
    BY <2>1, <2>3, <2>4, PumpMoves
<1>4. CASE (\E i \in Items : Remove(i)) \/ ClearCompleted \/ Close \/ Dispose
  BY <1>4 DEF Remove, ClearCompleted, Close, Dispose, Moves
<1> QED
  BY <1>2, <1>3, <1>4 DEF UserStep

\* A file goes along its lifecycle only (the head comment of queue.ts, 8-12), and a queue
\* that is gone starts no request (the disposed checks of processBatch, runUpload, pump).
THEOREM LifecycleKept == Spec => ItemsKeepLifecycle
<1>1. IInv /\ [Next]_vars => \A i \in Items : Moves(i)
  <2> SUFFICES ASSUME IInv, [Next]_vars, NEW i \in Items PROVE Moves(i)
    OBVIOUS
  <2>1. CASE UserStep
    BY <2>1, UserMoves
  <2>2. CASE BatchStep
    BY <2>2, HashDoneMoves, CheckDoneMoves DEF BatchStep
  <2>3. CASE Flap \/ UNCHANGED vars
    BY <2>3 DEF Flap, queueVars, vars, Moves
  <2>4. CASE DeliverEvent
    <3>1. item \in [Items -> Item] /\ item' = Pump(item, listed, policy.limit, paused')
      BY <2>4 DEF DeliverEvent, IInv, ItemsInv
    <3> QED
      BY <3>1, PumpMoves
  <2>5. CASE \E k \in Items : UploadAnswer(k) \/ BackoffOver(k)
    BY <2>5, AnswerMoves, BackoffOverMoves
  <2> QED
    BY <2>1, <2>2, <2>3, <2>4, <2>5 DEF Next
<1>2. IInv /\ [Next]_vars =>
        [\A i \in Items : item'[i].status = item[i].status
           \/ <<item[i].status, item'[i].status>> \in Flows]_vars
  BY <1>1 DEF Moves
<1>3. IInv /\ [Next]_vars =>
        [disposed => \A i \in Items : item'[i].run = "sending" => item[i].run = "sending"]_vars
  BY <1>1 DEF Moves
<1> QED
  BY <1>2, <1>3, AlwaysIInv, PTL DEF Spec, ItemsKeepLifecycle, FollowsLifecycle,
     NothingSentAfterDispose

-----------------------------------------------------------------------------
Announces ==
  IsActive(item, listed) /\ ~IsActive(item', listed') /\ listed' = listed => ~hadActivity'

LEMMA PumpAndSettleAnnounces ==
  ASSUME IInv, NEW it, NEW limit, PumpAndSettle(it, limit)
  PROVE  Announces
<1>1. disposed => ~IsActive(item, listed)
  BY DEF IInv, ItemsInv, IsActive
<1>2. hadActivity' = (hadActivity /\ (disposed \/ IsActive(item', listed)))
  BY DEF PumpAndSettle
<1> QED
  BY <1>1, <1>2 DEF Announces

\* A listed file that is not through keeps the queue active.
LEMMA StillActive ==
  ASSUME NEW i \in listed', item'[i].status \notin Terminal
  PROVE  Announces
<1>1. IsActive(item', listed')
  BY DEF IsActive
<1> QED
  BY <1>1 DEF Announces

LEMMA PumpStaysActive ==
  ASSUME IInv, NEW it \in [Items -> Item], NEW limit, NEW waits,
         item' = Pump(it, listed, limit, waits), NEW i \in listed,
         it[i].status \notin Terminal, UNCHANGED listed
  PROVE  Announces
<1>1. listed \in SUBSET Items
  BY DEF IInv, ItemsInv
<1>2. item'[i] = it[i] \/ item'[i].status = "uploading"
  BY <1>1, PumpTouches DEF Pumped
<1>3. item'[i].status \notin Terminal
  BY <1>2 DEF Terminal
<1> QED
  BY <1>3, StillActive

LEMMA BatchAnnounces == ASSUME IInv, BatchStep PROVE Announces
<1>1. ASSUME NEW b \in batches, NEW ok \in BOOLEAN, HashDone(b, ok) PROVE Announces
  <2> DEFINE hashed == [item EXCEPT ![b.cur].sum = ok]
             later  == {k \in b.ids \cap listed : k > b.cur /\ item[k].status = "pending"}
             mine   == {k \in b.ids \cap listed : item[k].status = "hashing"}
             asked  == {k \in mine : hashed[k].sum}
  <2>1. /\ UNCHANGED listed
        /\ \/ disposed
           \/ \E i \in later : item' = SetStatus(hashed, {i}, "hashing")
           \/ asked # {} /\ item' = SetStatus(hashed, asked, "checking")
           \/ EndBatch(mine, hashed)
    BY <1>1 DEF HashDone
  <2>2. hashed \in [Items -> Item]
    BY <1>1, HashedIs DEF HashDone
  <2>3. /\ listed \in SUBSET Items /\ (disposed => listed = {})
        /\ later \in SUBSET listed /\ asked \in SUBSET listed
    BY DEF IInv, ItemsInv
  <2> HIDE DEF hashed, later, mine, asked
  <2>4. CASE disposed
    BY <2>3, <2>4 DEF Announces, IsActive
  <2>5. ASSUME NEW i \in later, item' = SetStatus(hashed, {i}, "hashing") PROVE Announces
    <3>1. i \in listed' /\ item'[i].status = "hashing"
      BY <2>1, <2>2, <2>3, <2>5, SetStatusIs DEF Statuses
    <3> QED
      BY <3>1, StillActive DEF Terminal
  <2>6. ASSUME NEW i \in asked, item' = SetStatus(hashed, asked, "checking") PROVE Announces
    <3>1. i \in listed' /\ item'[i].status = "checking"
      BY <2>1, <2>2, <2>3, <2>6, SetStatusIs DEF Statuses
    <3> QED
      BY <3>1, StillActive DEF Terminal
  <2>7. CASE EndBatch(mine, hashed)
    BY <2>7, PumpAndSettleAnnounces DEF EndBatch
  <2> QED
    BY <2>1, <2>4, <2>5, <2>6, <2>7
<1>2. ASSUME NEW b \in batches, NEW dups \in SUBSET b.asked, CheckDone(b, dups) PROVE Announces
  <2>1. disposed \/ EndBatch(b.ids, SetStatus(item, dups, "duplicate"))
    BY <1>2 DEF CheckDone
  <2>2. CASE disposed
    BY <2>2 DEF IInv, ItemsInv, Announces, IsActive
  <2> QED
    BY <2>1, <2>2, PumpAndSettleAnnounces DEF EndBatch
<1> QED
  BY <1>1, <1>2 DEF BatchStep

\* The files stay where they are.
LEMMA NoneThrough ==
  ASSUME IInv, \A i \in Items : item'[i].status = item[i].status
  PROVE  Announces
<1>1. listed \in SUBSET Items
  BY DEF IInv, ItemsInv
<1> QED
  BY <1>1 DEF Announces, IsActive

LEMMA AnswerAnnounces == ASSUME IInv, NEW i \in Items, UploadAnswer(i) PROVE Announces
<1>1. \/ \E st, p : EndRun(i, st, p)
      \/ item' = [item EXCEPT ![i].run = "backoff", ![i].attempt = @ + 1]
  BY DEF UploadAnswer, UploadOk, UploadFails
<1>2. CASE \E st, p : EndRun(i, st, p)
  BY <1>2, PumpAndSettleAnnounces DEF EndRun
<1>3. CASE item' = [item EXCEPT ![i].run = "backoff", ![i].attempt = @ + 1]
  <2>1. ASSUME NEW k \in Items PROVE item'[k].status = item[k].status
    <3>1. item \in [Items -> Item] /\ item[k] \in Item
      BY DEF IInv, ItemsInv
    <3>2. item'[k] = IF k = i THEN [item[k] EXCEPT !.run = "backoff", !.attempt = @ + 1]
                              ELSE item[k]
      BY <1>3, <3>1
    <3> QED
      BY <3>1, <3>2 DEF Item
  <2> QED
    BY <2>1, NoneThrough
<1> QED
  BY <1>1, <1>2, <1>3

LEMMA BackoffAnnounces == ASSUME IInv, NEW i \in Items, BackoffOver(i) PROVE Announces
<1>1. ASSUME NEW k \in Items PROVE item'[k].status = item[k].status
  <2>1. item \in [Items -> Item] /\ item[k] \in Item
    BY DEF IInv, ItemsInv
  <2>2. item'[k] = IF k = i THEN [item[k] EXCEPT !.run = IF disposed THEN "none" ELSE "sending"]
                            ELSE item[k]
    BY <2>1 DEF BackoffOver
  <2> QED
    BY <2>1, <2>2 DEF Item
<1> QED
  BY <1>1, NoneThrough

LEMMA UserAnnounces == ASSUME IInv, UserStep PROVE Announces
<1>1. item \in [Items -> Item] /\ listed \in SUBSET Items /\ (disposed => listed = {})
  BY DEF IInv, ItemsInv
<1>2. ASSUME NEW n \in 1 .. MaxItems, AddFiles(n) PROVE Announces
  <2>1. /\ item' = SetStatus(item, {nextId}, "hashing")
        /\ listed' = listed \cup (nextId .. nextId + n - 1)
        /\ nextId \in Items /\ nextId \in nextId .. nextId + n - 1
    BY <1>2, UploadQueueAssumption
       DEF UploadQueueAssumption, AddFiles, IInv, FreshInv, Items
  <2>2. nextId \in listed' /\ item'[nextId].status = "hashing"
    BY <1>1, <2>1, SetStatusIs DEF Statuses
  <2> QED
    BY <2>2, StillActive DEF Terminal
<1>3. CASE RetryFailed
  <2> DEFINE S == {i \in listed : item[i].status = "failed"}
             it == Park(item, S)
  <2>1. item' = Pump(it, listed, policy.limit, paused) /\ UNCHANGED listed
    BY <1>3 DEF RetryFailed
  <2>2. PICK i \in listed : i \in S
    BY <1>3 DEF RetryFailed
  <2>3. it \in [Items -> Item] /\ it[i].status = "queued"
    <3> HIDE DEF S
    <3> QED
      BY <1>1, <2>2, ParkIs
  <2> HIDE DEF S, it
  <2> QED
    BY <2>1, <2>3, PumpStaysActive DEF Terminal
<1>4. CASE (\E i \in Items : Remove(i)) \/ ClearCompleted \/ Close \/ Dispose
  BY <1>1, <1>4 DEF Remove, ClearCompleted, Close, Dispose, Announces, IsActive
<1> QED
  BY <1>2, <1>3, <1>4 DEF UserStep

\* Whoever settles the last file announces it (maybeSettle of queue.ts, after every way
\* out of processBatch and runUpload): no step leaves the queue idle and still owing.
THEOREM DrainAnnounced == Spec => DrainIsAnnounced
<1>1. IInv /\ [Next]_vars => Announces
  <2> SUFFICES ASSUME IInv, [Next]_vars PROVE Announces
    OBVIOUS
  <2>1. CASE Flap \/ UNCHANGED vars
    <3>1. item' = item
      BY <2>1 DEF Flap, queueVars, vars
    <3> QED
      BY <3>1, NoneThrough
  <2>2. CASE DeliverEvent
    <3>1. /\ item \in [Items -> Item]
          /\ item' = Pump(item, listed, policy.limit, paused') /\ UNCHANGED listed
      BY <2>2 DEF DeliverEvent, IInv, ItemsInv
    <3>2. ASSUME NEW i \in listed, item[i].status \notin Terminal PROVE Announces
      BY <3>1, <3>2, PumpStaysActive
    <3> QED
      BY <3>2 DEF Announces, IsActive
  <2>3. CASE \E k \in Items : UploadAnswer(k) \/ BackoffOver(k)
    BY <2>3, AnswerAnnounces, BackoffAnnounces
  <2> QED
    BY <2>1, <2>2, <2>3, UserAnnounces, BatchAnnounces DEF Next
<1>2. IInv /\ [Next]_vars =>
        [IsActive(item, listed) /\ ~IsActive(item', listed')
           /\ listed' = listed => ~hadActivity']_vars
  BY <1>1 DEF Announces
<1> QED
  BY <1>2, AlwaysIInv, PTL DEF Spec, DrainIsAnnounced
=============================================================================
