----------------------------- MODULE LogsProofs -----------------------------
(***************************************************************************)
(* What compaction promises of any write-ahead log and of any failed-work  *)
(* journal, whatever their length and their records.                       *)
(***************************************************************************)
EXTENDS Logs, FiniteSetTheorems, WellFoundedInduction, TLAPS

-----------------------------------------------------------------------------
(* Greatest elements.                                                       *)

\* Induction over an interval: what holds of 0 and passes on holds throughout.
LEMMA IntervalInduction ==
  ASSUME NEW k \in Nat, NEW Good, 0 \in Good, \A n \in 1..k : n - 1 \in Good => n \in Good
  PROVE  0..k \subseteq Good
<1> SUFFICES ASSUME NEW b \in 0..k, b \notin Good PROVE FALSE
  OBVIOUS
<1> DEFINE Bad == {n \in 0..k : n \notin Good}
           Below == {0..n : n \in Bad}
           order == StrictSubsetOrdering(0..k)
<1>1. IsFiniteSet(0..k)
  BY FS_Interval
<1>2. IsWellFoundedOn(order, SUBSET (0..k))
  BY <1>1, FS_FiniteSubsetsOfFinite, FS_StrictSubsetOrderingWellFounded
<1>3. Below \subseteq SUBSET (0..k) /\ Below # {}
  OBVIOUS
<1>4. PICK x \in Below : \A y \in Below : <<y, x>> \notin order
  <2> HIDE DEF Below, order
  <2> QED
    BY <1>2, <1>3, WFMin
<1>5. PICK n \in Bad : x = 0..n
  OBVIOUS
<1>6. n # 0 /\ n - 1 \in Bad
  OBVIOUS
<1>7. 0..(n - 1) \in Below
  BY <1>6
<1>8. 0..(n - 1) \subseteq x /\ 0..(n - 1) # x
  BY <1>5
<1>9. <<0..(n - 1), x>> \in order
  BY <1>3, <1>7, <1>8 DEF StrictSubsetOrdering
<1> QED
  BY <1>4, <1>7, <1>9

\* Finitely many numbers have a greatest one.
LEMMA Greatest ==
  ASSUME NEW n \in Nat, NEW X \in SUBSET (1..n), NEW f \in [X -> Nat]
  PROVE  \E max \in {0} \cup {f[i] : i \in X} : \A i \in X : f[i] <= max
<1> DEFINE upto(m) == {0} \cup {f[i] : i \in X \cap (1..m)}
           Good == {m \in 0..n : \E max \in upto(m) : \A id \in upto(m) : id <= max}
<1>1. 0 \in Good
  OBVIOUS
<1>2. ASSUME NEW m \in 1..n, m - 1 \in Good PROVE m \in Good
  <2>1. PICK l \in Nat : l = m - 1
    OBVIOUS
  <2>2. PICK max \in upto(l) : \A id \in upto(l) : id <= max
    BY <1>2, <2>1
  <2>3. upto(m) = upto(l) \cup (IF m \in X THEN {f[m]} ELSE {})
    <3>1. X \cap (1..m) = (X \cap (1..l)) \cup (IF m \in X THEN {m} ELSE {})
      BY <2>1
    <3> QED
      BY <3>1
  <2>4. upto(m) \subseteq Nat /\ upto(l) \subseteq Nat
    OBVIOUS
  <2> HIDE DEF upto
  <2>5. CASE m \in X /\ f[m] > max
    <3>1. f[m] \in upto(m) /\ \A id \in upto(m) : id <= f[m]
      BY <2>2, <2>3, <2>4, <2>5
    <3> QED
      BY <3>1
  <2>6. CASE ~ (m \in X /\ f[m] > max)
    <3>1. max \in upto(m) /\ \A id \in upto(m) : id <= max
      BY <2>2, <2>3, <2>4, <2>6
    <3> QED
      BY <3>1
  <2> QED
    BY <2>5, <2>6
<1>3. n \in Good
  <2> HIDE DEF Good
  <2>1. \A m \in 1..n : m - 1 \in Good => m \in Good
    BY <1>2
  <2> QED
    BY <1>1, <2>1, IntervalInduction
<1>4. X \cap (1..n) = X
  OBVIOUS
<1> QED
  BY <1>3, <1>4

\* A set of positions has a last one.
LEMMA LastPosition ==
  ASSUME NEW n \in Nat, NEW X \in SUBSET (1..n), X # {}
  PROVE  \E i \in X : \A j \in X : j <= i
<1> DEFINE f == [i \in X |-> i]
<1>1. f \in [X -> Nat] /\ (\A i \in X : f[i] = i) /\ (\A i \in X : i \in Nat \ {0})
  OBVIOUS
<1> HIDE DEF f
<1>2. PICK max \in {0} \cup {f[i] : i \in X} : \A i \in X : f[i] <= max
  BY <1>1, Greatest
<1>3. max \in X
  <2>1. PICK j \in X : j <= max /\ j \in Nat \ {0}
    BY <1>1, <1>2
  <2>2. max # 0
    BY <2>1
  <2> QED
    BY <1>1, <1>2, <2>2
<1> QED
  BY <1>1, <1>2, <1>3

-----------------------------------------------------------------------------
(* The records Keep keeps.                                                  *)

\* Counting along a set of positions goes through all of it, in order.
LEMMA Ranks ==
  ASSUME NEW n \in Nat, NEW idx \in SUBSET (1..n)
  PROVE  /\ Cardinality(idx) \in Nat
         /\ \A k \in 1..Cardinality(idx) : Kth(idx, k) \in idx
         /\ \A k, l \in 1..Cardinality(idx) : k < l => Kth(idx, k) < Kth(idx, l)
         /\ \A i \in idx : \E k \in 1..Cardinality(idx) : i = Kth(idx, k)
<1> DEFINE below(i) == {j \in idx : j <= i}
           c == Cardinality(idx)
           rank == [i \in idx |-> Cardinality(below(i))]
<1>1. IsFiniteSet(idx) /\ c \in Nat
  <2>1. IsFiniteSet(1..n)
    BY FS_Interval
  <2>2. IsFiniteSet(idx)
    BY <2>1, FS_Subset
  <2> QED
    BY <2>2, FS_CardinalityType
<1>2. \A i \in idx : IsFiniteSet(below(i)) /\ Cardinality(below(i)) \in Nat
  BY <1>1, FS_Subset, FS_CardinalityType
<1>3. \A i, j \in idx : i < j => Cardinality(below(i)) < Cardinality(below(j))
  <2> SUFFICES ASSUME NEW i \in idx, NEW j \in idx, i < j
               PROVE  Cardinality(below(i)) < Cardinality(below(j))
    OBVIOUS
  <2>0. \A x \in idx : x \in Int
    OBVIOUS
  <2>1. below(i) \subseteq below(j) /\ j \in below(j) /\ j \notin below(i)
    <3>1. \A x \in idx : x <= i => x <= j
      BY <2>0
    <3>2. j <= j /\ ~ (j <= i)
      BY <2>0
    <3> QED
      BY <3>1, <3>2
  <2> HIDE DEF below
  <2>2. /\ Cardinality(below(i)) <= Cardinality(below(j))
        /\ Cardinality(below(j)) # Cardinality(below(i))
    BY <1>2, <2>1, FS_Subset
  <2> QED
    BY <1>2, <2>2
<1>4. \A i \in idx : Cardinality(below(i)) \in 1..c
  <2> SUFFICES ASSUME NEW i \in idx PROVE Cardinality(below(i)) \in 1..c
    OBVIOUS
  <2>1. below(i) \subseteq idx /\ i \in below(i)
    OBVIOUS
  <2> HIDE DEF below
  <2>2. Cardinality(below(i)) <= c
    BY <1>1, <2>1, FS_Subset
  <2>3. Cardinality(below(i)) # 0
    BY <1>2, <2>1, FS_EmptySet
  <2> QED
    BY <1>1, <1>2, <2>2, <2>3
<1>5. \A k \in 1..c : \E i \in idx : rank[i] = k
  <2>1. rank \in [idx -> 1..c]
    BY <1>4
  <2>2. \A i, j \in idx : rank[i] = rank[j] => i = j
    <3> SUFFICES ASSUME NEW i \in idx, NEW j \in idx, rank[i] = rank[j], i # j PROVE FALSE
      OBVIOUS
    <3>1. i < j \/ j < i
      OBVIOUS
    <3>2. Cardinality(below(i)) = Cardinality(below(j))
      OBVIOUS
    <3> HIDE DEF below, rank
    <3> QED
      BY <1>2, <1>3, <3>1, <3>2
  <2> HIDE DEF rank
  <2>3. rank \in Injection(idx, 1..c)
    BY <2>1, <2>2 DEF Injection, IsInjective
  <2>4. IsFiniteSet(1..c) /\ Cardinality(1..c) = c
    BY <1>1, FS_Interval
  <2>5. rank \in Surjection(idx, 1..c)
    BY <1>1, <2>3, <2>4, FS_Injection
  <2> QED
    BY <2>5 DEF Surjection
<1>6. \A k \in 1..c : Kth(idx, k) \in idx /\ Cardinality(below(Kth(idx, k))) = k
  BY <1>5 DEF Kth
<1>7. \A k, l \in 1..c : k < l => Kth(idx, k) < Kth(idx, l)
  <2> SUFFICES ASSUME NEW k \in 1..c, NEW l \in 1..c, k < l PROVE Kth(idx, k) < Kth(idx, l)
    OBVIOUS
  <2>1. PICK i \in idx : i = Kth(idx, k) /\ Cardinality(below(i)) = k
    BY <1>6
  <2>2. PICK j \in idx : j = Kth(idx, l) /\ Cardinality(below(j)) = l
    BY <1>6
  <2>3. i \in Nat /\ j \in Nat
    OBVIOUS
  <2>4. ~ (j < i) /\ i # j
    <3> HIDE DEF below
    <3> QED
      BY <1>1, <1>3, <2>1, <2>2
  <2> QED
    BY <2>1, <2>2, <2>3, <2>4
<1>8. ASSUME NEW i \in idx PROVE \E k \in 1..c : i = Kth(idx, k)
  <2>1. PICK k \in 1..c : k = Cardinality(below(i))
    BY <1>4
  <2>2. PICK j \in idx : j = Kth(idx, k) /\ Cardinality(below(j)) = k
    BY <1>6
  <2>3. i \in Nat /\ j \in Nat
    OBVIOUS
  <2>4. i = j
    <3> HIDE DEF below
    <3> QED
      BY <1>1, <1>3, <2>1, <2>2, <2>3
  <2> QED
    BY <2>2, <2>4
<1> QED
  BY <1>1, <1>6, <1>7, <1>8

\* Keep returns the records at the given positions, each once and in order.
LEMMA Kept ==
  ASSUME NEW S, NEW s \in Seq(S), NEW idx \in SUBSET (DOMAIN s)
  PROVE  LET c == Keep(s, idx)
         IN  /\ c \in Seq(S)
             /\ \A k \in DOMAIN c : Kth(idx, k) \in idx /\ c[k] = s[Kth(idx, k)]
             /\ \A k, l \in DOMAIN c : k < l <=> Kth(idx, k) < Kth(idx, l)
             /\ \A i \in idx : \E k \in DOMAIN c : i = Kth(idx, k)
<1>1. Len(s) \in Nat /\ DOMAIN s = 1..Len(s)
  OBVIOUS
<1>2. DOMAIN Keep(s, idx) = 1..Cardinality(idx)
  BY DEF Keep
<1>3. \A k \in 1..Cardinality(idx) : Keep(s, idx)[k] = s[Kth(idx, k)]
  BY DEF Keep
<1>4. /\ Cardinality(idx) \in Nat
      /\ \A k \in 1..Cardinality(idx) : Kth(idx, k) \in idx
      /\ \A k, l \in 1..Cardinality(idx) : k < l => Kth(idx, k) < Kth(idx, l)
      /\ \A i \in idx : \E k \in 1..Cardinality(idx) : i = Kth(idx, k)
  BY <1>1, Ranks
<1>5. Keep(s, idx) \in Seq(S)
  <2>1. \A k \in 1..Cardinality(idx) : s[Kth(idx, k)] \in S
    BY <1>4
  <2> QED
    BY <1>4, <2>1 DEF Keep
<1>6. \A k, l \in 1..Cardinality(idx) : k < l <=> Kth(idx, k) < Kth(idx, l)
  <2>1. \A k \in 1..Cardinality(idx) : Kth(idx, k) \in Nat
    BY <1>1, <1>4
  <2> QED
    BY <1>4, <2>1
<1> QED
  BY <1>2, <1>3, <1>4, <1>5, <1>6

\* Keeping every record changes nothing.
LEMMA KeptAll ==
  ASSUME NEW S, NEW s \in Seq(S)
  PROVE  Keep(s, DOMAIN s) = s
<1> DEFINE n == Len(s)
<1>1. n \in Nat /\ DOMAIN s = 1..n
  OBVIOUS
<1>2. Cardinality(1..n) = n
  <2>1. Cardinality(1..n) = IF 1 > n THEN 0 ELSE n - 1 + 1
    BY <1>1, FS_Interval
  <2> QED
    BY <1>1, <2>1
<1>3. ASSUME NEW k \in 1..n PROVE Kth(1..n, k) = k
  <2>1. \A i \in 1..n : {j \in 1..n : j <= i} = 1..i /\ Cardinality(1..i) = i
    BY FS_Interval
  <2> QED
    BY <2>1 DEF Kth
<1>4. s = [k \in 1..n |-> s[k]]
  BY <1>1
<1> QED
  BY <1>1, <1>2, <1>3, <1>4 DEF Keep

-----------------------------------------------------------------------------
(* The write-ahead log.                                                     *)

\* The acknowledgement of a task is of another type and has the same key.
LEMMA Acknowledges ==
  ASSUME NEW r, IsTask(r)
  PROVE  /\ AckOf(r).key = r.key
         /\ r.type = "work_item"       => AckOf(r).type = "sink_ack"
         /\ r.type = "work_item_v2"    => AckOf(r).type = "sink_ack_v2"
         /\ r.type = "delete_document" => AckOf(r).type = "delete_ack"
  BY DEF IsTask, WorkTypes, AckOf, SinkAck, SinkAckV2, DeleteAck

\* The last version of a live document is kept.
LEMMA LiveIsKept ==
  ASSUME NEW w \in Seq(WalRecords)
  PROVE  known_live_document_paths(w) \subseteq known_live_document_paths(compact_wal_records(w))
<1> DEFINE idx == CompactedAt(w)
           c == compact_wal_records(w)
<1> SUFFICES ASSUME NEW p \in known_live_document_paths(w)
             PROVE  p \in known_live_document_paths(c)
  OBVIOUS
<1>1. Len(w) \in Nat /\ DOMAIN w = 1..Len(w) /\ idx \subseteq DOMAIN w
  BY DEF CompactedAt
<1>2. PICK j \in DOMAIN w : /\ w[j].type \in FileTypes /\ w[j].key.path = p
                            /\ NoLater(w, j, p, DeleteTypes)
  BY DEF known_live_document_paths
<1> DEFINE X == {i \in DOMAIN w : i >= j /\ w[i].type \in FileTypes /\ w[i].key.path = p}
<1>3. PICK i \in X : \A k \in X : k <= i
  <2>1. X \subseteq 1..Len(w) /\ j \in X
    BY <1>1, <1>2
  <2> HIDE DEF X
  <2> QED
    BY <1>1, <2>1, LastPosition
<1>4. NoLater(w, i, p, FileTypes) /\ NoLater(w, i, p, DeleteTypes)
  <2>1. \A k \in DOMAIN w : k > i => k > j /\ k \notin X
    BY <1>1, <1>3
  <2>2. \A k \in DOMAIN w : k > i /\ w[k].type \in FileTypes => ~ IsAbout(w[k], p)
    BY <2>1 DEF IsAbout, FileTypes, DeleteTypes
  <2> QED
    BY <1>2, <2>1, <2>2 DEF NoLater
<1>5. i \in idx
  BY <1>4 DEF CompactedAt, NoLater, DeleteTypes
<1>6. /\ \A k \in DOMAIN c : Kth(idx, k) \in idx /\ c[k] = w[Kth(idx, k)]
      /\ \A k, l \in DOMAIN c : k < l <=> Kth(idx, k) < Kth(idx, l)
      /\ \E k \in DOMAIN c : i = Kth(idx, k)
      /\ c \in Seq(WalRecords)
  <2> HIDE DEF idx
  <2>1. c = Keep(w, idx)
    BY DEF compact_wal_records, idx
  <2> HIDE DEF c
  <2> QED
    BY <1>1, <1>5, <2>1, Kept
<1>7. PICK k \in DOMAIN c : i = Kth(idx, k)
  BY <1>6
<1>8. c[k].type \in FileTypes /\ c[k].key.path = p
  BY <1>6, <1>7
<1>9. NoLater(c, k, p, DeleteTypes)
  <2>1. DOMAIN c \subseteq Nat /\ idx \subseteq Nat
    BY <1>1, <1>6
  <2>2. \A l \in DOMAIN c : l > k => Kth(idx, l) \in DOMAIN w /\ Kth(idx, l) > i
    BY <1>1, <1>6, <1>7, <2>1
  <2> QED
    BY <1>4, <1>6, <2>2 DEF NoLater
<1> QED
  BY <1>7, <1>8, <1>9 DEF known_live_document_paths

\* A task of the compacted log that would be replayed would have been replayed
\* before, or follows the acknowledgement that settled it.
LEMMA NothingComesBack ==
  ASSUME NEW w \in Seq(WalRecords),
         NEW r \in Unacked(compact_wal_records(w)), IsTask(r)
  PROVE  \/ r \in Unacked(w)
         \/ \E i, j \in DOMAIN w : i < j /\ w[i] = AckOf(r) /\ w[j] = r
<1> DEFINE idx == CompactedAt(w)
           c == compact_wal_records(w)
<1>1. Len(w) \in Nat /\ DOMAIN w = 1..Len(w) /\ idx \subseteq DOMAIN w
  BY DEF CompactedAt
<1>2. PICK k \in UnackedAt(c) : r = c[k]
  BY DEF Unacked
<1>3. PICK i \in idx : r = w[i]
  <2>1. k \in DOMAIN c
    BY DEF UnackedAt
  <2>2. Kth(idx, k) \in idx /\ c[k] = w[Kth(idx, k)]
    <3> HIDE DEF idx
    <3>1. c = Keep(w, idx)
      BY DEF compact_wal_records, idx
    <3> HIDE DEF c
    <3> QED
      BY <1>1, <2>1, <3>1, Kept
  <2> QED
    BY <1>2, <2>2
<1>4. CASE r.type = "delete_document"
  <2>1. NoLater(w, i, w[i].key, FileTypes \cup DeleteTypes)
    BY <1>3, <1>4 DEF CompactedAt, LegacyTypes, FileTypes
  <2>2. PendingDelete(w, i)
    BY <1>3, <1>4, <2>1 DEF PendingDelete, NoLater
  <2> QED
    BY <1>1, <1>3, <2>2 DEF Unacked, UnackedAt
<1>5. CASE r.type \in WorkTypes /\ ~ Acked(w, r)
  BY <1>1, <1>3, <1>5 DEF Unacked, UnackedAt
<1>6. CASE r.type \in WorkTypes /\ Acked(w, r)
  <2>1. PICK j \in DOMAIN w : w[j] = AckOf(r)
    BY <1>6 DEF Acked
  <2>2. ~ (j > i)
    <3> SUFFICES ASSUME j > i PROVE FALSE
      OBVIOUS
    <3>1. CASE r.type = "work_item"
      BY <1>3, <2>1, <3>1, Acknowledges DEF CompactedAt, LegacyTypes, FileTypes
    <3>2. CASE r.type = "work_item_v2"
      <4>1. NoLater(w, i, r.key.path, FileTypes \cup {"delete_document"})
        BY <1>3, <3>2 DEF CompactedAt, LegacyTypes, FileTypes
      <4>2. w[j].type \in FileTypes /\ IsAbout(w[j], r.key.path)
        BY <2>1, <3>2, Acknowledges DEF FileTypes, IsAbout
      <4> QED
        BY <4>1, <4>2 DEF NoLater
    <3> QED
      BY <1>6, <3>1, <3>2 DEF WorkTypes
  <2>3. j # i
    BY <1>3, <1>6, <2>1, Acknowledges DEF WorkTypes
  <2> QED
    BY <1>1, <1>3, <2>1, <2>2, <2>3
<1> QED
  BY <1>4, <1>5, <1>6 DEF IsTask

\* A compacted log is as short as compaction can make it.
LEMMA CompactingTwice ==
  ASSUME NEW w \in Seq(WalRecords)
  PROVE  compact_wal_records(compact_wal_records(w)) = compact_wal_records(w)
<1> DEFINE idx == CompactedAt(w)
           c == compact_wal_records(w)
<1>1. Len(w) \in Nat /\ DOMAIN w = 1..Len(w) /\ idx \subseteq DOMAIN w
  BY DEF CompactedAt
<1>2. /\ \A k \in DOMAIN c : Kth(idx, k) \in idx /\ c[k] = w[Kth(idx, k)]
      /\ \A k, l \in DOMAIN c : k < l <=> Kth(idx, k) < Kth(idx, l)
      /\ c \in Seq(WalRecords)
  <2> HIDE DEF idx
  <2>1. c = Keep(w, idx)
    BY DEF compact_wal_records, idx
  <2> HIDE DEF c
  <2> QED
    BY <1>1, <2>1, Kept
<1>3. ASSUME NEW k \in DOMAIN c PROVE k \in CompactedAt(c)
  <2> DEFINE i == Kth(idx, k)
  <2>1. i \in idx /\ c[k] = w[i]
    BY <1>2
  <2>2. \A l \in DOMAIN c : l > k =>
          Kth(idx, l) \in DOMAIN w /\ Kth(idx, l) > i /\ c[l] = w[Kth(idx, l)]
    <3>1. DOMAIN c \subseteq Nat /\ idx \subseteq Nat
      BY <1>1, <1>2
    <3> QED
      BY <1>1, <1>2, <3>1
  <2> HIDE DEF i, c, idx
  <2>3. i \in CompactedAt(w)
    BY <2>1 DEF idx
  <2>4. CASE /\ w[i].type \in LegacyTypes
             /\ \A j \in DOMAIN w : j > i /\ w[j].type \in LegacyTypes => w[j].key # w[i].key
    BY <2>1, <2>2, <2>4 DEF CompactedAt
  <2>5. CASE /\ w[i].type \in FileTypes
             /\ NoLater(w, i, w[i].key.path, FileTypes \cup {"delete_document"})
    BY <2>1, <2>2, <2>5 DEF CompactedAt, NoLater
  <2>6. CASE /\ w[i].type = "delete_document"
             /\ NoLater(w, i, w[i].key, FileTypes \cup DeleteTypes)
    BY <2>1, <2>2, <2>6 DEF CompactedAt, NoLater
  <2> QED
    BY <2>3, <2>4, <2>5, <2>6 DEF CompactedAt
<1>4. CompactedAt(c) = DOMAIN c
  BY <1>3 DEF CompactedAt
<1>5. compact_wal_records(c) = c
  <2> HIDE DEF c
  <2>1. Keep(c, DOMAIN c) = c
    BY <1>2, KeptAll
  <2> QED
    BY <1>4, <2>1 DEF compact_wal_records
<1> QED
  BY <1>5

\* Compaction of a write-ahead log is not noticed, whatever the log.
LEMMA AnyLog ==
  ASSUME log \in Seq(WalRecords)
  PROVE  CompactionIsUnseen
  BY LiveIsKept, NothingComesBack, CompactingTwice DEF CompactionIsUnseen

-----------------------------------------------------------------------------
(* The failed-work journal.                                                 *)

\* What the lemmas need to know of the records of a journal.
AreEntries(S) == \A r \in S : r.type \in {"exhausted", "requeued"} /\ r.id \in Nat

\* The next id exceeds every id in use by one, or is 1.
LEMMA NextFailedWorkId ==
  ASSUME NEW S, AreEntries(S), NEW j \in Seq(S)
  PROVE  /\ next_failed_work_id(j) - 1 \in {0} \cup {j[i].id : i \in ExhaustedAt(j)}
         /\ next_failed_work_id(j) \in Nat \ {0}
         /\ \A i \in ExhaustedAt(j) : j[i].id < next_failed_work_id(j)
<1> DEFINE X == ExhaustedAt(j)
           f == [i \in X |-> j[i].id]
           ids == {0} \cup {j[i].id : i \in X}
<1>1. Len(j) \in Nat /\ X \subseteq 1..Len(j)
  BY DEF ExhaustedAt
<1>2. \A i \in X : j[i].id \in Nat
  BY DEF ExhaustedAt, AreEntries
<1>3. f \in [X -> Nat] /\ ids = {0} \cup {f[i] : i \in X}
  BY <1>2
<1>4. PICK max \in ids : \A i \in X : f[i] <= max
  <2> HIDE DEF f, X
  <2> QED
    BY <1>1, <1>3, Greatest
<1>5. max \in Nat /\ \A id \in ids : id <= max
  BY <1>2, <1>4
<1> DEFINE highest == CHOOSE m \in ids : \A id \in ids : id <= m
<1>6. next_failed_work_id(j) = 1 + highest
  BY DEF next_failed_work_id
<1>7. highest \in ids /\ \A id \in ids : id <= highest
  BY <1>5
<1>8. \A id \in ids : id \in Nat
  BY <1>2
<1> HIDE DEF highest
<1>9. \A i \in X : j[i].id \in ids
  OBVIOUS
<1>10. highest \in Nat
  BY <1>7, <1>8
<1>11. next_failed_work_id(j) - 1 = highest
  BY <1>6, <1>10
<1> HIDE DEF ids
<1>12. \A i \in X : j[i].id \in Nat /\ j[i].id <= highest
  BY <1>2, <1>7, <1>9
<1> QED
  BY <1>6, <1>7, <1>10, <1>11, <1>12 DEF ids

\* An id is the largest if it is in use and no larger one is.
LEMMA NextFailedWorkIdIs ==
  ASSUME NEW S, AreEntries(S), NEW j \in Seq(S), NEW h \in Nat,
         h = 0 \/ \E i \in ExhaustedAt(j) : j[i].id = h,
         \A i \in ExhaustedAt(j) : j[i].id <= h
  PROVE  next_failed_work_id(j) = h + 1
<1>1. PICK n \in Nat \ {0} : n = next_failed_work_id(j)
  BY NextFailedWorkId
<1>2. n - 1 = 0 \/ \E i \in ExhaustedAt(j) : j[i].id = n - 1
  BY <1>1, NextFailedWorkId
<1>3. \A i \in ExhaustedAt(j) : j[i].id < n
  BY <1>1, NextFailedWorkId
<1> QED
  BY <1>1, <1>2, <1>3

\* When the work of the largest id is not pending, it has been requeued after
\* it was last exhausted.
LEMMA HighestPair ==
  ASSUME NEW S, AreEntries(S), NEW j \in Seq(S), NEW h \in Nat \ {0},
         h = next_failed_work_id(j) - 1, ~ \E i \in PendingAt(j) : j[i].id = h
  PROVE  \E e \in LastOf(j, "exhausted", h), r \in LastOf(j, "requeued", h) : e < r
<1>1. Len(j) \in Nat /\ DOMAIN j = 1..Len(j)
  OBVIOUS
<1> DEFINE Of(type) == {i \in DOMAIN j : j[i].type = type /\ j[i].id = h}
<1>2. ASSUME NEW type, Of(type) # {}
      PROVE  \E i \in LastOf(j, type, h) : \A m \in Of(type) : m <= i
  <2>1. Of(type) \subseteq 1..Len(j)
    BY <1>1
  <2>2. PICK i \in Of(type) : \A m \in Of(type) : m <= i
    <3> HIDE DEF Of
    <3> QED
      BY <1>1, <1>2, <2>1, LastPosition
  <2>3. i \in LastOf(j, type, h)
    BY <1>1, <2>2 DEF LastOf, NoLaterOf
  <2> QED
    BY <2>2, <2>3
<1>3. Of("exhausted") # {}
  BY NextFailedWorkId DEF ExhaustedAt
<1>4. PICK e \in LastOf(j, "exhausted", h) : TRUE
  BY <1>2, <1>3
<1>5. e \in ExhaustedAt(j) /\ e \notin PendingAt(j)
  BY <1>4 DEF LastOf, ExhaustedAt
<1>6. PICK m \in DOMAIN j : m > e /\ j[m].type = "requeued" /\ j[m].id = h
  BY <1>4, <1>5 DEF PendingAt, LastOf, NoLaterOf
<1>7. PICK r \in LastOf(j, "requeued", h) : m <= r
  BY <1>2, <1>6
<1>8. e < r
  BY <1>1, <1>4, <1>6, <1>7 DEF LastOf
<1> QED
  BY <1>8

\* The positions compaction keeps, told by cases.
LEMMA KeptPositions ==
  ASSUME NEW S, AreEntries(S), NEW j \in Seq(S), NEW h, h = next_failed_work_id(j) - 1
  PROVE  /\ PendingAt(j) \subseteq CompactedJournalAt(j)
         /\ CompactedJournalAt(j) \subseteq DOMAIN j
         /\ \/ CompactedJournalAt(j) = PendingAt(j) /\ (h = 0 \/ \E i \in PendingAt(j) : j[i].id = h)
            \/ /\ h \in Nat \ {0} /\ ~ \E i \in PendingAt(j) : j[i].id = h
               /\ CompactedJournalAt(j) =
                    PendingAt(j) \cup LastOf(j, "exhausted", h) \cup LastOf(j, "requeued", h)
<1>1. PendingAt(j) \subseteq DOMAIN j
  BY DEF PendingAt, ExhaustedAt
<1>2. \A type : LastOf(j, type, h) \subseteq DOMAIN j
  BY DEF LastOf
<1>3. h \in Nat
  BY NextFailedWorkId
<1>4. CASE h = 0 \/ \E i \in PendingAt(j) : j[i].id = h
  <2>1. CompactedJournalAt(j) = PendingAt(j)
    BY <1>4 DEF CompactedJournalAt
  <2> QED
    BY <1>1, <1>4, <2>1
<1>5. CASE ~ (h = 0 \/ \E i \in PendingAt(j) : j[i].id = h)
  <2>1. LastOf(j, "exhausted", h) # {} /\ LastOf(j, "requeued", h) # {}
    BY <1>3, <1>5, HighestPair
  <2>2. CompactedJournalAt(j) =
          PendingAt(j) \cup LastOf(j, "exhausted", h) \cup LastOf(j, "requeued", h)
    BY <1>5, <2>1 DEF CompactedJournalAt
  <2> QED
    BY <1>1, <1>2, <1>3, <1>5, <2>2
<1> QED
  BY <1>4, <1>5

\* What is pending in a part of a journal: the last entries of their ids in it.
LEMMA PendingOfPart ==
  ASSUME NEW S, NEW s \in Seq(S), NEW idx \in SUBSET (DOMAIN s), NEW r
  PROVE  r \in pending_failed_work(Keep(s, idx)) <=>
           \E i \in idx : /\ s[i] = r /\ s[i].type = "exhausted"
                          /\ \A m \in idx : m > i /\ s[m].type \in {"exhausted", "requeued"} =>
                               s[m].id # s[i].id
<1> DEFINE c == Keep(s, idx)
           Last(i) == \A m \in idx : m > i /\ s[m].type \in {"exhausted", "requeued"} => s[m].id # s[i].id
<1>1. /\ DOMAIN c \subseteq Int /\ idx \subseteq Int
      /\ \A k \in DOMAIN c : Kth(idx, k) \in idx /\ c[k] = s[Kth(idx, k)]
      /\ \A k, l \in DOMAIN c : k < l <=> Kth(idx, k) < Kth(idx, l)
      /\ \A i \in idx : \E k \in DOMAIN c : i = Kth(idx, k)
  <2>1. c \in Seq(S)
    BY Kept
  <2>2. DOMAIN c \subseteq Int /\ idx \subseteq Int
    <3> HIDE DEF c
    <3> QED
      BY <2>1
  <2> QED
    BY <2>2, Kept
<1> HIDE DEF c
<1>2. ASSUME r \in pending_failed_work(c)
      PROVE  \E i \in idx : s[i] = r /\ s[i].type = "exhausted" /\ Last(i)
  <2>1. PICK k \in PendingAt(c) : r = c[k]
    BY <1>2 DEF pending_failed_work
  <2>2. k \in DOMAIN c /\ c[k].type = "exhausted" /\ NoLaterOf(c, k, {"exhausted", "requeued"})
    BY <2>1 DEF PendingAt, ExhaustedAt
  <2>3. PICK i \in idx : i = Kth(idx, k) /\ s[i] = r
    BY <1>1, <2>1, <2>2
  <2>4. Last(i)
    <3> SUFFICES ASSUME NEW m \in idx, m > i, s[m].type \in {"exhausted", "requeued"}
                 PROVE  s[m].id # s[i].id
      OBVIOUS
    <3>1. PICK l \in DOMAIN c : m = Kth(idx, l)
      BY <1>1
    <3>2. l > k /\ c[l] = s[m]
      BY <1>1, <2>2, <2>3, <3>1
    <3> QED
      BY <2>1, <2>2, <2>3, <3>2 DEF NoLaterOf
  <2> QED
    BY <2>1, <2>2, <2>3, <2>4
<1>3. ASSUME NEW i \in idx, s[i] = r, s[i].type = "exhausted", Last(i)
      PROVE  r \in pending_failed_work(c)
  <2>1. PICK k \in DOMAIN c : i = Kth(idx, k) /\ c[k] = r
    BY <1>1, <1>3
  <2>2. NoLaterOf(c, k, {"exhausted", "requeued"})
    <3> SUFFICES ASSUME NEW l \in DOMAIN c, l > k, c[l].type \in {"exhausted", "requeued"}
                 PROVE  c[l].id # c[k].id
      BY DEF NoLaterOf
    <3>1. PICK m \in idx : m = Kth(idx, l) /\ c[l] = s[m] /\ m > i
      BY <1>1, <2>1
    <3> QED
      BY <1>3, <2>1, <3>1
  <2> QED
    BY <1>3, <2>1, <2>2 DEF pending_failed_work, PendingAt, ExhaustedAt
<1> QED
  BY <1>2, <1>3 DEF c

\* Compaction keeps what is pending.
LEMMA PendingIsKept ==
  ASSUME NEW S, AreEntries(S), NEW j \in Seq(S)
  PROVE  pending_failed_work(compact_failed_work_records(j)) = pending_failed_work(j)
<1> DEFINE idx == CompactedJournalAt(j)
           h == next_failed_work_id(j) - 1
           Last(X, i) == \A m \in X : m > i /\ j[m].type \in {"exhausted", "requeued"} => j[m].id # j[i].id
<1>0. /\ PendingAt(j) \subseteq idx /\ idx \subseteq DOMAIN j
      /\ \/ idx = PendingAt(j)
         \/ /\ h \in Nat \ {0} /\ ~ \E i \in PendingAt(j) : j[i].id = h
            /\ idx = PendingAt(j) \cup LastOf(j, "exhausted", h) \cup LastOf(j, "requeued", h)
  BY KeptPositions
<1>1. DOMAIN j \subseteq Int /\ \A i \in DOMAIN j : j[i] \in S
  OBVIOUS
<1> HIDE DEF idx
<1>2. \A i \in DOMAIN j : i \in PendingAt(j) <=> j[i].type = "exhausted" /\ Last(DOMAIN j, i)
  BY DEF PendingAt, ExhaustedAt, NoLaterOf
<1>3. ASSUME NEW i \in idx, j[i].type = "exhausted", Last(idx, i)
      PROVE  i \in PendingAt(j)
  <2> SUFFICES ASSUME i \notin PendingAt(j) PROVE FALSE
    OBVIOUS
  <2>1. /\ h \in Nat \ {0} /\ ~ \E k \in PendingAt(j) : j[k].id = h
        /\ i \in LastOf(j, "exhausted", h)
        /\ LastOf(j, "exhausted", h) \cup LastOf(j, "requeued", h) \subseteq idx
    BY <1>0, <1>3 DEF LastOf
  <2>2. PICK e \in LastOf(j, "exhausted", h), r \in LastOf(j, "requeued", h) : e < r
    <3>1. PICK n : n = h
      OBVIOUS
    <3> HIDE DEF h
    <3> QED
      BY <2>1, <3>1, HighestPair DEF h
  <2>3. e = i
    BY <1>1, <2>1, <2>2 DEF LastOf, NoLaterOf
  <2>4. r \in idx /\ r > i /\ j[r].type = "requeued" /\ j[r].id = j[i].id
    BY <2>1, <2>2, <2>3, <1>1 DEF LastOf
  <2> QED
    BY <1>3, <2>4
<1>4. \A r : r \in pending_failed_work(Keep(j, idx)) <=>
               \E i \in idx : j[i] = r /\ j[i].type = "exhausted" /\ Last(idx, i)
  BY <1>0, PendingOfPart
<1>5. pending_failed_work(Keep(j, idx)) \subseteq pending_failed_work(j)
  <2> SUFFICES ASSUME NEW r \in pending_failed_work(Keep(j, idx)) PROVE r \in pending_failed_work(j)
    OBVIOUS
  <2>1. PICK i \in idx : j[i] = r /\ j[i].type = "exhausted" /\ Last(idx, i)
    BY <1>4
  <2>2. i \in PendingAt(j)
    BY <1>3, <2>1
  <2> QED
    BY <2>1, <2>2 DEF pending_failed_work
<1>6. pending_failed_work(j) \subseteq pending_failed_work(Keep(j, idx))
  BY <1>0, <1>2, <1>4 DEF pending_failed_work
<1> QED
  BY <1>5, <1>6 DEF compact_failed_work_records, idx

\* Compaction keeps the next id.
LEMMA NextIdIsKept ==
  ASSUME NEW S, AreEntries(S), NEW j \in Seq(S)
  PROVE  next_failed_work_id(compact_failed_work_records(j)) = next_failed_work_id(j)
<1> DEFINE idx == CompactedJournalAt(j)
           c == compact_failed_work_records(j)
<1>1. PICK h \in Nat : next_failed_work_id(j) = h + 1
  <2>1. PICK n \in Nat \ {0} : n = next_failed_work_id(j)
    BY NextFailedWorkId
  <2> QED
    BY <2>1
<1>2. h = next_failed_work_id(j) - 1
  BY <1>1
<1>3. /\ PendingAt(j) \subseteq idx /\ idx \subseteq DOMAIN j
      /\ \/ idx = PendingAt(j) /\ (h = 0 \/ \E i \in PendingAt(j) : j[i].id = h)
         \/ /\ h \in Nat \ {0} /\ ~ \E i \in PendingAt(j) : j[i].id = h
            /\ idx = PendingAt(j) \cup LastOf(j, "exhausted", h) \cup LastOf(j, "requeued", h)
  BY <1>2, KeptPositions
<1>4. /\ c \in Seq(S)
      /\ \A k \in DOMAIN c : Kth(idx, k) \in idx /\ c[k] = j[Kth(idx, k)]
      /\ \A i \in idx : \E k \in DOMAIN c : i = Kth(idx, k)
  <2> HIDE DEF idx
  <2>1. c = Keep(j, idx)
    BY DEF idx, compact_failed_work_records
  <2> HIDE DEF c
  <2> QED
    BY <1>3, <2>1, Kept
<1> HIDE DEF c
<1>5. \A k \in ExhaustedAt(c) : c[k].id <= h
  <2> SUFFICES ASSUME NEW k \in ExhaustedAt(c) PROVE c[k].id <= h
    OBVIOUS
  <2>1. PICK i \in ExhaustedAt(j) : c[k].id = j[i].id
    BY <1>3, <1>4 DEF ExhaustedAt
  <2>2. j[i].id < h + 1 /\ j[i].id \in Nat
    BY <1>1, NextFailedWorkId DEF ExhaustedAt, AreEntries
  <2> QED
    BY <2>1, <2>2
<1>6. h = 0 \/ \E i \in idx : j[i].type = "exhausted" /\ j[i].id = h
  <2>1. CASE idx = PendingAt(j) /\ (h = 0 \/ \E i \in PendingAt(j) : j[i].id = h)
    BY <2>1 DEF PendingAt, ExhaustedAt
  <2>2. CASE /\ h \in Nat \ {0} /\ ~ \E i \in PendingAt(j) : j[i].id = h
             /\ idx = PendingAt(j) \cup LastOf(j, "exhausted", h) \cup LastOf(j, "requeued", h)
    <3>1. PICK e \in LastOf(j, "exhausted", h) : TRUE
      BY <1>2, <2>2, HighestPair
    <3> HIDE DEF idx
    <3> QED
      BY <2>2, <3>1 DEF LastOf
  <2> QED
    BY <1>3, <2>1, <2>2
<1>7. h = 0 \/ \E k \in ExhaustedAt(c) : c[k].id = h
  BY <1>4, <1>6 DEF ExhaustedAt
<1> QED
  BY <1>1, <1>4, <1>5, <1>7, NextFailedWorkIdIs DEF c

\* A kept record is needed: without it something would no longer be pending, or
\* an id in use would be handed out again.
LEMMA NothingToSpare ==
  ASSUME NEW S, AreEntries(S), NEW j \in Seq(S),
         NEW k \in DOMAIN compact_failed_work_records(j)
  PROVE  LET c == compact_failed_work_records(j)
             d == Keep(c, DOMAIN c \ {k})
         IN  \/ pending_failed_work(d) # pending_failed_work(c)
             \/ next_failed_work_id(d) # next_failed_work_id(c)
<1> DEFINE idx == CompactedJournalAt(j)
           c == compact_failed_work_records(j)
           rest == DOMAIN c \ {k}
           d == Keep(c, rest)
<1> SUFFICES \/ pending_failed_work(d) # pending_failed_work(c)
             \/ next_failed_work_id(d) # next_failed_work_id(c)
  OBVIOUS
<1>1. PICK h \in Nat : next_failed_work_id(j) = h + 1
  <2>1. PICK n \in Nat \ {0} : n = next_failed_work_id(j)
    BY NextFailedWorkId
  <2> QED
    BY <2>1
<1>2. h = next_failed_work_id(j) - 1
  BY <1>1
<1>3. /\ PendingAt(j) \subseteq idx /\ idx \subseteq DOMAIN j
      /\ \/ idx = PendingAt(j) /\ (h = 0 \/ \E i \in PendingAt(j) : j[i].id = h)
         \/ /\ h \in Nat \ {0} /\ ~ \E i \in PendingAt(j) : j[i].id = h
            /\ idx = PendingAt(j) \cup LastOf(j, "exhausted", h) \cup LastOf(j, "requeued", h)
  BY <1>2, KeptPositions
<1>4. c = Keep(j, idx)
  BY DEF compact_failed_work_records
<1> HIDE DEF idx, c
<1>5. /\ c \in Seq(S) /\ DOMAIN c \subseteq Int
      /\ \A m \in DOMAIN c : Kth(idx, m) \in idx /\ c[m] = j[Kth(idx, m)]
      /\ \A m, l \in DOMAIN c : m < l <=> Kth(idx, m) < Kth(idx, l)
      /\ \A i \in idx : \E m \in DOMAIN c : i = Kth(idx, m)
  <2>1. c \in Seq(S)
    BY <1>3, <1>4, Kept
  <2> QED
    BY <1>3, <1>4, <2>1, Kept
<1>6. k \in DOMAIN c
  BY DEF c
<1>7. PICK i \in idx : i = Kth(idx, k) /\ c[k] = j[i]
  BY <1>5, <1>6
<1>8. i \in DOMAIN j /\ DOMAIN j \subseteq Int
  BY <1>3
\* The other entries, at their places in c and in j.
<1>9. \A m \in rest : \E p \in idx : p # i /\ p = Kth(idx, m) /\ c[m] = j[p]
  BY <1>5, <1>6, <1>7, <1>8
<1>10. d \in Seq(S) /\ \A l \in DOMAIN d : \E m \in rest : d[l] = c[m]
  <2>1. c \in Seq(S) /\ rest \in SUBSET (DOMAIN c)
    BY <1>5
  <2> HIDE DEF rest
  <2> QED
    BY <2>1, Kept
<1>11. CASE i \in PendingAt(j)
  <2>1. c[k] \in pending_failed_work(c)
    <3>1. c[k] \in pending_failed_work(j)
      BY <1>7, <1>11 DEF pending_failed_work
    <3> QED
      BY <3>1, PendingIsKept DEF c
  <2>2. ASSUME c[k] \in pending_failed_work(d) PROVE FALSE
    <3>1. PICK m \in rest : c[m] = c[k] /\ c[m].type = "exhausted"
      BY <1>5, <2>2, PendingOfPart
    <3>2. PICK p \in idx : p # i /\ j[p].id = j[i].id /\ j[p].type = "exhausted"
      BY <1>7, <1>9, <3>1
    <3>3. j[i].type = "exhausted" /\ NoLaterOf(j, i, {"exhausted", "requeued"})
      BY <1>11 DEF PendingAt, ExhaustedAt
    <3>4. p < i /\ p \in DOMAIN j
      BY <1>3, <1>8, <3>2, <3>3 DEF NoLaterOf
    <3>5. p \notin PendingAt(j)
      BY <1>8, <3>2, <3>3, <3>4 DEF PendingAt, NoLaterOf
    <3>6. /\ ~ \E q \in PendingAt(j) : j[q].id = h
          /\ p \in LastOf(j, "exhausted", h)
      BY <1>3, <3>2, <3>5 DEF LastOf
    <3> QED
      BY <1>11, <3>2, <3>6 DEF LastOf
  <2> QED
    BY <2>1, <2>2
<1>12. CASE i \notin PendingAt(j)
  <2>1. /\ h \in Nat \ {0} /\ ~ \E p \in PendingAt(j) : j[p].id = h
        /\ idx = PendingAt(j) \cup LastOf(j, "exhausted", h) \cup LastOf(j, "requeued", h)
    BY <1>3, <1>12
  <2>2. PICK e \in LastOf(j, "exhausted", h), r \in LastOf(j, "requeued", h) : e < r
    BY <1>2, <2>1, HighestPair
  <2>3. \A type : \A p, q \in LastOf(j, type, h) : p = q
    BY <1>8 DEF LastOf, NoLaterOf
  <2>4. CASE i = e
    <3>1. \A l \in DOMAIN d : ~ (d[l].type = "exhausted" /\ d[l].id = h)
      <4> SUFFICES ASSUME NEW l \in DOMAIN d, d[l].type = "exhausted", d[l].id = h PROVE FALSE
        OBVIOUS
      <4>1. PICK p \in idx : p # i /\ d[l] = j[p]
        BY <1>9, <1>10
      <4>2. p \in LastOf(j, "exhausted", h)
        BY <2>1, <4>1 DEF LastOf
      <4> QED
        BY <2>2, <2>3, <2>4, <4>1, <4>2
    <3>2. next_failed_work_id(d) - 1 \in {0} \cup {d[l].id : l \in ExhaustedAt(d)}
      BY <1>10, NextFailedWorkId
    <3>3. next_failed_work_id(d) - 1 # h
      BY <2>1, <3>1, <3>2 DEF ExhaustedAt
    <3>4. next_failed_work_id(c) - 1 = h
      BY <1>2, NextIdIsKept DEF c
    <3> QED
      BY <3>3, <3>4
  <2>5. CASE i = r
    <3>0. e \in idx
      BY <2>1, <2>2
    <3>1. PICK m \in DOMAIN c : e = Kth(idx, m) /\ c[m] = j[e]
      BY <1>5, <3>0
    <3>2. m \in rest
      BY <1>7, <1>8, <2>2, <2>5, <3>1 DEF LastOf
    <3>3. c[m].type = "exhausted" /\ c[m].id = h
      BY <2>2, <3>1 DEF LastOf
    <3>4. \A q \in rest : q > m /\ c[q].type \in {"exhausted", "requeued"} => c[q].id # h
      <4> SUFFICES ASSUME NEW q \in rest, q > m, c[q].type \in {"exhausted", "requeued"}, c[q].id = h
                   PROVE  FALSE
        OBVIOUS
      <4>1. PICK p \in idx : p # i /\ p = Kth(idx, q) /\ c[q] = j[p]
        BY <1>9
      <4>2. p > e
        BY <1>5, <3>1, <4>1
      <4>3. p \in LastOf(j, "exhausted", h) \/ p \in LastOf(j, "requeued", h)
        BY <2>1, <4>1
      <4>4. p = e \/ p = r
        BY <2>2, <2>3, <4>3
      <4> QED
        BY <1>8, <2>2, <2>5, <4>1, <4>2, <4>4 DEF LastOf
    <3>5. c[m] \in pending_failed_work(d)
      BY <1>5, <3>2, <3>3, <3>4, PendingOfPart
    <3>6. c[m] \notin pending_failed_work(c)
      <4>1. c[m] \notin pending_failed_work(j)
        BY <2>1, <3>3 DEF pending_failed_work
      <4> QED
        BY <4>1, PendingIsKept DEF c
    <3> QED
      BY <3>5, <3>6
  <2> QED
    BY <1>12, <2>1, <2>2, <2>3, <2>4, <2>5
<1> QED
  BY <1>11, <1>12

-----------------------------------------------------------------------------
(* The theorems.                                                            *)

LogsTyped == log \in Seq(WalRecords) /\ journal \in Seq(JournalRecords)

LEMMA Typing == LogsSpec => []LogsTyped
<1>1. LogsInit => LogsTyped
  BY DEF LogsInit, LogsTyped
<1>2. LogsTyped /\ [LogsNext]_<<log, journal>> => LogsTyped'
  <2> SUFFICES ASSUME LogsTyped, [LogsNext]_<<log, journal>> PROVE LogsTyped'
    OBVIOUS
  <2> USE DEF LogsTyped
  <2>1. CASE GrowLog
    <3>1. PICK r \in WalRecords : log' = Append(log, r)
      BY <2>1 DEF GrowLog
    <3> QED
      BY <2>1, <3>1 DEF GrowLog
  <2>2. CASE GrowJournal
    <3>1. PICK r \in JournalRecords : journal' = Append(journal, r)
      BY <2>2 DEF GrowJournal
    <3> QED
      BY <2>2, <3>1 DEF GrowJournal
  <2>3. CASE UNCHANGED <<log, journal>>
    BY <2>3
  <2> QED
    BY <2>1, <2>2, <2>3 DEF LogsNext
<1> QED
  BY <1>1, <1>2, PTL DEF LogsSpec

\* compact-state on a write-ahead log is not noticed by a restart, and doing it
\* twice is doing it once, for every log of the six kinds of records, whatever
\* its length and whether or not the program would have written it.
THEOREM CompactedLogIsAsGood == LogsSpec => []CompactionIsUnseen
<1>1. LogsTyped => CompactionIsUnseen
  BY AnyLog DEF LogsTyped
<1> QED
  BY <1>1, Typing, PTL

\* compact-state on a failed-work journal keeps what is pending and the next id,
\* and could not drop one record more, for every journal.
THEOREM CompactedJournalIsAsGood == LogsSpec => []CompactionKeepsPending
<1>1. AreEntries(JournalRecords)
  BY LogsAssumption DEF AreEntries, JournalRecords, Exhausted, Requeued
<1>2. LogsTyped => CompactionKeepsPending
  BY <1>1, PendingIsKept, NextIdIsKept, NothingToSpare DEF LogsTyped, CompactionKeepsPending
<1> QED
  BY <1>2, Typing, PTL

=============================================================================
