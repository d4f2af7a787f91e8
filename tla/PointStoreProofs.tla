-------------------------- MODULE PointStoreProofs --------------------------
(***************************************************************************)
(* Theorems about PointStore: a deleted document leaves no point, work     *)
(* done again changes nothing, and the chain of chunks is the document,    *)
(* for any documents, strategies and lengths of texts.                     *)
(***************************************************************************)
EXTENDS PointStore, FiniteSetTheorems, WellFoundedInduction, TLAPS

\* Different documents have different doc_ids.
UrisDiffer == \A p, q \in Paths : Uri[p] = Uri[q] => p = q

-----------------------------------------------------------------------------
(* Numbers.                                                                 *)

\* Induction over an interval: what holds of 0 and passes on holds throughout.
LEMMA IntervalInduction ==
  ASSUME NEW k \in Nat, NEW Good, 0 \in Good, \A n \in 1..k : n - 1 \in Good => n \in Good
  PROVE  0..k \subseteq Good
<1> SUFFICES ASSUME NEW b \in 0..k, b \notin Good PROVE FALSE
  OBVIOUS
<1> DEFINE Bad == {n \in 0..k : n \notin Good}
           Below == {0..n : n \in Bad}
           order == StrictSubsetOrdering(0..k)
<1>1. IsFiniteSet(0..k)
  BY FS_Interval
<1>2. IsWellFoundedOn(order, SUBSET (0..k))
  BY <1>1, FS_FiniteSubsetsOfFinite, FS_StrictSubsetOrderingWellFounded
<1>3. Below \subseteq SUBSET (0..k) /\ Below # {}
  OBVIOUS
<1>4. PICK x \in Below : \A y \in Below : <<y, x>> \notin order
  <2> HIDE DEF Below, order
  <2> QED
    BY <1>2, <1>3, WFMin
<1>5. PICK n \in Bad : x = 0..n
  OBVIOUS
<1>6. n # 0 /\ n - 1 \in Bad
  OBVIOUS
<1>7. 0..(n - 1) \in Below
  BY <1>6
<1>8. 0..(n - 1) \subseteq x /\ 0..(n - 1) # x
  BY <1>5
<1>9. <<0..(n - 1), x>> \in order
  BY <1>3, <1>7, <1>8 DEF StrictSubsetOrdering
<1> QED
  BY <1>4, <1>7, <1>9

\* Every text has a chunk, and none more than it has units.
LEMMA Chunks ==
  ASSUME NEW t \in Texts, NEW s \in Strategies
  PROVE  ChunkCount(t, s) \in Nat \ {0} /\ ChunkCount(t, s) <= MaxLength + 1
<1>1. t.length \in Nat /\ t.length <= MaxLength /\ s \in Nat \ {0} /\ MaxLength \in Nat
  BY StoreAssumption DEF Texts
<1>2. ASSUME NEW l \in Nat \ {0}, NEW c \in Nat \ {0}
      PROVE  (l + c - 1) \div c \in Nat \ {0} /\ (l + c - 1) \div c <= l
  <2> DEFINE a == l + c - 1
             d == a \div c
  <2>1. a \in Nat /\ a >= c
    OBVIOUS
  <2>2. d \in Int /\ d * c <= a /\ a < d * c + c
    BY Z3
  <2>3. a < l * c + c
    OBVIOUS
  <2> QED
    BY <2>1, <2>2, <2>3
<1> QED
  BY <1>1, <1>2 DEF ChunkCount

-----------------------------------------------------------------------------
(* The inductive invariant.                                                 *)

Versions == 0..MaxChanges
Shown    == {Absent, Unknown} \cup [state : {"shown"}, version : Versions, text : Texts]

Typed ==
  /\ files \in [Paths -> Texts] /\ changes \in Versions
  /\ strategy \in Strategies /\ path \in Paths /\ stamp \in Versions /\ text \in Texts
  /\ shown \in [Paths \X Strategies -> Shown]

\* q is a point of p under s.
IsPointOf(q, p, s) ==
  \E v \in Versions, t \in Texts : \E i \in 0..(ChunkCount(t, s) - 1) : q = PointOf(p, v, t, s, i)

\* Each point is one of a document that has not been deleted since.
PointsKnown ==
  \A q \in points : \E p \in Paths, s \in Strategies : IsPointOf(q, p, s) /\ shown[<<p, s>>] # Absent

OnePerId == \A q, r \in points : q.id = r.id => q = r

\* A document that was ingested has all its points.
Complete ==
  \A p \in Paths, s \in Strategies :
    shown[<<p, s>>].state = "shown" => PointsOf(p, shown[<<p, s>>].version, shown[<<p, s>>].text, s) \subseteq points

StoreInv == Typed /\ PointsKnown /\ OnePerId /\ Complete

LEMMA PointFields ==
  /\ \A p, v, t, s, i :
       /\ PointOf(p, v, t, s, i).id = <<p, i, s>> /\ PointOf(p, v, t, s, i).doc_id = Uri[p]
       /\ PointOf(p, v, t, s, i).index = i /\ PointOf(p, v, t, s, i).strategy = s
  /\ \A p, v, t, s : \A q \in PointsOf(p, v, t, s) :
       \E i \in 0..(ChunkCount(t, s) - 1) : q = PointOf(p, v, t, s, i)
  /\ \A p, v, t, s : \A i \in 0..(ChunkCount(t, s) - 1) : PointOf(p, v, t, s, i) \in PointsOf(p, v, t, s)
  /\ \A q, p, s : IsPointOf(q, p, s) =>
       q.doc_id = Uri[p] /\ q.strategy = s /\ \E i : q.id = <<p, i, s>> /\ q.index = i
<1>1. \A p, v, t, s, i :
        /\ PointOf(p, v, t, s, i).id = <<p, i, s>> /\ PointOf(p, v, t, s, i).doc_id = Uri[p]
        /\ PointOf(p, v, t, s, i).index = i /\ PointOf(p, v, t, s, i).strategy = s
  BY DEF PointOf, PointId
<1>2. \A q, p, s : IsPointOf(q, p, s) =>
        q.doc_id = Uri[p] /\ q.strategy = s /\ \E i : q.id = <<p, i, s>> /\ q.index = i
  BY <1>1 DEF IsPointOf
<1> QED
  BY <1>1, <1>2 DEF PointsOf

\* What a step does to the points and to what is shown, as far as the
\* invariant goes: upserts some points of one document under one strategy.
LEMMA UpsertKeeps ==
  ASSUME StoreInv, Typed', NEW some \in SUBSET Batch, points' = Upserted(some),
         NEW mark \in Shown, shown' = [shown EXCEPT ![<<path, strategy>>] = mark], mark # Absent,
         mark.state = "shown" => some = Batch /\ mark.version = stamp /\ mark.text = text
  PROVE  StoreInv'
<1> USE DEF StoreInv
<1>1. path \in Paths /\ strategy \in Strategies /\ stamp \in Versions /\ text \in Texts
  BY DEF Typed
<1>2. \A p \in Paths, s \in Strategies :
        shown'[<<p, s>>] = IF p = path /\ s = strategy THEN mark ELSE shown[<<p, s>>]
  BY <1>1 DEF Typed
<1>3. \A r \in some : \E i \in 0..(ChunkCount(text, strategy) - 1) :
        r = PointOf(path, stamp, text, strategy, i) /\ r.id = <<path, i, strategy>>
  BY PointFields DEF Batch
<1>4. PointsKnown'
  <2>1. ASSUME NEW q \in some
        PROVE  IsPointOf(q, path, strategy)
    BY <1>1, <1>3 DEF IsPointOf
  <2>2. shown'[<<path, strategy>>] # Absent
    BY <1>1, <1>2
  <2>3. \A q \in points' : \E p \in Paths, s \in Strategies : IsPointOf(q, p, s) /\ shown'[<<p, s>>] # Absent
    BY <1>1, <1>2, <2>1, <2>2 DEF Upserted, PointsKnown
  <2> QED
    BY <2>3 DEF PointsKnown
<1>5. OnePerId'
  <2>1. \A q, r \in some : q.id = r.id => q = r
    BY <1>3
  <2>2. \A q, r \in Upserted(some) : q.id = r.id => q = r
    BY <2>1 DEF Upserted, OnePerId
  <2> QED
    BY <2>2 DEF OnePerId
<1>6. ASSUME NEW p \in Paths, NEW s \in Strategies, shown'[<<p, s>>].state = "shown"
      PROVE  PointsOf(p, shown'[<<p, s>>].version, shown'[<<p, s>>].text, s) \subseteq points'
  <2>1. CASE p = path /\ s = strategy
    BY <1>2, <1>6, <2>1 DEF Batch, Upserted
  <2>2. CASE ~ (p = path /\ s = strategy)
    <3>1. shown'[<<p, s>>] = shown[<<p, s>>]
      BY <1>2, <2>2
    <3>2. ASSUME NEW q \in PointsOf(p, shown[<<p, s>>].version, shown[<<p, s>>].text, s)
          PROVE  q \in Upserted(some)
      <4>1. q \in points
        BY <1>6, <3>1 DEF Complete
      <4>2. \A r \in some : r.id # q.id
        BY <1>3, <2>2, PointFields
      <4> QED
        BY <4>1, <4>2 DEF Upserted
    <3> QED
      BY <3>1, <3>2
  <2> QED
    BY <2>1, <2>2
<1>7. Complete'
  BY <1>6 DEF Complete
<1> QED
  BY <1>4, <1>5, <1>7

\* Or deletes some of the points of one doc_id.
LEMMA DeleteKeeps ==
  ASSUME StoreInv, Typed', NEW p \in Paths, NEW some \in SUBSET Matching(p), points' = points \ some,
         \A d \in Paths, s \in Strategies :
           \/ shown'[<<d, s>>] = shown[<<d, s>>] /\ Uri[d] # Uri[p]
           \/ shown'[<<d, s>>] = Absent /\ Uri[d] = Uri[p] /\ (shown[<<d, s>>] = Absent \/ some = Matching(p))
           \/ shown'[<<d, s>>] = Unknown /\ Uri[d] = Uri[p] /\ shown[<<d, s>>] # Absent
  PROVE  StoreInv'
<1> USE DEF StoreInv
<1>1. Absent.state # "shown" /\ Unknown.state # "shown" /\ Unknown # Absent
  <2>1. Absent.state = "absent" /\ Unknown.state = "unknown"
    BY DEF Absent, Unknown
  <2> QED
    BY <2>1
<1>2. ASSUME NEW q \in points'
      PROVE  \E d \in Paths, s \in Strategies : IsPointOf(q, d, s) /\ shown'[<<d, s>>] # Absent
  <2>1. PICK d \in Paths, s \in Strategies : IsPointOf(q, d, s) /\ shown[<<d, s>>] # Absent
    BY DEF PointsKnown
  <2>2. q.doc_id = Uri[d]
    BY <2>1, PointFields
  <2>3. shown'[<<d, s>>] # Absent
    BY <1>1, <2>1, <2>2 DEF Matching
  <2> QED
    BY <2>1, <2>3
<1>3. ASSUME NEW d \in Paths, NEW s \in Strategies, shown'[<<d, s>>].state = "shown"
      PROVE  PointsOf(d, shown'[<<d, s>>].version, shown'[<<d, s>>].text, s) \subseteq points'
  <2>1. shown'[<<d, s>>] = shown[<<d, s>>] /\ Uri[d] # Uri[p]
    BY <1>1, <1>3
  <2>2. \A q \in PointsOf(d, shown[<<d, s>>].version, shown[<<d, s>>].text, s) : q \in points /\ q.doc_id = Uri[d]
    BY <1>3, <2>1, PointFields DEF Complete
  <2> QED
    BY <2>1, <2>2 DEF Matching
<1> QED
  BY <1>2, <1>3 DEF PointsKnown, OnePerId, Complete

-----------------------------------------------------------------------------
LEMMA InitStore == Init => StoreInv
<1> SUFFICES ASSUME Init PROVE StoreInv
  OBVIOUS
<1>1. NoText \in Texts /\ 0 \in Versions
  BY StoreAssumption DEF NoText, Text, Texts, Versions
<1>2. Typed
  BY <1>1 DEF Init, Typed, Shown
<1>3. Absent.state # "shown"
  BY DEF Absent
<1> QED
  BY <1>2, <1>3 DEF Init, StoreInv, PointsKnown, OnePerId, Complete

LEMMA StoreTyped == ASSUME StoreInv, [Next]_vars PROVE Typed'
<1> USE DEF StoreInv, Typed
<1>1. CASE UNCHANGED vars
  BY <1>1 DEF vars
<1>2. CASE \E p \in Paths : WriteFile(p)
  <2>1. PICK p \in Paths, n \in 0..MaxLength : files' = [files EXCEPT ![p] = Text(changes', n)]
    BY <1>2 DEF WriteFile
  <2>2. changes' \in Versions
    BY <1>2, StoreAssumption DEF WriteFile, Versions
  <2>3. Text(changes', n) \in Texts
    BY <2>2 DEF Text, Texts, Versions
  <2> QED
    BY <1>2, <2>1, <2>2, <2>3 DEF WriteFile
<1>3. ASSUME NEW p \in Paths, Load(p)
      PROVE  Typed'
  <2>1. files[p] \in Texts /\ stamp' \in Versions
    BY <1>3, StoreAssumption DEF Load, Texts, Versions
  <2> QED
    BY <1>3, <2>1 DEF Load
<1>4. CASE Embed
  BY <1>4 DEF Embed, Idle
<1>5. CASE Upsert
  <2>1. [state |-> "shown", version |-> stamp, text |-> text] \in Shown /\ Unknown \in Shown
    BY DEF Shown
  <2> QED
    BY <1>5, <2>1 DEF Upsert, Idle
<1>6. ASSUME NEW p \in Paths, Delete(p)
      PROVE  Typed'
  <2>1. Absent \in Shown /\ Unknown \in Shown
    BY DEF Shown
  <2>2. shown' \in [Paths \X Strategies -> Shown]
    BY <1>6, <2>1 DEF Delete
  <2> QED
    BY <1>6, <2>2 DEF Delete, Executor
<1>7. CASE Restart
  BY <1>7 DEF Restart, Idle
<1> QED
  BY <1>1, <1>2, <1>3, <1>4, <1>5, <1>6, <1>7 DEF Next

LEMMA StoreKept == ASSUME StoreInv, [Next]_vars PROVE StoreInv'
<1>1. Typed'
  BY StoreTyped
<1>2. CASE UNCHANGED <<points, shown>>
  BY <1>1, <1>2 DEF StoreInv, PointsKnown, OnePerId, Complete
<1>3. CASE Upsert
  <2> DEFINE now == [state |-> "shown", version |-> stamp, text |-> text]
  <2>1. now \in Shown /\ Unknown \in Shown /\ now.state = "shown" /\ Unknown.state = "unknown" /\ Absent.state = "absent"
    BY DEF StoreInv, Typed, Shown, Unknown, Absent
  <2>2. CASE points' = Upserted(Batch) /\ shown' = [shown EXCEPT ![<<path, strategy>>] = now]
    BY <1>1, <2>1, <2>2, UpsertKeeps
  <2>3. CASE /\ \E some \in SUBSET Batch : points' = Upserted(some)
             /\ shown' = [shown EXCEPT ![<<path, strategy>>] = Unknown]
    BY <1>1, <2>1, <2>3, UpsertKeeps
  <2> QED
    BY <1>3, <2>2, <2>3 DEF Upsert
<1>4. ASSUME NEW p \in Paths, Delete(p)
      PROVE  StoreInv'
  <2>1. \A d \in Paths, s \in Strategies : <<d, s>> \in Paths \X Strategies /\ <<d, s>>[1] = d
    OBVIOUS
  <2>2. CASE points' = points \ Matching(p) /\ shown' = [x \in Paths \X Strategies |-> IF Uri[x[1]] = Uri[p] THEN Absent ELSE shown[x]]
    BY <1>1, <2>1, <2>2, DeleteKeeps
  <2>3. CASE /\ \E some \in SUBSET Matching(p) : points' = points \ some
             /\ shown' = [x \in Paths \X Strategies |-> IF Uri[x[1]] = Uri[p] /\ shown[x] # Absent THEN Unknown ELSE shown[x]]
    <3>1. \A d \in Paths, s \in Strategies :
           \/ shown'[<<d, s>>] = shown[<<d, s>>] /\ Uri[d] # Uri[p]
           \/ shown'[<<d, s>>] = Absent /\ Uri[d] = Uri[p] /\ shown[<<d, s>>] = Absent
           \/ shown'[<<d, s>>] = Unknown /\ Uri[d] = Uri[p] /\ shown[<<d, s>>] # Absent
      BY <2>1, <2>3
    <3> QED
      BY <1>1, <2>3, <3>1, DeleteKeeps
  <2> QED
    BY <1>4, <2>2, <2>3 DEF Delete
<1>5. CASE Embed \/ Restart \/ \E p \in Paths : WriteFile(p) \/ Load(p)
  BY <1>2, <1>5 DEF Embed, Restart, WriteFile, Load
<1>6. CASE UNCHANGED vars
  BY <1>2, <1>6 DEF vars
<1> QED
  BY <1>3, <1>4, <1>5, <1>6 DEF Next

LEMMA StoreInvariant == Spec => []StoreInv
<1>1. Init => StoreInv
  BY InitStore
<1>2. StoreInv /\ [Next]_vars => StoreInv'
  BY StoreKept
<1> QED
  BY <1>1, <1>2, PTL DEF Spec

-----------------------------------------------------------------------------
(* Theorems.                                                                *)

\* No point of a deleted document is left under any strategy, whatever other
\* documents, requests that failed half way and restarts there were.
THEOREM DeletesAll == ASSUME UrisDiffer PROVE Spec => []DeletedLeavesNothing
<1>1. StoreInv => DeletedLeavesNothing
  <2> SUFFICES ASSUME StoreInv, NEW p \in Paths, \A s \in Strategies : shown[<<p, s>>] = Absent,
                      NEW q \in points, q.doc_id = Uri[p]
               PROVE  FALSE
    BY DEF DeletedLeavesNothing
  <2>1. PICK d \in Paths, s \in Strategies : IsPointOf(q, d, s) /\ shown[<<d, s>>] # Absent
    BY DEF StoreInv, PointsKnown
  <2>2. Uri[d] = Uri[p]
    BY <2>1, PointFields
  <2> QED
    BY <2>1, <2>2 DEF UrisDiffer
<1> QED
  BY <1>1, StoreInvariant, PTL

\* Upserting points that are all there changes nothing.
LEMMA UpsertAgain ==
  ASSUME OnePerId, NEW some \in SUBSET points
  PROVE  Upserted(some) = points
<1>1. \A q \in Upserted(some) : q \in points
  BY DEF Upserted
<1>2. \A q \in points : q \in Upserted(some)
  BY DEF Upserted, OnePerId
<1> QED
  BY <1>1, <1>2

\* What AgainChangesNothing says of one step of the points.
AgainStep ==
  \A p \in Paths :
    step = "upsert" /\ step' = "idle" /\ path = p
    /\ shown[<<p, strategy>>] = [state |-> "shown", version |-> stamp, text |-> text]
    => points' = points

\* Doing a finished record again changes no point, even when its request fails
\* half way: what at-least-once execution rests on.
THEOREM RedoIsHarmless == Spec => AgainChangesNothing
<1>1. StoreInv /\ [Next]_vars => [AgainStep]_points
  <2> SUFFICES ASSUME StoreInv, [Next]_vars, step = "upsert", NEW p \in Paths, path = p,
                      shown[<<p, strategy>>] = [state |-> "shown", version |-> stamp, text |-> text]
               PROVE  points' = points
    BY DEF AgainStep
  <2>1. CASE Upsert
    <3>1. Batch \subseteq points
      BY DEF StoreInv, Typed, Complete, Batch
    <3>2. \E some \in SUBSET Batch : points' = Upserted(some)
      BY <2>1 DEF Upsert
    <3> QED
      BY <3>1, <3>2, UpsertAgain DEF StoreInv
  <2>2. CASE UNCHANGED vars \/ Embed \/ Restart \/ \E d \in Paths : WriteFile(d) \/ Load(d) \/ Delete(d)
    BY <2>2 DEF vars, Embed, Restart, WriteFile, Load, Delete
  <2> QED
    BY <2>1, <2>2 DEF Next
<1>2. [][AgainStep]_points => AgainChangesNothing
  BY PTL DEF AgainChangesNothing, AgainStep
<1> QED
  BY <1>1, <1>2, StoreInvariant, PTL DEF Spec

\* The reader's walk comes to every chunk of a document in the order of the
\* chunks, and to nothing else.
LEMMA WalkIsDocument ==
  ASSUME UrisDiffer, StoreInv, NEW p \in Paths, NEW s \in Strategies, shown[<<p, s>>].state = "shown"
  PROVE  Chain(p, s) = PointsOf(p, shown[<<p, s>>].version, shown[<<p, s>>].text, s)
<1> DEFINE t    == shown[<<p, s>>].text
           P(i) == PointOf(p, shown[<<p, s>>].version, t, s, i)
           N    == ChunkCount(t, s)
           K    == MaxLength + 1
           upto == [n \in 0..K |-> {P(i) : i \in {j \in 0..(N - 1) : j <= n}}]
           Walk(f) == [n \in 0..K |-> IF n = 0 THEN First(p, s)
                                      ELSE f[n - 1] \cup Followers(f[n - 1])]
<1>1. t \in Texts /\ N \in Nat \ {0} /\ N <= K /\ K \in Nat
  <2>1. shown[<<p, s>>] \in Shown
    BY DEF StoreInv, Typed
  <2>2. t \in Texts
    BY <2>1 DEF Shown, Absent, Unknown
  <2> QED
    BY <2>2, Chunks, StoreAssumption
<1>2. \A i \in 0..(N - 1) : P(i) \in points /\ P(i).id = <<p, i, s>> /\ P(i).doc_id = Uri[p]
                            /\ P(i).index = i /\ P(i).strategy = s
  BY PointFields DEF StoreInv, Complete
<1>3. \A i \in 0..(N - 1) : P(i).next = IF i + 1 < N THEN {<<p, i + 1, s>>} ELSE {}
  BY DEF PointOf, PointId
<1>4. First(p, s) = {P(0)}
  <2>1. ASSUME NEW q \in First(p, s)
        PROVE  q = P(0)
    <3>1. q \in points /\ q.doc_id = Uri[p] /\ q.strategy = s /\ q.index = 0
      BY DEF First
    <3>2. PICK d \in Paths, c \in Strategies : IsPointOf(q, d, c)
      BY <3>1 DEF StoreInv, PointsKnown
    <3>3. q.doc_id = Uri[d] /\ q.strategy = c /\ q.id = <<d, 0, c>>
      BY <3>1, <3>2, PointFields
    <3>4. d = p /\ c = s
      BY <3>1, <3>3 DEF UrisDiffer
    <3>5. P(0) \in points /\ P(0).id = <<p, 0, s>>
      BY <1>1, <1>2
    <3> QED
      BY <3>1, <3>3, <3>4, <3>5 DEF StoreInv, OnePerId
  <2>2. P(0) \in First(p, s)
    BY <1>1, <1>2 DEF First
  <2> QED
    BY <2>1, <2>2
<1> HIDE DEF P, N, K, t
<1>5. upto = Walk(upto)
  <2>1. upto[0] = {P(0)}
    BY <1>1
  <2>2. ASSUME NEW n \in 1..K
        PROVE  upto[n] = upto[n - 1] \cup Followers(upto[n - 1])
    <3>1. upto[n - 1] = {P(i) : i \in {j \in 0..(N - 1) : j <= n - 1}}
      BY <1>1
    <3>2. ASSUME NEW q \in Followers(upto[n - 1])
          PROVE  q \in upto[n]
      <4>1. PICK i \in 0..(N - 1) : i <= n - 1 /\ P(i).next = {q.id} /\ q \in points
        BY <3>1 DEF Followers
      <4>2. i + 1 < N /\ q.id = <<p, i + 1, s>>
        BY <1>3, <4>1
      <4>3. i + 1 \in 0..(N - 1) /\ i + 1 <= n
        BY <1>1, <4>1, <4>2
      <4>4. q = P(i + 1)
        BY <1>2, <4>1, <4>2, <4>3 DEF StoreInv, OnePerId
      <4> QED
        BY <4>3, <4>4
    <3>3. ASSUME NEW i \in 0..(N - 1), i <= n
          PROVE  P(i) \in upto[n - 1] \cup Followers(upto[n - 1])
      <4>1. CASE i <= n - 1
        BY <3>1, <4>1
      <4>2. CASE i = n
        <5>1. n - 1 \in 0..(N - 1) /\ P(n - 1) \in upto[n - 1]
          BY <1>1, <3>1, <4>2
        <5>2. P(n - 1).next = {P(n).id}
          <6>1. PICK m \in 0..(N - 1) : m = n - 1
            BY <5>1
          <6>2. m + 1 = n /\ m + 1 < N
            BY <1>1, <4>2, <6>1
          <6>3. P(m).next = {<<p, m + 1, s>>}
            BY <1>3, <6>2
          <6>4. P(n).id = <<p, n, s>>
            BY <1>2, <4>2
          <6> QED
            BY <6>1, <6>2, <6>3, <6>4
        <5> QED
          BY <1>2, <4>2, <5>1, <5>2 DEF Followers
      <4> QED
        BY <3>3, <4>1, <4>2
    <3>4. upto[n] = {P(i) : i \in {j \in 0..(N - 1) : j <= n}}
      OBVIOUS
    <3>5. upto[n - 1] \subseteq upto[n]
      BY <3>1, <3>4
    <3>6. upto[n] \subseteq upto[n - 1] \cup Followers(upto[n - 1])
      BY <3>3, <3>4
    <3> QED
      BY <3>2, <3>5, <3>6
  <2>3. upto = [n \in 0..K |-> upto[n]]
    OBVIOUS
  <2> HIDE DEF upto
  <2>4. \A n \in 0..K : upto[n] = IF n = 0 THEN First(p, s)
                                   ELSE upto[n - 1] \cup Followers(upto[n - 1])
    BY <1>1, <1>4, <2>1, <2>2
  <2>5. Walk(upto) = [n \in 0..K |-> upto[n]]
    BY <2>4
  <2> QED
    BY <2>3, <2>5
<1> DEFINE from == CHOOSE f : f = Walk(f)
<1>6. from = Walk(from)
  BY <1>5
<1> HIDE DEF upto, from
<1>7. \A n \in 0..K : from[n] = upto[n]
  <2> DEFINE Good == {n \in 0..K : from[n] = upto[n]}
  <2>1. 0 \in Good
    BY <1>1, <1>5, <1>6
  <2>2. ASSUME NEW n \in 1..K, n - 1 \in Good
        PROVE  n \in Good
    <3>1. from[n - 1] = upto[n - 1]
      BY <2>2
    <3>2. n \in 0..K /\ n # 0
      BY <1>1
    <3>3. from[n] = from[n - 1] \cup Followers(from[n - 1])
      BY <1>6, <3>2
    <3>4. upto[n] = upto[n - 1] \cup Followers(upto[n - 1])
      BY <1>5, <3>2
    <3> QED
      BY <3>1, <3>2, <3>3, <3>4
  <2> HIDE DEF Good
  <2>3. 0..K \subseteq Good
    BY <1>1, <2>1, <2>2, IntervalInduction
  <2> QED
    BY <2>3 DEF Good
<1>8. Chain(p, s) = from[K]
  BY DEF Chain, from, K
<1>9. upto[K] = PointsOf(p, shown[<<p, s>>].version, t, s)
  <2>1. upto[K] = {P(i) : i \in 0..(N - 1)}
    BY <1>1 DEF upto
  <2> QED
    BY <2>1 DEF PointsOf, P, N
<1> QED
  BY <1>1, <1>7, <1>8, <1>9 DEF t

\* A reader who follows next_chunk_id from the first chunk of an ingested
\* document reads the text ingested last, complete and nothing else, for texts
\* of any length and whatever was there before.
THEOREM ReadsTheDocument == ASSUME UrisDiffer PROVE Spec => []ChainIsDocument
<1>1. StoreInv => ChainIsDocument
  BY WalkIsDocument DEF ChainIsDocument
<1> QED
  BY <1>1, StoreInvariant, PTL

=============================================================================
