-------------------------- MODULE SourceScanProofs --------------------------
(***************************************************************************)
(* The two polled sources keep the promise of Watch for every tree, every  *)
(* bucket and any number of changes, failed listings and restarts.         *)
(***************************************************************************)
EXTENDS SourceScan, FiniteSetTheorems, TLAPS

\* What is proved of the positions Keep keeps.
L == INSTANCE LogsProofs
       WITH log <- todo, journal <- todo, LegacyChunks <- {}, Paths <- {},
            Stamps <- {}, Ids <- {}, MaxLog <- 0, MaxJournal <- 0

-----------------------------------------------------------------------------
(* The inductive invariant.                                                 *)

Versions == {Gone} \cup {<<Stat[c]>> : c \in Contents} \cup {<<Stat[c], c>> : c \in Contents}

Typed ==
  /\ source \in {"filesystem", "s3"}
  /\ tree \in [Paths -> Contents \cup {NoFile}]
  /\ todo \in Seq(Nodes)
  /\ DOMAIN found \subseteq Paths /\ DOMAIN last_seen_version \subseteq Paths
  /\ events \in Seq([path : Paths, version : Versions])
  /\ looked \in [Paths -> Nat] /\ pos \in [Paths -> Nat]
  /\ history \in [Paths -> Seq(Versions)]

\* The history ends with what there is to see, and the source has looked at no
\* path after that or before the planner was told of it last.
Recorded ==
  \A p \in Paths :
    /\ Len(history[p]) > 0 /\ history[p][Len(history[p])] = Visible(p, tree, readable)
    /\ pos[p] <= looked[p] /\ looked[p] <= Len(history[p])

\* The last look at p has found v.
Saw(p, v) == looked[p] > 0 /\ history[p][looked[p]] = v

\* The walk will still come to p: it is to do, or a directory above it is.
Ahead(p, nodes) == \E i \in DOMAIN nodes : nodes[i] = p \/ nodes[i] \in Above[p]

\* Nothing is come to twice.
Apart(nodes) ==
  \A i, j \in DOMAIN nodes : i # j => nodes[i] # nodes[j] /\ nodes[i] \notin Above[nodes[j]]

\* What a poll has found is what it saw; what it has neither found nor before
\* it, it saw to be gone.
Walk ==
  phase = "scan" =>
    /\ Apart(todo)
    /\ source = "s3" => \A i \in DOMAIN todo : todo[i] \in Paths
    /\ \A p \in Paths :
         IF p \in DOMAIN found THEN ~ Ahead(p, todo) /\ Saw(p, file_version_id(found[p]))
         ELSE Ahead(p, todo) \/ Saw(p, Gone)

\* Until the next poll, an event tells what was seen.
Seen == phase = "plan" => \A i \in DOMAIN events : Saw(events[i].path, events[i].version)

ScanInv == Typed /\ Recorded /\ Walk /\ Seen

-----------------------------------------------------------------------------
(* Lemmas about sequences of nodes.                                         *)

\* Sorting a set of nodes gives all of them, each once.
LEMMA SortedSet ==
  ASSUME ScanAssumption, NEW nodes \in SUBSET Nodes
  PROVE  /\ Sorted(nodes) \in Seq(Nodes)
         /\ \A i \in DOMAIN Sorted(nodes) : Sorted(nodes)[i] \in nodes
         /\ \A n \in nodes : \E i \in DOMAIN Sorted(nodes) : Sorted(nodes)[i] = n
         /\ \A i, j \in DOMAIN Sorted(nodes) : Sorted(nodes)[i] = Sorted(nodes)[j] => i = j
<1> DEFINE idx == {i \in DOMAIN Order : Order[i] \in nodes}
           s == Keep(Order, idx)
<1>1. /\ Order \in Seq(Nodes) /\ \A n \in nodes : \E i \in DOMAIN Order : Order[i] = n
      /\ \A i, j \in DOMAIN Order : Order[i] = Order[j] => i = j
  BY DEF ScanAssumption, ToSet
<1>2. idx \in SUBSET (DOMAIN Order) /\ \A i \in idx : Order[i] \in nodes
  OBVIOUS
<1>3. \A n \in nodes : \E i \in idx : Order[i] = n
  BY <1>1
<1> HIDE DEF idx
<1>4. \A k : Kth(idx, k) = L!Kth(idx, k)
  BY DEF Kth, L!Kth, Cardinality, L!Cardinality
<1>5. s = L!Keep(Order, idx)
  BY <1>4 DEF Keep, L!Keep, Cardinality, L!Cardinality
<1>6. /\ s \in Seq(Nodes)
      /\ \A k \in DOMAIN s : Kth(idx, k) \in idx /\ s[k] = Order[Kth(idx, k)]
      /\ \A k, l \in DOMAIN s : k < l => Kth(idx, k) < Kth(idx, l)
      /\ \A i \in idx : \E k \in DOMAIN s : i = Kth(idx, k)
  BY <1>1, <1>2, <1>4, <1>5, L!Kept
<1>7. Sorted(nodes) = s
  BY DEF Sorted, idx
<1> HIDE DEF s
<1>8. \A k \in DOMAIN s : s[k] \in nodes
  BY <1>2, <1>6
<1>9. \A n \in nodes : \E k \in DOMAIN s : s[k] = n
  BY <1>3, <1>6
<1>10. ASSUME NEW k \in DOMAIN s, NEW l \in DOMAIN s, s[k] = s[l] PROVE k = l
  <2>1. Kth(idx, k) = Kth(idx, l)
    BY <1>1, <1>2, <1>6, <1>10
  <2>2. k \in Nat /\ l \in Nat
    BY <1>6
  <2>3. Kth(idx, k) \in Nat
    BY <1>1, <1>2, <1>6
  <2>4. ~ (k < l) /\ ~ (l < k)
    BY <1>6, <2>1, <2>3
  <2> QED
    BY <2>2, <2>4
<1> QED
  BY <1>6, <1>7, <1>8, <1>9, <1>10

\* There are finitely many files and directories.
LEMMA FiniteNodes == ASSUME ScanAssumption PROVE IsFiniteSet(Nodes)
<1>1. Order \in Seq(Nodes) /\ \A n \in Nodes : \E i \in DOMAIN Order : Order[i] = n
  BY DEF ScanAssumption, ToSet
<1>2. DOMAIN Order = 1..Len(Order)
  BY <1>1
<1> QED
  BY <1>1, <1>2 DEF IsFiniteSet

\* t is s with e in the place of its head.
Spliced(t, s, e) ==
  /\ Head(s) = s[1] /\ 1 \in DOMAIN s
  /\ \A i \in DOMAIN t : \/ i \in DOMAIN e /\ t[i] = e[i]
                         \/ /\ i \notin DOMAIN e /\ i - Len(e) + 1 \in DOMAIN s
                            /\ i - Len(e) + 1 # 1 /\ t[i] = s[i - Len(e) + 1]
  /\ \A i \in DOMAIN e : i \in DOMAIN t /\ t[i] = e[i]
  /\ \A i \in DOMAIN s : i # 1 => i - 1 + Len(e) \in DOMAIN t /\ t[i - 1 + Len(e)] = s[i]

LEMMA Replaced ==
  ASSUME NEW S, NEW s \in Seq(S), s # <<>>, NEW e \in Seq(S), NEW t, t = e \o Tail(s)
  PROVE  t \in Seq(S) /\ Spliced(t, s, e)
<1>1. /\ Len(s) \in Nat \ {0} /\ DOMAIN s = 1..Len(s) /\ Len(e) \in Nat /\ DOMAIN e = 1..Len(e)
      /\ Head(s) \in S /\ Head(s) = s[1] /\ 1 \in DOMAIN s
  OBVIOUS
<1>2. PICK r : r = Tail(s)
  OBVIOUS
<1>3. r \in Seq(S)
  BY <1>2
<1>4. Len(r) = Len(s) - 1 /\ DOMAIN r = 1..(Len(s) - 1) /\ \A i \in DOMAIN r : r[i] = s[i + 1]
  BY <1>1, <1>2
<1>5. t \in Seq(S)
  BY <1>2, <1>3
<1>6. Len(t) = Len(e) + Len(r) /\ DOMAIN t = 1..(Len(e) + Len(r))
  BY <1>2, <1>3, <1>5
<1>7. \A i \in 1..Len(e) : t[i] = e[i]
  BY <1>1, <1>2, <1>3, <1>5, <1>6
<1>8. \A i \in 1..Len(r) : t[Len(e) + i] = r[i]
  BY <1>1, <1>2, <1>3, <1>5, <1>6
<1>9. ASSUME NEW i \in DOMAIN t, i \notin DOMAIN e
      PROVE  /\ i - Len(e) + 1 \in DOMAIN s /\ i - Len(e) + 1 # 1 /\ t[i] = s[i - Len(e) + 1]
  <2>1. PICK j \in 1..Len(r) : j = i - Len(e)
    BY <1>1, <1>4, <1>6, <1>9
  <2>2. i = Len(e) + j
    BY <1>1, <1>6, <2>1
  <2>3. t[i] = s[j + 1]
    BY <1>4, <1>8, <2>1, <2>2
  <2> QED
    BY <1>1, <1>4, <2>1, <2>3
<1>10. ASSUME NEW i \in DOMAIN s, i # 1
       PROVE  i - 1 + Len(e) \in DOMAIN t /\ t[i - 1 + Len(e)] = s[i]
  <2>1. PICK j \in 1..Len(r) : j = i - 1
    BY <1>1, <1>4, <1>10
  <2>2. t[Len(e) + j] = s[j + 1] /\ Len(e) + j \in DOMAIN t
    BY <1>1, <1>4, <1>6, <1>8, <2>1
  <2>3. i - 1 + Len(e) = Len(e) + j /\ j + 1 = i
    BY <1>1, <2>1
  <2> QED
    BY <2>2, <2>3
<1>11. \A i \in DOMAIN e : i \in DOMAIN t /\ t[i] = e[i]
  BY <1>1, <1>4, <1>6, <1>7
<1> QED
  BY <1>1, <1>5, <1>9, <1>10, <1>11 DEF Spliced

\* What is left behind the head.
LEMMA Dropped ==
  ASSUME NEW S, NEW s \in Seq(S), s # <<>>, NEW t, t = Tail(s)
  PROVE  /\ t \in Seq(S) /\ Head(s) \in S /\ Head(s) = s[1] /\ 1 \in DOMAIN s
         /\ \A i \in DOMAIN t : i + 1 \in DOMAIN s /\ i + 1 # 1 /\ t[i] = s[i + 1]
         /\ \A i \in DOMAIN s : i # 1 => i - 1 \in DOMAIN t /\ t[i - 1] = s[i]
<1>1. /\ Len(s) \in Nat \ {0} /\ DOMAIN s = 1..Len(s)
      /\ Head(s) \in S /\ Head(s) = s[1] /\ 1 \in DOMAIN s
  OBVIOUS
<1>2. t \in Seq(S)
  OBVIOUS
<1>3. Len(t) = Len(s) - 1 /\ DOMAIN t = 1..(Len(s) - 1) /\ \A i \in DOMAIN t : t[i] = s[i + 1]
  BY <1>1, <1>2
<1> QED
  BY <1>1, <1>2, <1>3

\* A look at some paths moves their last look to the end of their histories.
LEMMA Looked ==
  ASSUME Typed, Recorded, NEW ps \in SUBSET Paths, Looking(ps), UNCHANGED <<pos, history>>
  PROVE  /\ looked' \in [Paths -> Nat]
         /\ \A p \in Paths : /\ pos'[p] <= looked'[p] /\ looked'[p] <= Len(history'[p])
                             /\ looked'[p] = IF p \in ps THEN Len(history[p]) ELSE looked[p]
         /\ \A p \in Paths : looked'[p] > 0 \/ p \notin ps
         /\ \A p \in ps : history'[p][looked'[p]] = Visible(p, tree, readable)
<1>1. looked' = [p \in Paths |-> IF p \in ps THEN Len(history[p]) ELSE looked[p]]
  BY DEF Looking
<1>2. \A p \in Paths : /\ Len(history[p]) \in Nat /\ Len(history[p]) > 0
                       /\ looked[p] \in Nat /\ pos[p] \in Nat
                       /\ pos[p] <= looked[p] /\ looked[p] <= Len(history[p])
                       /\ history[p][Len(history[p])] = Visible(p, tree, readable)
  BY DEF Typed, Recorded
<1> HIDE DEF Typed, Recorded, Looking
<1>3. \A p \in Paths : looked'[p] = IF p \in ps THEN Len(history[p]) ELSE looked[p]
  BY <1>1
<1>4. looked' \in [Paths -> Nat]
  BY <1>1, <1>2
<1> QED
  BY <1>2, <1>3, <1>4

-----------------------------------------------------------------------------
(* Every step keeps the invariant.                                          *)

\* The planner is told of paths and of versions.
LEMMA EventType ==
  ASSUME Typed, NEW i \in DOMAIN events
  PROVE  events[i].path \in Paths /\ events[i].version \in Versions
<1>1. PICK R : R = [path : Paths, version : Versions]
  OBVIOUS
<1>2. events \in Seq(R)
  BY <1>1 DEF Typed
<1>3. events[i] \in R
  BY <1>2
<1> QED
  BY <1>1, <1>3

LEMMA InitInv == ASSUME ScanAssumption, Init PROVE ScanInv
<1>1. \A p \in Paths : Visible(p, tree, readable) \in Versions
  BY DEF Init, Visible, Shows, Versions
<1>2. Typed
  <2>1. history \in [Paths -> Seq(Versions)]
    BY <1>1 DEF Init
  <2>2. todo \in Seq(Nodes) /\ events \in Seq([path : Paths, version : Versions])
    BY DEF Init
  <2>3. DOMAIN found = {} /\ DOMAIN last_seen_version = {}
    BY DEF Init
  <2> QED
    BY <2>1, <2>2, <2>3 DEF Init, Typed
<1>3. Recorded
  BY DEF Init, Recorded
<1> QED
  BY <1>2, <1>3 DEF Init, ScanInv, Walk, Seen

\* What is there to see has a type.
LEMMA VisibleType ==
  ASSUME NEW t \in [Paths -> Contents \cup {NoFile}], NEW can, NEW p \in Paths
  PROVE  Visible(p, t, can) \in Versions
BY DEF Visible, Shows, Versions

\* A change of the tree adds to the histories.
LEMMA BecomeInv ==
  ASSUME ScanAssumption, ScanInv, NEW t \in [Paths -> Contents \cup {NoFile}], NEW can,
         Become(t, can)
  PROVE  /\ ScanInv'
         /\ \A p \in Paths : \/ history'[p] = history[p]
                             \/ /\ Len(history'[p]) = Len(history[p]) + 1
                                /\ SubSeq(history'[p], 1, Len(history'[p]) - 1) = history[p]
<1> DEFINE V(p) == Visible(p, t, can)
<1>1. /\ tree' = t /\ readable' = can /\ source' = source
      /\ history' = [p \in Paths |-> IF V(p) = Visible(p, tree, readable) THEN history[p]
                                     ELSE Append(history[p], V(p))]
      /\ UNCHANGED <<source, phase, todo, found, last_seen_version, events, looked, pos>>
  BY DEF Become, tailer
<1>2. ASSUME NEW p \in Paths
      PROVE  /\ V(p) \in Versions /\ V(p) = Visible(p, tree, readable)'
             /\ history[p] \in Seq(Versions) /\ Len(history[p]) \in Nat \ {0}
             /\ history[p][Len(history[p])] = Visible(p, tree, readable)
             /\ looked[p] \in Nat /\ pos[p] \in Nat /\ pos[p] <= looked[p]
             /\ looked[p] <= Len(history[p])
  <2>1. V(p) \in Versions
    BY VisibleType
  <2>2. V(p) = Visible(p, tree, readable)'
    BY <1>1 DEF Visible, Shows, Reachable
  <2> QED
    BY <2>1, <2>2 DEF ScanInv, Typed, Recorded
<1>3. ASSUME NEW p \in Paths
      PROVE  /\ history'[p] \in Seq(Versions) /\ Len(history'[p]) >= Len(history[p])
             /\ history'[p][Len(history'[p])] = V(p)
             /\ \A i \in 1..Len(history[p]) : history'[p][i] = history[p][i]
             /\ \/ history'[p] = history[p]
                \/ /\ Len(history'[p]) = Len(history[p]) + 1
                   /\ SubSeq(history'[p], 1, Len(history'[p]) - 1) = history[p]
  <2> DEFINE h == history[p]
  <2>1. history'[p] = IF V(p) = Visible(p, tree, readable) THEN h ELSE Append(h, V(p))
    BY <1>1
  <2>2. h \in Seq(Versions) /\ Len(h) \in Nat \ {0} /\ V(p) \in Versions
        /\ h[Len(h)] = Visible(p, tree, readable)
    BY <1>2
  <2> HIDE DEF h, V
  <2>3. CASE V(p) = Visible(p, tree, readable)
    BY <2>1, <2>2, <2>3 DEF h
  <2>4. CASE V(p) # Visible(p, tree, readable)
    <3>1. PICK v \in Versions : v = V(p)
      BY <2>2
    <3>2. PICK a : a = Append(h, v)
      OBVIOUS
    <3>3. a \in Seq(Versions) /\ Len(a) = Len(h) + 1
      BY <2>2, <3>2
    <3>4. a[Len(h) + 1] = v /\ \A i \in 1..Len(h) : a[i] = h[i]
      BY <2>2, <3>2
    <3>5. SubSeq(a, 1, Len(h)) = h
      BY <2>2, <3>2
    <3>6. history'[p] = a
      BY <2>1, <2>4, <3>1, <3>2
    <3>7. Len(a) - 1 = Len(h)
      BY <2>2, <3>3
    <3> QED
      BY <2>2, <3>1, <3>3, <3>4, <3>5, <3>6, <3>7 DEF h
  <2> QED
    BY <2>3, <2>4
<1> HIDE DEF V
<1>4. Typed'
  <2>1. history' = [p \in Paths |-> history'[p]]
    BY <1>1
  <2>2. history' \in [Paths -> Seq(Versions)]
    BY <1>3, <2>1
  <2> QED
    BY <1>1, <2>2 DEF ScanInv, Typed
<1>5. Recorded'
  <2> SUFFICES ASSUME NEW p \in Paths
      PROVE  /\ Len(history'[p]) > 0
             /\ history'[p][Len(history'[p])] = Visible(p, tree, readable)'
             /\ pos'[p] <= looked'[p] /\ looked'[p] <= Len(history'[p])
    BY DEF Recorded
  <2>1. Len(history'[p]) \in Nat
    BY <1>3
  <2> QED
    BY <1>1, <1>2, <1>3, <2>1
<1>6. ASSUME NEW p \in Paths, NEW v, Saw(p, v) PROVE looked'[p] > 0 /\ history'[p][looked'[p]] = v
  BY <1>1, <1>2, <1>3, <1>6 DEF Saw
<1>7. Walk'
  <2> SUFFICES ASSUME phase = "scan" PROVE Walk'
    BY <1>1 DEF Walk
  <2>1. \A p \in Paths : file_version_id(found[p])' = file_version_id(found[p])
    BY <1>1 DEF file_version_id
  <2>2. Apart(todo)' /\ \A p \in Paths : Ahead(p, todo)' = Ahead(p, todo)
    BY <1>1 DEF ScanInv, Walk, Apart, Ahead
  <2> QED
    BY <1>1, <1>6, <2>1, <2>2 DEF ScanInv, Walk, Saw
<1>8. Seen'
  <2>1. \A i \in DOMAIN events : events[i].path \in Paths
    BY EventType DEF ScanInv
  <2>2. events' = events /\ phase' = phase
    BY <1>1
  <2> SUFFICES ASSUME phase = "plan", NEW i \in DOMAIN events
      PROVE  looked'[events[i].path] > 0
             /\ history'[events[i].path][looked'[events[i].path]] = events[i].version
    BY <2>2 DEF Seen, Saw
  <2>3. Saw(events[i].path, events[i].version)
    BY DEF ScanInv, Seen
  <2> QED
    BY <1>6, <2>1, <2>3
<1> QED
  BY <1>3, <1>4, <1>5, <1>7, <1>8 DEF ScanInv

LEMMA PollInv == ASSUME ScanAssumption, ScanInv, Poll PROVE ScanInv'
<1>1. /\ UNCHANGED <<source, tree, readable, history, last_seen_version, events, looked, pos>>
      /\ phase' = "scan" /\ found' = <<>>
  BY DEF Poll, world, tailer
<1>2. \A p \in Paths : p \in Nodes /\ Root \in Above[p] /\ p # Root
  BY DEF ScanAssumption, IsTree, Nodes
<1>3. /\ todo' \in Seq(Nodes) /\ Apart(todo')
      /\ source = "s3" => \A i \in DOMAIN todo' : todo'[i] \in Paths
      /\ \A p \in Paths : Ahead(p, todo')
  <2>1. CASE source = "filesystem"
    <3>1. todo' = <<Root>> /\ Root \in Nodes /\ Above[Root] = {}
      BY <2>1 DEF Poll, ScanAssumption, IsTree, Nodes
    <3>2. DOMAIN <<Root>> = {1} /\ <<Root>>[1] = Root /\ <<Root>> \in Seq(Nodes)
      BY <3>1
    <3> QED
      BY <1>2, <2>1, <3>1, <3>2 DEF Apart, Ahead
  <2>2. CASE source # "filesystem"
    <3>1. todo' = Sorted(Paths) /\ Paths \in SUBSET Nodes
      BY <2>2 DEF Poll, Nodes
    <3>2. /\ todo' \in Seq(Nodes) /\ \A i \in DOMAIN todo' : todo'[i] \in Paths
          /\ \A p \in Paths : \E i \in DOMAIN todo' : todo'[i] = p
          /\ \A i, j \in DOMAIN todo' : todo'[i] = todo'[j] => i = j
      BY <3>1, SortedSet
    <3>3. \A p, q \in Paths : p \notin Above[q]
      BY DEF ScanAssumption, IsTree, Nodes
    <3> QED
      BY <3>2, <3>3 DEF Apart, Ahead
  <2> QED
    BY <2>1, <2>2
<1>4. Typed' /\ Recorded'
  <2>1. \A p \in Paths : Visible(p, tree, readable)' = Visible(p, tree, readable)
    BY <1>1 DEF Visible, Reachable, Shows
  <2> QED
    BY <1>1, <1>3, <2>1 DEF ScanInv, Typed, Recorded
<1>5. Walk' /\ Seen'
  <2>1. DOMAIN found' = {}
    BY <1>1
  <2>2. Apart(todo)' /\ \A p \in Paths : Ahead(p, todo)'
    BY <1>3 DEF Apart, Ahead
  <2> QED
    BY <1>1, <1>3, <2>1, <2>2 DEF Walk, Seen
<1> QED
  BY <1>4, <1>5 DEF ScanInv

-----------------------------------------------------------------------------

\* A directory is replaced by what it lists; what it does not list, and can
\* not be listed, is not there to be seen.
LEMMA ReadDirInv == ASSUME ScanAssumption, ScanInv, ReadDir PROVE ScanInv'
<1> DEFINE d == Head(todo)
           entries == IF Reachable(d, readable) THEN Listed(d) ELSE <<>>
           below == {p \in Paths : d \in Above[p] /\ (Above[p] \cup {p}) \cap ToSet(entries) = {}}
<1>1. /\ phase = "scan" /\ phase' = "scan" /\ source = "filesystem" /\ todo # <<>> /\ d \in Dirs
      /\ todo' = entries \o Tail(todo) /\ Looking(below)
      /\ UNCHANGED <<source, tree, readable, history, last_seen_version, events, found, pos>>
  BY DEF ReadDir, Scanning, world, tailer
<1>2. /\ Dirs \subseteq Nodes /\ Paths \subseteq Nodes /\ Paths \cap Dirs = {}
      /\ \A n \in Nodes : Above[n] \in SUBSET Dirs
      /\ \A n \in Nodes : \A e \in Above[n] : e # n /\ Above[e] \subseteq Above[n]
      /\ \A n \in Nodes : \A e \in Above[n] : \E f \in Above[n] \cup {n} : Above[f] = Above[e] \cup {e}
  BY DEF ScanAssumption, IsTree, Nodes
<1>3. /\ entries \in Seq(Nodes)
      /\ \A i \in DOMAIN entries : Above[entries[i]] = Above[d] \cup {d}
      /\ \A i, j \in DOMAIN entries : entries[i] = entries[j] => i = j
      /\ Reachable(d, readable) =>
           \A n \in Nodes : Above[n] = Above[d] \cup {d} /\ (n \in Dirs \/ tree[n] # NoFile) =>
             \E i \in DOMAIN entries : entries[i] = n
  <2> DEFINE nodes == {n \in Nodes : Above[n] = Above[d] \cup {d} /\ (n \in Dirs \/ tree[n] # NoFile)}
  <2>1. nodes \in SUBSET Nodes /\ Listed(d) = Sorted(nodes)
    BY DEF Listed
  <2>2. CASE Reachable(d, readable)
    <3>1. entries = Sorted(nodes)
      BY <2>1, <2>2
    <3> HIDE DEF entries
    <3>2. /\ entries \in Seq(Nodes)
          /\ \A i \in DOMAIN entries : entries[i] \in nodes
          /\ \A n \in nodes : \E i \in DOMAIN entries : entries[i] = n
          /\ \A i, j \in DOMAIN entries : entries[i] = entries[j] => i = j
      BY <2>1, <3>1, SortedSet
    <3> QED
      BY <3>2
  <2>3. CASE ~ Reachable(d, readable)
    <3>1. entries = <<>>
      BY <2>3
    <3> HIDE DEF entries
    <3>2. <<>> \in Seq(Nodes) /\ DOMAIN <<>> = {}
      OBVIOUS
    <3> QED
      BY <2>3, <3>1, <3>2
  <2> QED
    BY <2>2, <2>3
<1>4. below \in SUBSET Paths /\ \A p \in below : d \in Above[p]
  OBVIOUS
<1>5. \A p \in Paths : d \in Above[p] =>
        p \in below \/ \E i \in DOMAIN entries : entries[i] = p \/ entries[i] \in Above[p]
  BY DEF ToSet
<1>6. \A p \in below : \A i \in DOMAIN entries : entries[i] # p /\ entries[i] \notin Above[p]
  BY DEF ToSet
<1>7. ~ Reachable(d, readable) => \E f \in Above[d] \cup {d} : f \notin readable
  BY <1>1 DEF Reachable
<1> HIDE DEF d, entries, below
<1>8. todo \in Seq(Nodes) /\ Typed /\ Recorded /\ Apart(todo)
  BY <1>1 DEF ScanInv, Walk, Typed
<1>9. PICK t : t = entries \o Tail(todo)
  OBVIOUS
<1>10. /\ t \in Seq(Nodes) /\ d = todo[1] /\ 1 \in DOMAIN todo
       /\ \A i \in DOMAIN t : \/ i \in DOMAIN entries /\ t[i] = entries[i]
                              \/ /\ i \notin DOMAIN entries /\ i - Len(entries) + 1 \in DOMAIN todo
                                 /\ i - Len(entries) + 1 # 1 /\ t[i] = todo[i - Len(entries) + 1]
       /\ \A i \in DOMAIN entries : i \in DOMAIN t /\ t[i] = entries[i]
       /\ \A i \in DOMAIN todo : i # 1 =>
            i - 1 + Len(entries) \in DOMAIN t /\ t[i - 1 + Len(entries)] = todo[i]
  <2>1. todo # <<>> /\ d = Head(todo)
    BY <1>1 DEF d
  <2>2. entries \in Seq(Nodes)
    BY <1>3
  <2>3. t \in Seq(Nodes) /\ Spliced(t, todo, entries)
    BY <1>8, <1>9, <2>1, <2>2, Replaced
  <2> QED
    BY <2>1, <2>3 DEF Spliced
<1>11. todo' = t
  BY <1>1, <1>9
<1>12. /\ \A i \in DOMAIN entries : entries[i] \in Nodes
       /\ \A i \in DOMAIN todo : todo[i] \in Nodes
       /\ Len(entries) \in Nat /\ DOMAIN t \subseteq Nat
  BY <1>3, <1>8, <1>10
<1>13. Apart(t)
  <2> SUFFICES ASSUME NEW i \in DOMAIN t, NEW j \in DOMAIN t, i # j
      PROVE  t[i] # t[j] /\ t[i] \notin Above[t[j]]
    BY DEF Apart
  <2>1. CASE i \in DOMAIN entries /\ j \in DOMAIN entries
    <3>1. t[i] = entries[i] /\ t[j] = entries[j]
      BY <1>10, <2>1
    <3>2. Above[entries[i]] = Above[entries[j]] /\ entries[i] # entries[j]
      BY <1>3, <2>1
    <3>3. entries[i] \in Nodes
      BY <1>12, <2>1
    <3> QED
      BY <1>2, <3>1, <3>2, <3>3
  <2>2. CASE i \in DOMAIN entries /\ j \notin DOMAIN entries
    <3>1. PICK k \in DOMAIN todo : k # 1 /\ t[j] = todo[k]
      BY <1>10, <2>2
    <3>2. d \in Above[t[i]] /\ t[i] \in Nodes /\ t[j] \in Nodes
      BY <1>3, <1>10, <1>12, <2>2, <3>1
    <3>3. d \notin Above[t[j]]
      BY <1>8, <1>10, <3>1 DEF Apart
    <3> QED
      BY <1>2, <3>2, <3>3
  <2>3. CASE i \notin DOMAIN entries /\ j \in DOMAIN entries
    <3>1. PICK k \in DOMAIN todo : k # 1 /\ t[i] = todo[k]
      BY <1>10, <2>3
    <3>2. d # t[i] /\ t[i] \notin Above[d] /\ d \notin Above[t[i]]
      BY <1>8, <1>10, <3>1 DEF Apart
    <3>3. Above[t[j]] = Above[d] \cup {d}
      BY <1>3, <1>10, <2>3
    <3> QED
      BY <3>2, <3>3
  <2>4. CASE i \notin DOMAIN entries /\ j \notin DOMAIN entries
    <3>1. PICK k \in DOMAIN todo : k = i - Len(entries) + 1 /\ t[i] = todo[k]
      BY <1>10, <2>4
    <3>2. PICK l \in DOMAIN todo : l = j - Len(entries) + 1 /\ t[j] = todo[l]
      BY <1>10, <2>4
    <3>3. k # l
      BY <1>12, <3>1, <3>2
    <3> QED
      BY <1>8, <3>1, <3>2, <3>3 DEF Apart
  <2> QED
    BY <2>1, <2>2, <2>3, <2>4
<1>14. ASSUME NEW p \in Paths PROVE Ahead(p, t) => Ahead(p, todo)
  <2> SUFFICES ASSUME NEW i \in DOMAIN t, t[i] = p \/ t[i] \in Above[p] PROVE Ahead(p, todo)
    BY DEF Ahead
  <2>1. CASE i \in DOMAIN entries
    <3>1. d \in Above[t[i]] /\ p \in Nodes
      BY <1>2, <1>3, <1>10, <2>1
    <3>2. d \in Above[p]
      BY <1>2, <3>1
    <3> QED
      BY <1>10, <3>2 DEF Ahead
  <2>2. CASE i \notin DOMAIN entries
    BY <1>10, <2>2 DEF Ahead
  <2> QED
    BY <2>1, <2>2
<1>15. ASSUME NEW p \in Paths, Ahead(p, todo), p \notin below PROVE Ahead(p, t)
  <2>1. PICK i \in DOMAIN todo : todo[i] = p \/ todo[i] \in Above[p]
    BY <1>15 DEF Ahead
  <2>2. CASE i # 1
    BY <1>10, <2>1, <2>2 DEF Ahead
  <2>3. CASE i = 1
    <3>1. d \in Above[p]
      BY <1>1, <1>2, <1>10, <2>1, <2>3
    <3>2. PICK j \in DOMAIN entries : entries[j] = p \/ entries[j] \in Above[p]
      BY <1>5, <1>15, <3>1
    <3> QED
      BY <1>10, <3>2 DEF Ahead
  <2> QED
    BY <2>2, <2>3
<1>16. \A p \in below : Ahead(p, todo)
  BY <1>4, <1>10 DEF Ahead
<1>17. ASSUME NEW p \in below PROVE Visible(p, tree, readable) = Gone
  <2>1. p \in Paths /\ p \in Nodes /\ d \in Above[p] /\ Above[d] \subseteq Above[p]
    BY <1>2, <1>4
  <2>2. CASE ~ Reachable(d, readable)
    BY <1>1, <1>7, <2>1, <2>2 DEF Visible, Reachable
  <2>3. CASE Reachable(d, readable)
    <3>1. PICK f \in Above[p] \cup {p} : Above[f] = Above[d] \cup {d}
      BY <1>2, <2>1
    <3>2. ~ \E i \in DOMAIN entries : entries[i] = f
      BY <1>6, <3>1
    <3>3. f \in Nodes /\ f \notin Dirs /\ tree[f] = NoFile
      BY <1>2, <1>3, <2>1, <2>3, <3>1, <3>2
    <3>4. f = p
      BY <1>2, <2>1, <3>1, <3>3
    <3> QED
      BY <3>3, <3>4 DEF Visible
  <2> QED
    BY <2>2, <2>3
<1>18. /\ looked' \in [Paths -> Nat]
       /\ \A p \in Paths : /\ pos'[p] <= looked'[p] /\ looked'[p] <= Len(history'[p])
                           /\ looked'[p] = IF p \in below THEN Len(history[p]) ELSE looked[p]
       /\ \A p \in below : looked'[p] > 0 /\ history'[p][looked'[p]] = Gone
  BY <1>1, <1>4, <1>8, <1>17, Looked
<1>19. Typed' /\ Recorded'
  <2>1. \A p \in Paths : Visible(p, tree, readable)' = Visible(p, tree, readable)
    BY <1>1 DEF Visible, Reachable, Shows
  <2>2. Typed'
    BY <1>1, <1>8, <1>10, <1>11, <1>18 DEF Typed
  <2> QED
    BY <1>1, <1>8, <1>18, <2>1, <2>2 DEF Recorded
<1>20. Walk'
  <2> SUFFICES ASSUME NEW p \in Paths
      PROVE  IF p \in DOMAIN found THEN ~ Ahead(p, t) /\ Saw(p, file_version_id(found[p]))'
             ELSE Ahead(p, t) \/ Saw(p, Gone)'
    <3>1. Apart(todo)' /\ \A p \in Paths : Ahead(p, todo)' = Ahead(p, t)
      BY <1>11, <1>13 DEF Apart, Ahead
    <3> QED
      BY <1>1, <3>1 DEF Walk
  <2>1. file_version_id(found[p])' = file_version_id(found[p])
    BY <1>1 DEF file_version_id
  <2>2. IF p \in DOMAIN found THEN ~ Ahead(p, todo) /\ Saw(p, file_version_id(found[p]))
        ELSE Ahead(p, todo) \/ Saw(p, Gone)
    BY <1>1 DEF ScanInv, Walk
  <2>3. p \notin below => \A v : Saw(p, v) => looked'[p] > 0 /\ history'[p][looked'[p]] = v
    BY <1>1, <1>18 DEF Saw
  <2>4. CASE p \in DOMAIN found
    BY <1>14, <1>16, <2>1, <2>2, <2>3, <2>4 DEF Saw
  <2>5. CASE p \notin DOMAIN found /\ p \notin below
    BY <1>15, <2>2, <2>3, <2>5 DEF Saw
  <2>6. CASE p \notin DOMAIN found /\ p \in below
    BY <1>18, <2>6 DEF Saw, Gone
  <2> QED
    BY <2>4, <2>5, <2>6
<1> QED
  BY <1>1, <1>19, <1>20 DEF ScanInv, Seen

\* A path is looked at: it is found as it is, or is not there to be seen.
LEMMA LookInv ==
  ASSUME ScanAssumption, ScanInv, Visit \/ ReadPage
  PROVE  ScanInv'
<1> DEFINE h == Head(todo)
<1>1. /\ phase = "scan" /\ phase' = "scan" /\ todo # <<>> /\ todo' = Tail(todo) /\ Looking({h})
      /\ UNCHANGED <<source, tree, readable, history, last_seen_version, events, pos>>
  BY DEF Visit, ReadPage, Scanning, world, tailer
<1>2. \/ source = "filesystem" /\ h \in Paths
      \/ source = "s3"
  BY DEF Visit, ReadPage, Scanning
<1>3. todo \in Seq(Nodes) /\ Typed /\ Recorded /\ Apart(todo)
      /\ (source = "s3" => \A i \in DOMAIN todo : todo[i] \in Paths)
  BY <1>1 DEF ScanInv, Walk, Typed
<1>4. PICK t : t = Tail(todo)
  OBVIOUS
<1>5. /\ t \in Seq(Nodes) /\ h = todo[1] /\ 1 \in DOMAIN todo
      /\ \A i \in DOMAIN t : i + 1 \in DOMAIN todo /\ i + 1 # 1 /\ t[i] = todo[i + 1]
      /\ \A i \in DOMAIN todo : i # 1 => i - 1 \in DOMAIN t /\ t[i - 1] = todo[i]
  BY <1>1, <1>3, <1>4, Dropped
<1>6. h \in Paths
  BY <1>2, <1>3, <1>5
<1>7. IF Visible(h, tree, readable) = Gone THEN found' = found
      ELSE /\ DOMAIN found' = DOMAIN found \cup {h}
           /\ file_version_id(found'[h]) = Visible(h, tree, readable)
           /\ \A p \in DOMAIN found : p # h => found'[p] = found[p]
  <2> DEFINE small == [stat |-> Stat[tree[h]]]
             large == [stat |-> Stat[tree[h]], etag |-> tree[h]]
  <2>1. small.stat = Stat[tree[h]] /\ large.stat = Stat[tree[h]] /\ large.etag = tree[h]
    OBVIOUS
  <2>2. Visible(h, tree, readable) # Gone <=> tree[h] # NoFile /\ Reachable(h, readable)
    BY DEF Visible, Shows, Gone
  <2> HIDE DEF small, large
  <2>3. CASE Visit
    <3>1. source = "filesystem" /\ found' = IF Visible(h, tree, readable) = Gone THEN found
                                            ELSE Finding(h, small)
      BY <2>3 DEF Visit, Scanning, small
    <3>2. file_version_id(small) = Shows(tree[h])
      BY <2>1, <3>1 DEF file_version_id, Shows
    <3> QED
      BY <2>2, <3>1, <3>2 DEF Finding, Visible
  <2>4. CASE ReadPage
    <3>1. source = "s3" /\ found' = IF tree[h] = NoFile THEN found ELSE Finding(h, large)
      BY <2>4 DEF ReadPage, Scanning, large
    <3>2. file_version_id(large) = Shows(tree[h]) /\ Reachable(h, readable)
      BY <2>1, <3>1 DEF file_version_id, Shows, Reachable
    <3> QED
      BY <2>2, <3>1, <3>2 DEF Finding, Visible
  <2> QED
    BY <2>3, <2>4
<1> HIDE DEF h
<1>8. \A p \in Paths : h \notin Above[p]
  BY <1>6 DEF ScanAssumption, IsTree, Nodes
<1>9. /\ Apart(t) /\ (source = "s3" => \A i \in DOMAIN t : t[i] \in Paths)
      /\ Ahead(h, todo) /\ ~ Ahead(h, t)
      /\ \A p \in Paths : p # h => (Ahead(p, t) <=> Ahead(p, todo))
  <2>1. DOMAIN t \subseteq Nat /\ DOMAIN todo \subseteq Nat
    BY <1>3, <1>5
  <2>2. Apart(t)
    <3> SUFFICES ASSUME NEW i \in DOMAIN t, NEW j \in DOMAIN t, i # j
        PROVE  t[i] # t[j] /\ t[i] \notin Above[t[j]]
      BY DEF Apart
    <3>1. PICK k \in DOMAIN todo : k = i + 1 /\ t[i] = todo[k]
      BY <1>5
    <3>2. PICK l \in DOMAIN todo : l = j + 1 /\ t[j] = todo[l]
      BY <1>5
    <3>3. k # l
      BY <2>1, <3>1, <3>2
    <3> QED
      BY <1>3, <3>1, <3>2, <3>3 DEF Apart
  <2>3. ~ Ahead(h, t)
    <3> SUFFICES ASSUME NEW i \in DOMAIN t PROVE t[i] # h /\ t[i] \notin Above[h]
      BY DEF Ahead
    <3> QED
      BY <1>3, <1>5 DEF Apart
  <2>4. ASSUME NEW p \in Paths, p # h PROVE Ahead(p, t) <=> Ahead(p, todo)
    <3>1. ASSUME NEW i \in DOMAIN t, t[i] = p \/ t[i] \in Above[p] PROVE Ahead(p, todo)
      BY <1>5, <3>1 DEF Ahead
    <3>2. ASSUME NEW i \in DOMAIN todo, todo[i] = p \/ todo[i] \in Above[p] PROVE Ahead(p, t)
      <4>1. i # 1
        BY <1>5, <1>8, <2>4, <3>2
      <4> QED
        BY <1>5, <3>2, <4>1 DEF Ahead
    <3> QED
      BY <3>1, <3>2 DEF Ahead
  <2>5. Ahead(h, todo)
    BY <1>5 DEF Ahead
  <2> QED
    BY <1>3, <1>5, <2>2, <2>3, <2>4, <2>5
<1>10. /\ looked' \in [Paths -> Nat]
       /\ \A p \in Paths : /\ pos'[p] <= looked'[p] /\ looked'[p] <= Len(history'[p])
                           /\ (p # h => looked'[p] = looked[p])
       /\ looked'[h] > 0 /\ history'[h][looked'[h]] = Visible(h, tree, readable)
  <2>1. {h} \in SUBSET Paths /\ h \in {h} /\ \A p : p \in {h} <=> p = h
    BY <1>6
  <2> QED
    BY <1>1, <1>3, <1>6, <2>1, Looked
<1>11. todo' = t
  BY <1>1, <1>4
<1>12. Typed' /\ Recorded'
  <2>1. \A p \in Paths : Visible(p, tree, readable)' = Visible(p, tree, readable)
    BY <1>1 DEF Visible, Reachable, Shows
  <2>2. DOMAIN found' \subseteq Paths
    BY <1>3, <1>6, <1>7 DEF Typed
  <2>3. Typed'
    BY <1>1, <1>3, <1>5, <1>10, <1>11, <2>2 DEF Typed
  <2> QED
    BY <1>1, <1>3, <1>10, <2>1, <2>3 DEF Recorded
<1>13. Walk'
  <2> SUFFICES ASSUME NEW p \in Paths
      PROVE  IF p \in DOMAIN found' THEN ~ Ahead(p, t) /\ Saw(p, file_version_id(found[p]))'
             ELSE Ahead(p, t) \/ Saw(p, Gone)'
    <3>1. Apart(todo)' /\ \A p \in Paths : Ahead(p, todo)' = Ahead(p, t)
      BY <1>9, <1>11 DEF Apart, Ahead
    <3> QED
      BY <1>1, <1>9, <1>11, <3>1 DEF Walk
  <2>1. file_version_id(found[p])' = file_version_id(found'[p])
    BY <1>1 DEF file_version_id
  <2>2. \A q \in Paths :
          IF q \in DOMAIN found THEN ~ Ahead(q, todo) /\ Saw(q, file_version_id(found[q]))
          ELSE Ahead(q, todo) \/ Saw(q, Gone)
    BY <1>1 DEF ScanInv, Walk
  <2>3. h \notin DOMAIN found
    BY <1>6, <1>9, <2>2
  <2>4. CASE p = h
    BY <1>7, <1>9, <1>10, <2>1, <2>3, <2>4 DEF Saw
  <2>5. CASE p # h
    <3>1. \A v : Saw(p, v) => looked'[p] > 0 /\ history'[p][looked'[p]] = v
      BY <1>1, <1>10, <2>5 DEF Saw
    <3>2. /\ p \in DOMAIN found' <=> p \in DOMAIN found
          /\ p \in DOMAIN found => found'[p] = found[p]
      BY <1>7, <2>5
    <3> QED
      BY <1>9, <2>1, <2>2, <2>5, <3>1, <3>2 DEF Saw
  <2> QED
    BY <2>4, <2>5
<1> QED
  BY <1>1, <1>12, <1>13 DEF ScanInv, Seen

-----------------------------------------------------------------------------
(* What a poll has found becomes events, and the planner takes them.        *)

\* At its end a walk has seen every path, and the events tell what it saw.
LEMMA EndScanInv == ASSUME ScanAssumption, ScanInv, EndScan PROVE ScanInv'
<1> DEFINE new == Sorted({p \in DOMAIN found : observes(p)})
<1>1. /\ phase = "scan" /\ phase' = "plan" /\ todo = <<>> /\ todo' = <<>> /\ found' = <<>>
      /\ last_seen_version' = [p \in DOMAIN found |-> file_version_id(found[p])]
      /\ UNCHANGED <<source, tree, readable, history, looked, pos>>
  BY DEF EndScan, complete_scan, world
<1>2. PICK order \in SetToSeqs(Missing) :
        events' = Observed \o [i \in DOMAIN order |-> [path |-> order[i], version |-> Gone]]
  BY DEF EndScan, complete_scan
<1>3. DOMAIN found \subseteq Paths /\ Missing \subseteq Paths \ DOMAIN found
      /\ Typed /\ Recorded /\ Gone \in Versions
  BY DEF ScanInv, Typed, Missing, Versions
<1>4. \A p \in Paths : IF p \in DOMAIN found THEN Saw(p, file_version_id(found[p])) ELSE Saw(p, Gone)
  <2>1. \A p : ~ Ahead(p, todo)
    BY <1>1 DEF Ahead
  <2> QED
    BY <1>1, <2>1 DEF ScanInv, Walk
<1>5. ASSUME NEW p \in Paths, NEW v, Saw(p, v)
      PROVE  v \in Versions
  BY <1>3, <1>5 DEF Saw, Typed, Recorded
<1>6. PICK S : S = [path : Paths, version : Versions]
  OBVIOUS
<1>7. /\ Observed \in Seq(S)
      /\ \A i \in DOMAIN Observed : Saw(Observed[i].path, Observed[i].version)
  <2>1. /\ new \in Seq(Nodes) /\ \A i \in DOMAIN new : new[i] \in DOMAIN found
    <3> DEFINE nodes == {p \in DOMAIN found : observes(p)}
    <3>1. nodes \in SUBSET Nodes /\ \A p \in nodes : p \in DOMAIN found
      BY <1>3 DEF Nodes
    <3> HIDE DEF nodes
    <3>2. Sorted(nodes) \in Seq(Nodes) /\ \A i \in DOMAIN Sorted(nodes) : Sorted(nodes)[i] \in nodes
      BY <3>1, SortedSet
    <3> QED
      BY <3>1, <3>2 DEF nodes
  <2>2. Observed = [i \in DOMAIN new |->
                      [path |-> new[i], version |-> file_version_id(found[new[i]])]]
    BY DEF Observed
  <2> HIDE DEF new
  <2>3. \A i \in DOMAIN new : new[i] \in Paths /\ Saw(new[i], file_version_id(found[new[i]]))
    BY <1>3, <1>4, <2>1
  <2>4. \A i \in DOMAIN new : [path |-> new[i], version |-> file_version_id(found[new[i]])] \in S
    BY <1>5, <1>6, <2>3
  <2>5. PICK n \in Nat : DOMAIN new = 1..n
    BY <2>1
  <2>6. Observed \in Seq(S)
    BY <2>2, <2>4, <2>5
  <2> QED
    BY <2>2, <2>3, <2>6
<1>8. PICK last : last = [i \in DOMAIN order |-> [path |-> order[i], version |-> Gone]]
  OBVIOUS
<1>9. last \in Seq(S) /\ \A i \in DOMAIN last : Saw(last[i].path, last[i].version)
  <2>1. PICK n \in Nat : DOMAIN order = 1..n
    <3>1. Missing \in SUBSET Nodes
      BY <1>3 DEF Nodes
    <3>2. Cardinality(Missing) \in Nat
      BY <3>1, FiniteNodes, FS_Subset, FS_CardinalityType
    <3>3. DOMAIN order = 1..Cardinality(Missing)
      BY DEF SetToSeqs
    <3> QED
      BY <3>2, <3>3
  <2>2. \A i \in DOMAIN order : order[i] \in Missing
    BY DEF SetToSeqs
  <2>3. \A i \in DOMAIN order : order[i] \in Paths /\ Saw(order[i], Gone)
    BY <1>3, <1>4, <2>2
  <2>4. \A i \in DOMAIN order : [path |-> order[i], version |-> Gone] \in S
    BY <1>3, <1>6, <2>3
  <2> QED
    BY <1>8, <2>1, <2>3, <2>4
<1>10. PICK e : e = Observed \o last
  OBVIOUS
<1>11. e \in Seq(S) /\ \A i \in DOMAIN e : Saw(e[i].path, e[i].version)
  <2> DEFINE o == Observed
  <2>1. o \in Seq(S) /\ \A i \in DOMAIN o : Saw(o[i].path, o[i].version)
    BY <1>7
  <2>2. e = o \o last
    BY <1>10
  <2> HIDE DEF o
  <2>3. e \in Seq(S)
    BY <1>9, <2>1, <2>2
  <2>4. \A i \in DOMAIN e : \/ \E j \in DOMAIN o : e[i] = o[j]
                            \/ \E j \in DOMAIN last : e[i] = last[j]
    <3>1. /\ Len(o) \in Nat /\ Len(last) \in Nat /\ DOMAIN o = 1..Len(o)
          /\ DOMAIN last = 1..Len(last)
      BY <1>9, <2>1
    <3>2. DOMAIN e = 1..(Len(o) + Len(last))
      BY <1>9, <2>1, <2>2, <3>1
    <3>3. \A i \in 1..Len(o) : e[i] = o[i]
      BY <1>9, <2>1, <2>2, <3>1
    <3>4. \A i \in 1..Len(last) : e[Len(o) + i] = last[i]
      BY <1>9, <2>1, <2>2, <3>1
    <3>5. ASSUME NEW i \in DOMAIN e, i \notin DOMAIN o PROVE \E j \in DOMAIN last : e[i] = last[j]
      <4>1. PICK j \in DOMAIN last : i = Len(o) + j
        <5>1. i - Len(o) \in DOMAIN last /\ i = Len(o) + (i - Len(o))
          BY <3>1, <3>2, <3>5
        <5> QED
          BY <5>1
      <4> QED
        BY <3>1, <3>4, <4>1
    <3> QED
      BY <3>1, <3>3, <3>5
  <2> QED
    BY <1>9, <2>1, <2>3, <2>4
<1>12. events' = e
  BY <1>2, <1>8, <1>10
<1>13. Typed' /\ Recorded'
  <2>1. \A p \in Paths : Visible(p, tree, readable)' = Visible(p, tree, readable)
    BY <1>1 DEF Visible, Reachable, Shows
  <2>2. DOMAIN found' = {} /\ DOMAIN last_seen_version' = DOMAIN found
    BY <1>1
  <2>3. Typed'
    BY <1>1, <1>3, <1>6, <1>11, <1>12, <2>2 DEF Typed
  <2> QED
    BY <1>1, <1>3, <2>1, <2>3 DEF Recorded
<1>14. Seen'
  <2> SUFFICES ASSUME NEW i \in DOMAIN e
      PROVE  looked'[e[i].path] > 0 /\ history'[e[i].path][looked'[e[i].path]] = e[i].version
    BY <1>12 DEF Seen, Saw
  <2> QED
    BY <1>1, <1>11 DEF Saw
<1> QED
  BY <1>1, <1>13, <1>14 DEF ScanInv, Walk

\* An event that is planned tells the planner of the version seen last.
LEMMA PlanInv ==
  ASSUME ScanAssumption, ScanInv, Plan
  PROVE  /\ ScanInv' /\ UNCHANGED history
         /\ \/ UNCHANGED <<pos, told>>
            \/ \E p \in Paths : /\ Saw(p, Head(events).version)
                                /\ pos' = [pos EXCEPT ![p] = looked[p]]
                                /\ told' = [told EXCEPT ![p] = history[p][looked[p]]]
<1>1. /\ phase = "plan" /\ phase' \in {"plan", "idle"}
      /\ UNCHANGED <<source, tree, readable, history, last_seen_version, todo, found, looked>>
  BY DEF Plan, world, tailer
<1>2. Typed /\ Recorded
  BY DEF ScanInv
<1>3. \A p \in Paths : Visible(p, tree, readable)' = Visible(p, tree, readable)
  BY <1>1 DEF Visible, Reachable, Shows
<1>4. CASE events = <<>>
  <2>1. phase' = "idle" /\ UNCHANGED <<events, pos, told>>
    BY <1>4 DEF Plan
  <2> QED
    BY <1>1, <1>2, <1>3, <2>1 DEF ScanInv, Typed, Recorded, Walk, Seen
<1>5. CASE events # <<>>
  <2> DEFINE S == [path : Paths, version : Versions]
  <2>1. PICK e : e = Head(events)
    OBVIOUS
  <2>2. PICK t : t = Tail(events)
    OBVIOUS
  <2>3. /\ told' = [told EXCEPT ![e.path] = e.version]
        /\ pos' = [pos EXCEPT ![e.path] = looked[e.path]]
        /\ events' = t /\ phase' = phase
    BY <1>5, <2>1, <2>2 DEF Plan
  <2>4. events \in Seq(S)
    BY <1>2 DEF Typed
  <2> HIDE DEF S
  <2>5. /\ t \in Seq(S) /\ e = events[1] /\ 1 \in DOMAIN events
        /\ \A i \in DOMAIN t : i + 1 \in DOMAIN events /\ t[i] = events[i + 1]
    BY <1>5, <2>1, <2>2, <2>4, Dropped
  <2>6. e.path \in Paths /\ e.version \in Versions /\ Saw(e.path, e.version)
    BY <1>1, <1>2, <2>5, EventType DEF ScanInv, Seen
  <2>7. PICK p \in Paths : p = e.path
    BY <2>6
  <2>8. pos \in [Paths -> Nat] /\ looked \in [Paths -> Nat]
    BY <1>2 DEF Typed
  <2>9. /\ pos' \in [Paths -> Nat] /\ pos' = [pos EXCEPT ![p] = looked[p]]
        /\ \A q \in Paths : pos'[q] = IF q = p THEN looked[q] ELSE pos[q]
    BY <2>3, <2>7, <2>8
  <2>10. Typed'
    BY <1>1, <1>2, <2>3, <2>5, <2>9 DEF Typed, S
  <2>11. Recorded'
    BY <1>1, <1>2, <1>3, <2>8, <2>9 DEF Recorded
  <2>12. Seen'
    <3> SUFFICES ASSUME NEW i \in DOMAIN t
        PROVE  looked'[t[i].path] > 0 /\ history'[t[i].path][looked'[t[i].path]] = t[i].version
      BY <2>3 DEF Seen, Saw
    <3>1. PICK j \in DOMAIN events : t[i] = events[j]
      BY <2>5
    <3> QED
      BY <1>1, <3>1 DEF ScanInv, Seen, Saw
  <2>13. told' = [told EXCEPT ![p] = history[p][looked[p]]] /\ Saw(p, e.version)
    BY <2>3, <2>6, <2>7 DEF Saw
  <2> QED
    BY <1>1, <2>1, <2>3, <2>9, <2>10, <2>11, <2>12, <2>13 DEF ScanInv, Walk
<1> QED
  BY <1>4, <1>5

\* A poll that is given up has seen nothing that matters, and a restart knows
\* paths only.
LEMMA LostInv ==
  ASSUME ScanAssumption, ScanInv, ListFails \/ Restart
  PROVE  ScanInv'
<1>1. /\ phase' = "idle" /\ todo' = <<>> /\ found' = <<>>
      /\ UNCHANGED <<source, tree, readable, history, looked, pos>>
      /\ \/ UNCHANGED <<events, last_seen_version>>
         \/ events' = <<>> /\ DOMAIN last_seen_version' \subseteq Paths
  BY DEF ListFails, Restart, world, tailer
<1>2. \A p \in Paths : Visible(p, tree, readable)' = Visible(p, tree, readable)
  BY <1>1 DEF Visible, Reachable, Shows
<1>3. DOMAIN found' = {} /\ todo' \in Seq(Nodes)
  BY <1>1
<1>4. events' \in Seq([path : Paths, version : Versions])
  <2>1. PICK R : R = [path : Paths, version : Versions]
    OBVIOUS
  <2>2. events \in Seq(R) /\ <<>> \in Seq(R)
    BY <2>1 DEF ScanInv, Typed
  <2> QED
    BY <1>1, <2>1, <2>2
<1> QED
  BY <1>1, <1>2, <1>3, <1>4 DEF ScanInv, Typed, Recorded, Walk, Seen

-----------------------------------------------------------------------------
(* The promise.                                                             *)

\* Every step keeps the invariant, and is a step or a stutter of Watch.
LEMMA ScanStep ==
  ASSUME ScanAssumption, ScanInv, [Next]_vars
  PROVE  ScanInv' /\ [Promise!Next]_(Promise!vars)
<1>1. CASE Poll
  <2>1. UNCHANGED <<history, pos, told>>
    BY <1>1 DEF Poll, world
  <2> QED
    BY <1>1, <2>1, PollInv DEF Promise!vars
<1>2. CASE ReadDir
  <2>1. UNCHANGED <<history, pos, told>>
    BY <1>2 DEF ReadDir, world
  <2> QED
    BY <1>2, <2>1, ReadDirInv DEF Promise!vars
<1>3. CASE Visit \/ ReadPage
  <2>1. UNCHANGED <<history, pos, told>>
    BY <1>3 DEF Visit, ReadPage, world
  <2> QED
    BY <1>3, <2>1, LookInv DEF Promise!vars
<1>4. CASE EndScan
  <2>1. UNCHANGED <<history, pos, told>>
    BY <1>4 DEF EndScan, world
  <2> QED
    BY <1>4, <2>1, EndScanInv DEF Promise!vars
<1>5. CASE Plan
  <2>1. ScanInv' /\ UNCHANGED history
    BY <1>5, PlanInv
  <2>2. CASE UNCHANGED <<pos, told>>
    BY <2>1, <2>2 DEF Promise!vars
  <2>3. ASSUME NEW p \in Paths, Saw(p, Head(events).version),
               pos' = [pos EXCEPT ![p] = looked[p]],
               told' = [told EXCEPT ![p] = history[p][looked[p]]]
        PROVE  Promise!Next
    <3>1. looked[p] \in pos[p]..Len(history[p]) /\ looked[p] > 0
      BY <2>3 DEF ScanInv, Typed, Recorded, Saw
    <3>2. Promise!Tell(p)
      BY <2>1, <2>3, <3>1 DEF Promise!Tell
    <3> QED
      BY <3>2 DEF Promise!Next
  <2> QED
    BY <1>5, <2>1, <2>2, <2>3, PlanInv
<1>6. CASE ListFails \/ Restart
  <2>1. UNCHANGED <<history, pos, told>>
    BY <1>6 DEF ListFails, Restart, world
  <2> QED
    BY <1>6, <2>1, LostInv DEF Promise!vars
<1>7. ASSUME NEW t \in [Paths -> Contents \cup {NoFile}], NEW can, Become(t, can)
      PROVE  ScanInv' /\ Promise!Next
  <2>1. UNCHANGED <<pos, told>>
    BY <1>7 DEF Become
  <2>2. \A p \in Paths : \/ history'[p] = history[p]
                         \/ /\ Len(history'[p]) = Len(history[p]) + 1
                            /\ SubSeq(history'[p], 1, Len(history'[p]) - 1) = history[p]
    BY <1>7, BecomeInv
  <2>3. Promise!Change
    BY <2>1, <2>2 DEF Promise!Change, Promise!Front
  <2> QED
    BY <1>7, <2>3, BecomeInv DEF Promise!Next
<1>8. CASE \E p \in Paths : Write(p)
  <2>1. PICK p \in Paths, c \in Contents \cup {NoFile} : Become([tree EXCEPT ![p] = c], readable)
    BY <1>8 DEF Write
  <2>2. [tree EXCEPT ![p] = c] \in [Paths -> Contents \cup {NoFile}]
    BY DEF ScanInv, Typed
  <2> QED
    BY <1>7, <2>1, <2>2
<1>9. CASE \E n \in Nodes : Lock(n) \/ Unlock(n)
  <2>1. PICK can : Become(tree, can)
    BY <1>9 DEF Lock, Unlock
  <2>2. tree \in [Paths -> Contents \cup {NoFile}]
    BY DEF ScanInv, Typed
  <2> QED
    BY <1>7, <2>1, <2>2
<1>10. CASE UNCHANGED vars
  <2>1. UNCHANGED <<source, tree, readable, history, phase, todo, found, last_seen_version, events,
                    looked, pos, told>>
    BY <1>10 DEF vars, world, tailer
  <2> QED
    BY <2>1 DEF ScanInv, Typed, Recorded, Walk, Seen, Saw, Apart, Ahead, Visible, Reachable, Shows,
                file_version_id, Promise!vars
<1> QED
  BY <1>1, <1>2, <1>3, <1>4, <1>5, <1>6, <1>8, <1>9, <1>10 DEF Next, Scan

\* The polled sources implement the safety of Watch: however walks are torn
\* by changes, listings fail half way and restarts lose events, the planner
\* is only told versions that a path has had, and never goes back.
THEOREM SourceScanKeepsPromise == ASSUME ScanAssumption PROVE Spec => SafeWatch
<1>1. Init => ScanInv
  BY InitInv
<1>2. ScanInv /\ [Next]_vars => ScanInv' /\ [Promise!Next]_(Promise!vars)
  BY ScanStep
<1>3. Init => Promise!Init
  BY DEF Init, Promise!Init
<1> QED
  BY <1>1, <1>2, <1>3, PTL DEF Spec, SafeWatch, Promise!Safe

=============================================================================
