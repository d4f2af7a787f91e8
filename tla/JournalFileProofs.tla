-------------------------- MODULE JournalFileProofs -------------------------
(***************************************************************************)
(* What a journal file promises of appends that have returned, whatever    *)
(* their number and however often the process or the machine stops.        *)
(***************************************************************************)
EXTENDS JournalFile, SequenceTheorems, TLAPS

\* What is proved of the positions Keep keeps.
L == INSTANCE LogsProofs
       WITH log <- file, journal <- file, LegacyChunks <- {}, Paths <- {},
            Stamps <- {}, Ids <- {}, MaxLog <- 0, MaxJournal <- 0

Marks == [mark : {"text", "part"}, of : Nat] \cup {EndOfLine}
Files == [exists : BOOLEAN, marks : Seq(Marks), synced : Nat]
Steps == {"closed", "sync_dir", "idle", "text", "end", "sync",
          "write", "sync_temp", "rename", "sync_rename"}

IsText(x) == x.mark = "text"

\* The records of m are in the order of their appends and none is after r.
InOrder(m) == \A i, j \in TextsAt(m) : i < j => m[i].of < m[j].of
UpTo(m, r) == \A i \in TextsAt(m) : m[i].of <= r

\* What a power loss cannot take from f has every record of promises.
Holds(f, promises) ==
  \A r \in promises : \E i \in TextsAt(f.marks) : i <= f.synced /\ f.marks[i].of = r

\* The path may name f when the records up to r are begun and those of promises
\* are promised.
Orderly(f, r, promises) ==
  /\ f \in Files /\ f.synced <= Len(f.marks)
  /\ ~ f.exists => f.marks = <<>>
  /\ InOrder(f.marks) /\ UpTo(f.marks, r)
  /\ Holds(f, promises)

Typed ==
  /\ record \in Nat /\ promised \subseteq Nat /\ step \in Steps
  /\ temp \in Files /\ temp.synced <= Len(temp.marks)

\* What the process at work knows of the file and of the temporary file.
AtWork ==
  /\ step # "closed" => file.exists
  /\ step = "text" => UpTo(file.marks, record - 1)
  /\ step \in {"end", "sync"} => record \in read_all(file.marks)
  /\ step \in {"write", "sync_temp", "rename"} => temp.exists
  /\ step \in {"sync_temp", "rename"} => InOrder(temp.marks) /\ UpTo(temp.marks, record)
  /\ step = "rename" => temp.synced = Len(temp.marks)

\* The inductive invariant.
JournalInv ==
  /\ Typed /\ AtWork
  /\ \A f \in {file} \cup former : Orderly(f, record, promised)

-----------------------------------------------------------------------------
(* Lemmas about marks.                                                      *)

LEMMA Texts ==
  ASSUME NEW m \in Seq(Marks)
  PROVE  /\ Len(m) \in Nat /\ DOMAIN m = 1..Len(m)
         /\ \A i \in DOMAIN m : m[i] \in Marks
         /\ TextsAt(m) \subseteq 1..Len(m)
         /\ \A i \in TextsAt(m) : m[i] \in [mark : {"text", "part"}, of : Nat]
  BY DEF TextsAt, Marks, EndOfLine

LEMMA MarkTypes ==
  ASSUME NEW r \in Nat
  PROVE  /\ Text(r) \in Marks /\ Part(r) \in Marks /\ EndOfLine \in Marks
         /\ IsText(Text(r)) /\ Text(r).of = r
         /\ ~ IsText(Part(r)) /\ ~ IsText(EndOfLine)
  BY DEF Text, Part, EndOfLine, Marks, IsText

\* A write adds at most one text, behind all others.
LEMMA WrittenTexts ==
  ASSUME NEW m \in Seq(Marks), NEW x \in Marks, NEW a, a = Append(m, x)
  PROVE  /\ a \in Seq(Marks) /\ Len(m) \in Nat /\ Len(a) = Len(m) + 1
         /\ \A i \in TextsAt(m) : a[i] = m[i]
         /\ a[Len(m) + 1] = x
         /\ TextsAt(a) = TextsAt(m) \cup IF IsText(x) THEN {Len(m) + 1} ELSE {}
<1>1. /\ a \in Seq(Marks) /\ Len(a) = Len(m) + 1 /\ Len(m) \in Nat
      /\ DOMAIN m = 1..Len(m) /\ DOMAIN a = 1..(Len(m) + 1)
      /\ \A i \in 1..Len(m) : a[i] = m[i]
      /\ a[Len(m) + 1] = x
  OBVIOUS
<1> QED
  BY <1>1 DEF TextsAt, IsText

\* The same for the file.
LEMMA WrittenFile ==
  ASSUME NEW f \in Files, NEW x \in Marks, f.synced <= Len(f.marks)
  PROVE  /\ Written(f, x) \in Files
         /\ Written(f, x).marks = Append(f.marks, x) /\ Written(f, x).synced = f.synced
         /\ Written(f, x).synced <= Len(Written(f, x).marks)
<1>1. f.marks \in Seq(Marks) /\ f.synced \in Nat
  BY DEF Files
<1>2. Append(f.marks, x) \in Seq(Marks) /\ Len(Append(f.marks, x)) = Len(f.marks) + 1 /\ Len(f.marks) \in Nat
  BY <1>1, WrittenTexts
<1> QED
  BY <1>1, <1>2 DEF Files, Written

\* What remains of a file after a power loss has what was on the disk.
LEMMA RemainingTexts ==
  ASSUME NEW f \in Files, f.synced <= Len(f.marks), NEW g \in Remains(f)
  PROVE  /\ g \in Files /\ g.synced = Len(g.marks)
         /\ f.synced <= g.synced
         /\ \A i \in TextsAt(g.marks) : i \in TextsAt(f.marks) /\ g.marks[i] = f.marks[i]
         /\ \A i \in TextsAt(f.marks) : i <= f.synced => i \in TextsAt(g.marks)
<1>1. f.marks \in Seq(Marks) /\ f.synced \in Nat /\ Len(f.marks) \in Nat
  BY DEF Files
<1>2. PICK n \in f.synced..Len(f.marks) : g = [f EXCEPT !.marks = SubSeq(@, 1, n), !.synced = n]
  BY DEF Remains
<1>3. n \in Nat /\ n <= Len(f.marks)
  BY <1>1, <1>2
<1>4. /\ SubSeq(f.marks, 1, n) \in Seq(Marks) /\ Len(SubSeq(f.marks, 1, n)) = n
      /\ DOMAIN SubSeq(f.marks, 1, n) = 1..n
      /\ \A i \in 1..n : SubSeq(f.marks, 1, n)[i] = f.marks[i]
  BY <1>1, <1>3
<1>5. g.marks = SubSeq(f.marks, 1, n) /\ g.synced = n /\ g \in Files
  BY <1>2, <1>3, <1>4 DEF Files
<1>6. DOMAIN f.marks = 1..Len(f.marks)
  BY <1>1
<1> QED
  BY <1>1, <1>2, <1>3, <1>4, <1>5, <1>6 DEF TextsAt

\* A rewritten file has some of the records of the old one, in their order.
LEMMA RewrittenTexts ==
  ASSUME NEW m \in Seq(Marks), NEW kept \in SUBSET TextsAt(m), NEW r \in Nat,
         InOrder(m), UpTo(m, r)
  PROVE  LET t == Lines(Keep(m, kept))
         IN  t \in Seq(Marks) /\ InOrder(t) /\ UpTo(t, r)
<1> DEFINE c == Keep(m, kept)
           t == Lines(c)
<1>1. kept \in SUBSET (DOMAIN m)
  BY Texts
<1>2. \A k : Kth(kept, k) = L!Kth(kept, k)
  BY DEF Kth, L!Kth, Cardinality, L!Cardinality
<1>3. c = L!Keep(m, kept)
  BY <1>2 DEF Keep, L!Keep, Cardinality, L!Cardinality
<1>4. /\ c \in Seq(Marks)
      /\ \A k \in DOMAIN c : Kth(kept, k) \in kept /\ c[k] = m[Kth(kept, k)]
      /\ \A k, l \in DOMAIN c : k < l => Kth(kept, k) < Kth(kept, l)
  BY <1>1, <1>2, <1>3, L!Kept
<1> HIDE DEF c
<1>5. Len(c) \in Nat /\ DOMAIN c = 1..Len(c)
  BY <1>4
<1>6. t = [k \in 1..2 * Len(c) |-> IF k % 2 = 1 THEN c[(k + 1) \div 2] ELSE EndOfLine]
  BY DEF Lines
<1>7. \A k \in 1..2 * Len(c) : k % 2 = 1 => (k + 1) \div 2 \in DOMAIN c
  BY <1>5
<1>8. t \in Seq(Marks) /\ DOMAIN t = 1..2 * Len(c)
  <2>1. \A k \in 1..2 * Len(c) : t[k] \in Marks
    BY <1>4, <1>6, <1>7, MarkTypes, 0 \in Nat
  <2>2. 2 * Len(c) \in Nat
    BY <1>5
  <2> QED
    BY <1>6, <2>1, <2>2
<1>9. \A k \in TextsAt(t) : k % 2 = 1 /\ (k + 1) \div 2 \in DOMAIN c /\ t[k] = c[(k + 1) \div 2]
  BY <1>6, <1>7, <1>8, MarkTypes, 0 \in Nat DEF TextsAt, IsText
<1> HIDE DEF t
<1>10. \A k \in TextsAt(t) : t[k] = m[Kth(kept, (k + 1) \div 2)] /\ Kth(kept, (k + 1) \div 2) \in TextsAt(m)
  BY <1>4, <1>9
<1>11. ASSUME NEW k \in TextsAt(t), NEW l \in TextsAt(t), k < l
       PROVE  (k + 1) \div 2 < (l + 1) \div 2
  <2>1. k \in Nat /\ l \in Nat /\ k % 2 = 1 /\ l % 2 = 1
    <3>1. k \in 1..2 * Len(c) /\ l \in 1..2 * Len(c)
      BY <1>8 DEF TextsAt
    <3>2. k \in Nat /\ l \in Nat
      BY <3>1
    <3> QED
      BY <1>9, <3>2
  <2> QED
    BY <1>11, <2>1
<1>12. InOrder(t)
  BY <1>4, <1>9, <1>10, <1>11 DEF InOrder
<1>13. UpTo(t, r)
  BY <1>10 DEF UpTo
<1> QED
  BY <1>8, <1>12, <1>13 DEF c, t

-----------------------------------------------------------------------------
(* Lemmas about what the path names.                                        *)

\* Later records and fewer promises ask for nothing more.
LEMMA StaysOrderly ==
  ASSUME NEW f, NEW r \in Nat, NEW s \in Nat, r <= s, NEW promises, NEW fewer \in SUBSET promises,
         Orderly(f, r, promises)
  PROVE  Orderly(f, s, fewer)
<1>1. f.marks \in Seq(Marks)
  BY DEF Orderly, Files
<1>2. \A i \in TextsAt(f.marks) : f.marks[i].of \in Nat
  BY <1>1, Texts
<1>3. UpTo(f.marks, s)
  BY <1>2 DEF Orderly, UpTo
<1> QED
  BY <1>3 DEF Orderly, Holds

\* A power loss leaves an orderly file.
LEMMA RemainsOrderly ==
  ASSUME NEW r \in Nat, NEW promises, NEW f, Orderly(f, r, promises), NEW g \in Remains(f)
  PROVE  Orderly(g, r, promises)
<1>1. f \in Files /\ f.synced <= Len(f.marks)
  BY DEF Orderly
<1>2. /\ g \in Files /\ g.synced = Len(g.marks)
      /\ f.synced <= g.synced
      /\ \A i \in TextsAt(g.marks) : i \in TextsAt(f.marks) /\ g.marks[i] = f.marks[i]
      /\ \A i \in TextsAt(f.marks) : i <= f.synced => i \in TextsAt(g.marks)
  BY <1>1, RemainingTexts
<1>3. f.marks \in Seq(Marks) /\ g.marks \in Seq(Marks) /\ f.synced \in Nat /\ g.synced \in Nat
  BY <1>1, <1>2 DEF Files
<1>4. TextsAt(f.marks) \subseteq Nat
  BY <1>3, Texts
<1>5. InOrder(g.marks) /\ UpTo(g.marks, r)
  BY <1>2 DEF Orderly, InOrder, UpTo
<1>6. Holds(g, promises)
  <2> SUFFICES ASSUME NEW p \in promises
               PROVE  \E i \in TextsAt(g.marks) : i <= g.synced /\ g.marks[i].of = p
    BY DEF Holds
  <2>1. PICK i \in TextsAt(f.marks) : i <= f.synced /\ f.marks[i].of = p
    BY DEF Orderly, Holds
  <2>2. i \in TextsAt(g.marks) /\ g.marks[i] = f.marks[i] /\ i \in Nat
    BY <1>2, <1>4, <2>1
  <2> QED
    BY <1>2, <1>3, <2>1, <2>2
<1>7. ~ g.exists => g.marks = <<>>
  <2> SUFFICES ASSUME ~ g.exists PROVE g.marks = <<>>
    OBVIOUS
  <2>1. PICK n \in f.synced..Len(f.marks) : g = [f EXCEPT !.marks = SubSeq(@, 1, n), !.synced = n]
    BY DEF Remains
  <2>2. g.exists = f.exists /\ g.marks = SubSeq(f.marks, 1, n)
    BY <1>1, <2>1 DEF Files
  <2>3. f.marks = <<>>
    BY <2>2 DEF Orderly
  <2>4. n = 0
    BY <1>3, <2>1, <2>3
  <2> QED
    BY <2>2, <2>3, <2>4
<1> QED
  BY <1>2, <1>3, <1>5, <1>6, <1>7 DEF Orderly

\* A write behind the texts of an orderly file: not a text, or the text of a
\* record that is after all of them.
LEMMA WrittenOrderly ==
  ASSUME NEW r \in Nat, NEW promises, NEW f, Orderly(f, r, promises), f.exists,
         NEW x \in Marks, IsText(x) => UpTo(f.marks, r - 1) /\ x.of = r
  PROVE  /\ Orderly(Written(f, x), r, promises) /\ Written(f, x).exists
         /\ read_all(f.marks) \subseteq read_all(Written(f, x).marks)
         /\ IsText(x) => r \in read_all(Written(f, x).marks)
<1> DEFINE g == Written(f, x)
           m == f.marks
           a == g.marks
<1>1. f \in Files /\ f.synced <= Len(f.marks) /\ InOrder(m) /\ UpTo(m, r) /\ Holds(f, promises)
  BY DEF Orderly
<1>2. /\ g \in Files /\ g.synced = f.synced /\ g.synced <= Len(a)
      /\ a = Append(m, x) /\ g.exists
  BY <1>1, WrittenFile DEF Written, Files
<1>3. m \in Seq(Marks)
  BY <1>1 DEF Files
<1>4. /\ \A i \in TextsAt(m) : a[i] = m[i]
      /\ a[Len(m) + 1] = x
      /\ TextsAt(a) = TextsAt(m) \cup IF IsText(x) THEN {Len(m) + 1} ELSE {}
  <2>1. PICK k \in Seq(Marks) : k = m
    BY <1>3
  <2>2. PICK b : b = Append(k, x)
    OBVIOUS
  <2>3. \A i \in TextsAt(k) : b[i] = k[i]
    BY <2>2, Texts
  <2>5. b[Len(k) + 1] = x
    BY <2>2, WrittenTexts
  <2>6. TextsAt(b) = TextsAt(k) \cup IF IsText(x) THEN {Len(k) + 1} ELSE {}
    BY <2>2, WrittenTexts
  <2>4. a = b
    BY <1>2, <2>1, <2>2
  <2> HIDE DEF g, m, a
  <2> QED
    BY <2>1, <2>3, <2>4, <2>5, <2>6
<1>5. Len(m) \in Nat /\ TextsAt(m) \subseteq 1..Len(m) /\ \A i \in TextsAt(m) : m[i].of \in Nat
  BY <1>3, Texts
<1> HIDE DEF g, m, a
<1>6. InOrder(a)
  <2> SUFFICES ASSUME NEW i \in TextsAt(a), NEW j \in TextsAt(a), i < j PROVE a[i].of < a[j].of
    BY DEF InOrder
  <2>1. i \in TextsAt(m) /\ a[i] = m[i]
    BY <1>4, <1>5
  <2>2. CASE j \in TextsAt(m)
    BY <1>1, <1>4, <2>1, <2>2 DEF InOrder
  <2>3. CASE j = Len(m) + 1 /\ IsText(x) /\ a[j] = x
    BY <1>5, <2>1, <2>3 DEF UpTo, m
  <2> QED
    BY <1>4, <2>2, <2>3
<1>7. UpTo(a, r)
  BY <1>1, <1>4 DEF UpTo
<1>8. Holds(g, promises)
  BY <1>1, <1>2, <1>4 DEF Holds, a, m
<1>9. Orderly(g, r, promises)
  BY <1>2, <1>6, <1>7, <1>8 DEF Orderly, a
<1>10. read_all(m) \subseteq read_all(a)
  BY <1>4 DEF read_all
<1>11. IsText(x) => r \in read_all(a)
  BY <1>4 DEF read_all
<1> QED
  BY <1>2, <1>9, <1>10, <1>11 DEF g, m, a

\* A file that is on the disk holds what is promised of it.
LEMMA SyncedHolds ==
  ASSUME NEW f \in Files, f.synced = Len(f.marks), NEW promises \in SUBSET read_all(f.marks)
  PROVE  Holds(f, promises)
<1>1. f.marks \in Seq(Marks)
  BY DEF Files
<1>2. TextsAt(f.marks) \subseteq 1..f.synced
  BY <1>1, Texts
<1>3. \A i \in TextsAt(f.marks) : i <= f.synced
  BY <1>2
<1> QED
  BY <1>3 DEF Holds, read_all

LEMMA EmptyFile ==
  ASSUME NEW r \in Nat
  PROVE  /\ NoFile \in Files /\ File(<<>>, 0) \in Files /\ Orderly(NoFile, r, {})
         /\ Orderly(File(<<>>, 0), r, {}) /\ ~ NoFile.exists /\ File(<<>>, 0).exists
         /\ NoFile.synced <= Len(NoFile.marks) /\ File(<<>>, 0).synced <= Len(File(<<>>, 0).marks)
  BY DEF NoFile, File, Files, Orderly, InOrder, UpTo, Holds, TextsAt

-----------------------------------------------------------------------------
(* The invariant.                                                           *)

LEMMA JournalInit ==
  ASSUME Init
  PROVE  JournalInv
<1>1. Typed
  BY EmptyFile, 0 \in Nat DEF Init, Typed, Steps
<1>2. AtWork
  BY DEF Init, AtWork
<1>3. \A f \in {file} \cup former : Orderly(f, record, promised)
  BY EmptyFile, 0 \in Nat DEF Init
<1> QED
  BY <1>1, <1>2, <1>3 DEF JournalInv

\* Steps that leave what the path names and what is promised alone.
LEMMA FileStays ==
  ASSUME JournalInv, file' = file, former' \subseteq former, promised' = promised, record' = record
  PROVE  \A f \in {file'} \cup former' : Orderly(f, record', promised')
  BY DEF JournalInv

\* Opening the file and starting an append.
LEMMA OpenKeeps ==
  ASSUME JournalInv, Create \/ SyncDirectory \/ Open \/ Exit \/ Begin
  PROVE  JournalInv'
<1>0. record \in Nat
  BY DEF JournalInv, Typed
<1>1. CASE Create
  <2>1. promised = {}
    BY <1>1 DEF Create, JournalInv, Orderly, Holds, TextsAt
  <2>2. Typed' /\ AtWork'
    BY <1>1, EmptyFile, <1>0 DEF Create, JournalInv, Typed, AtWork, Steps
  <2>3. \A f \in {file'} \cup former' : Orderly(f, record', promised')
    BY <1>0, <1>1, <2>1, EmptyFile DEF Create
  <2> QED
    BY <2>2, <2>3 DEF JournalInv
<1>2. CASE SyncDirectory \/ Open \/ Exit
  <2>1. \A f \in {file'} \cup former' : Orderly(f, record', promised')
    BY <1>2, FileStays DEF SyncDirectory, Open, Exit
  <2>2. Typed' /\ AtWork'
    BY <1>2 DEF SyncDirectory, Open, Exit, JournalInv, Typed, AtWork, Steps
  <2> QED
    BY <2>1, <2>2 DEF JournalInv
<1>3. CASE Begin
  <2>1. record' \in Nat /\ record <= record' /\ record' - 1 = record
    BY <1>0, <1>3 DEF Begin
  <2>2. \A f \in {file'} \cup former' : Orderly(f, record', promised')
    BY <1>0, <1>3, <2>1, StaysOrderly DEF Begin, JournalInv
  <2>3. UpTo(file.marks, record)
    BY DEF JournalInv, Orderly
  <2>4. Typed' /\ AtWork'
    BY <1>3, <2>1, <2>3 DEF Begin, JournalInv, Typed, AtWork, Steps
  <2> QED
    BY <2>2, <2>4 DEF JournalInv
<1> QED
  BY <1>1, <1>2, <1>3

\* Appending: the text of the record is behind all others, and on the disk
\* before it is promised; then no former file can come back.
LEMMA AppendKeeps ==
  ASSUME EntryDurable, JournalInv, WriteText \/ WriteEnd \/ Sync
  PROVE  JournalInv'
<1>0. /\ record \in Nat /\ promised \subseteq Nat /\ step \in Steps
      /\ Orderly(file, record, promised)
      /\ \A f \in former : Orderly(f, record, promised)
      /\ temp \in Files /\ temp.synced <= Len(temp.marks)
  BY DEF JournalInv, Typed
<1>1. CASE WriteText
  <2>1. step = "text" /\ file' = Written(file, Text(record)) /\ step' = "end" /\ file.exists
        /\ UpTo(file.marks, record - 1)
    BY <1>1 DEF WriteText, JournalInv, AtWork
  <2>2. UNCHANGED <<former, temp, record, promised>>
    BY <1>1 DEF WriteText
  <2>3. Orderly(file', record, promised) /\ file'.exists /\ record \in read_all(file'.marks)
    BY <1>0, <2>1, MarkTypes, WrittenOrderly
  <2> QED
    BY <1>0, <2>1, <2>2, <2>3 DEF JournalInv, Typed, AtWork, Steps
<1>2. CASE WriteEnd
  <2>1. step = "end" /\ file' = Written(file, EndOfLine) /\ step' = "sync" /\ file.exists
        /\ record \in read_all(file.marks)
    BY <1>2 DEF WriteEnd, JournalInv, AtWork
  <2>2. UNCHANGED <<former, temp, record, promised>>
    BY <1>2 DEF WriteEnd
  <2>3. Orderly(file', record, promised) /\ file'.exists /\ record \in read_all(file'.marks)
    BY <1>0, <2>1, MarkTypes, WrittenOrderly
  <2> QED
    BY <1>0, <2>1, <2>2, <2>3 DEF JournalInv, Typed, AtWork, Steps
<1>3. CASE Sync
  <2>1. /\ file' = [file EXCEPT !.synced = Len(file.marks)] /\ former' = {} /\ step' = "idle"
        /\ promised' = promised \cup {record} /\ UNCHANGED <<temp, record>>
    BY <1>3 DEF Sync
  <2>2. file.exists /\ record \in read_all(file.marks) /\ file \in Files
    BY <1>0, <1>3 DEF Sync, JournalInv, AtWork, Orderly
  <2>3. /\ file' \in Files /\ file'.marks = file.marks /\ file'.synced = Len(file.marks)
        /\ file'.exists /\ Len(file.marks) \in Nat
    BY <2>1, <2>2 DEF Files
  <2>4. promised \subseteq read_all(file.marks)
    BY <1>0 DEF Orderly, Holds, read_all
  <2>5. Holds(file', promised')
    <3>1. promised' \in SUBSET read_all(file'.marks)
      BY <2>1, <2>2, <2>3, <2>4
    <3> QED
      BY <2>3, <3>1, SyncedHolds
  <2>6. Orderly(file', record', promised')
    BY <1>0, <2>1, <2>3, <2>5 DEF Orderly
  <2> QED
    BY <1>0, <2>1, <2>3, <2>6 DEF JournalInv, Typed, AtWork, Steps
<1> QED
  BY <1>1, <1>2, <1>3

\* An append that fails or is killed leaves at most a part of its text.
LEMMA StopKeeps ==
  ASSUME JournalInv, AppendError \/ Kill
  PROVE  JournalInv'
<1>0. /\ record \in Nat /\ promised \subseteq Nat /\ step \in Steps
      /\ Orderly(file, record, promised)
      /\ \A f \in former : Orderly(f, record, promised)
      /\ temp \in Files /\ temp.synced <= Len(temp.marks)
      /\ file.exists
  BY DEF JournalInv, Typed, AtWork, AppendError, Kill
<1>1. UNCHANGED <<former, temp, record, promised>> /\ step' \in {"idle", "closed"}
  BY DEF AppendError, Kill
<1>2. file' = file \/ file' = Written(file, Part(record))
  BY DEF AppendError, Kill
<1>3. Orderly(file', record, promised) /\ file'.exists
  BY <1>0, <1>2, MarkTypes, WrittenOrderly
<1> QED
  BY <1>0, <1>1, <1>3 DEF JournalInv, Typed, AtWork, Steps

\* A power loss: whichever file the path names then, it held all promises on
\* the disk.
LEMMA PowerLossKeeps ==
  ASSUME JournalInv, PowerLoss
  PROVE  JournalInv'
<1>1. PICK f \in {file} \cup former : file' \in Remains(f)
  BY DEF PowerLoss
<1>2. Orderly(f, record, promised) /\ record \in Nat
  BY <1>1 DEF JournalInv, Typed
<1>3. Orderly(file', record, promised)
  BY <1>1, <1>2, RemainsOrderly
<1>4. temp' \in Files /\ temp'.synced <= Len(temp'.marks)
  <2>1. CASE temp' = NoFile
    BY <2>1, EmptyFile, 0 \in Nat
  <2>2. CASE temp' \in Remains(temp)
    <3>1. temp \in Files /\ temp.synced <= Len(temp.marks)
      BY DEF JournalInv, Typed
    <3>2. temp' \in Files /\ temp'.synced = Len(temp'.marks)
      BY <2>2, <3>1, RemainingTexts
    <3>3. Len(temp'.marks) \in Nat
      BY <3>2 DEF Files
    <3> QED
      BY <3>2, <3>3
  <2> QED
    BY <2>1, <2>2 DEF PowerLoss
<1> QED
  BY <1>3, <1>4 DEF PowerLoss, JournalInv, Typed, AtWork, Steps

\* Rewriting: the file that takes the name of the journal is on the disk, and
\* only what it holds stays promised.
LEMMA RewriteKeeps ==
  ASSUME JournalInv, CreateTemp \/ WriteTemp \/ SyncTemp \/ Rename \/ SyncRename \/ RewriteError
  PROVE  JournalInv'
<1>0. /\ record \in Nat /\ promised \subseteq Nat /\ step \in Steps
      /\ Orderly(file, record, promised)
      /\ \A f \in former : Orderly(f, record, promised)
      /\ temp \in Files /\ temp.synced <= Len(temp.marks)
  BY DEF JournalInv, Typed
<1>1. CASE CreateTemp
  BY <1>0, <1>1, EmptyFile DEF CreateTemp, JournalInv, Typed, AtWork, Steps
<1>2. CASE WriteTemp
  <2>1. PICK kept \in SUBSET TextsAt(file.marks) : temp' = File(Lines(Keep(file.marks, kept)), 0)
    BY <1>2 DEF WriteTemp
  <2>2. file.marks \in Seq(Marks) /\ InOrder(file.marks) /\ UpTo(file.marks, record)
    BY <1>0 DEF Orderly, Files
  <2>3. PICK lines \in Seq(Marks) :
          lines = Lines(Keep(file.marks, kept)) /\ InOrder(lines) /\ UpTo(lines, record)
    BY <1>0, <2>2, RewrittenTexts
  <2>4. temp' \in Files /\ temp'.marks = lines /\ temp'.synced = 0 /\ temp'.exists /\ Len(lines) \in Nat
    BY <2>1, <2>3 DEF File, Files
  <2>5. step = "write" /\ step' = "sync_temp" /\ UNCHANGED <<file, former, record, promised>>
    BY <1>2 DEF WriteTemp
  <2> QED
    BY <1>0, <2>3, <2>4, <2>5 DEF JournalInv, Typed, AtWork, Steps
<1>3. CASE SyncTemp
  <2>1. /\ temp' \in Files /\ temp'.marks = temp.marks /\ temp'.synced = Len(temp.marks)
        /\ temp'.exists = temp.exists /\ Len(temp.marks) \in Nat
    BY <1>0, <1>3 DEF SyncTemp, Files
  <2>2. step = "sync_temp" /\ step' = "rename" /\ UNCHANGED <<file, former, record, promised>>
    BY <1>3 DEF SyncTemp
  <2> QED
    BY <1>0, <2>1, <2>2 DEF JournalInv, Typed, AtWork, Steps
<1>4. CASE Rename
  <2>1. /\ file' = temp /\ temp' = NoFile /\ former' = former \cup {file} /\ record' = record
        /\ promised' = promised \cap read_all(temp.marks) /\ step' = "sync_rename"
    BY <1>4 DEF Rename
  <2>2. temp.exists /\ InOrder(temp.marks) /\ UpTo(temp.marks, record) /\ temp.synced = Len(temp.marks)
    BY <1>4 DEF Rename, JournalInv, AtWork
  <2>3. Holds(temp, promised')
    BY <1>0, <2>1, <2>2, SyncedHolds
  <2>4. Orderly(file', record', promised')
    BY <1>0, <2>1, <2>2, <2>3 DEF Orderly
  <2>5. \A f \in former' : Orderly(f, record', promised')
    <3>1. record <= record /\ promised' \in SUBSET promised
      BY <1>0, <2>1
    <3> QED
      BY <1>0, <2>1, <3>1, StaysOrderly
  <2> QED
    BY <1>0, <2>1, <2>2, <2>4, <2>5, EmptyFile DEF JournalInv, Typed, AtWork, Steps
<1>5. CASE SyncRename
  BY <1>5 DEF SyncRename, JournalInv, Typed, AtWork, Steps
<1>6. CASE RewriteError
  BY <1>0, <1>6, EmptyFile DEF RewriteError, JournalInv, Typed, AtWork, Steps
<1> QED
  BY <1>1, <1>2, <1>3, <1>4, <1>5, <1>6

-----------------------------------------------------------------------------
(* The theorem.                                                             *)

LEMMA JournalStep ==
  ASSUME EntryDurable, JournalInv, [Next]_vars
  PROVE  JournalInv'
<1>1. CASE UNCHANGED vars
  BY <1>1 DEF vars, JournalInv, Typed, AtWork
<1> QED
  BY <1>1, OpenKeeps, AppendKeeps, StopKeeps, RewriteKeeps, PowerLossKeeps DEF Next

\* On a file system that makes the entry of a file durable when the file is
\* synced, every append of wal.rs and failed.rs that returned Ok is in the file,
\* once and in order, after any number of kills, write errors, power losses and
\* compactions.
THEOREM KeepsPromises ==
  ASSUME EntryDurable
  PROVE  Spec => []NoSilentLoss
<1>1. JournalInv => NoSilentLoss
  BY DEF JournalInv, NoSilentLoss, Orderly, Holds, InOrder, read_all
<1> QED
  BY <1>1, JournalInit, JournalStep, PTL DEF Spec

=============================================================================
