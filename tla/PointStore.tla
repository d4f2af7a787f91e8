----------------------------- MODULE PointStore -----------------------------
(***************************************************************************)
(* The points of the vector database, and how PipelineExecutor builds,     *)
(* upserts and deletes them one record at a time.                          *)
(*                                                                         *)
(* A text is a stamp and a length; a chunking strategy is the number of    *)
(* units a chunk holds, so that a text of length n has n \div s chunks,    *)
(* rounded up.  The hashes of the point id and the doc_id are injective    *)
(* here; an Option is a set of at most one element.  Requests of the       *)
(* worker run one after the other, and a restart may come between any two  *)
(* steps and bring another strategy.                                       *)
(***************************************************************************)
EXTENDS Naturals, FiniteSets

CONSTANTS
  Paths, Uris,
  Uri,              \* canonical_path_to_file_uri
  Strategies,       \* chunking strategies the operator may configure
  MaxLength,        \* bound: length of a text
  MaxChanges,       \* bound: writes of files
  MaxFaults         \* bound: failed requests and restarts

ASSUME StoreAssumption ==
  /\ Uri \in [Paths -> Uris]
  /\ Strategies \subseteq Nat \ {0}
  /\ {MaxLength, MaxChanges, MaxFaults} \subseteq Nat

VARIABLES
  files,            \* the text of each file
  changes,
  points,           \* the collection
  strategy,         \* of the running process
  step,             \* where the executor stands
  path, stamp,      \* the record: its path, and the version it was planned for
  text,             \* the text it has loaded
  shown,            \* history: what each document was last made to be, by strategy
  faults

vars == <<files, changes, points, strategy, step, path, stamp, text, shown, faults>>

Text(s, n)  == [stamp |-> s, length |-> n]
NoText      == Text(0, 0)
Texts       == [stamp : 0..MaxChanges, length : 0..MaxLength]
Absent      == [state |-> "absent"]
Unknown     == [state |-> "unknown"]

-----------------------------------------------------------------------------
(* build_points_from_text                                                   *)

\* An empty document still gets one chunk.
ChunkCount(t, s) == IF t.length = 0 THEN 1 ELSE (t.length + s - 1) \div s

\* Mutant: the strategy is not part of the id.
PointIdOfPath(p, i, s) == <<p, i>>

PointId(p, i, s) == <<p, i, s>>

PointOf(p, v, t, s, i) ==
  [id       |-> PointId(p, i, s),
   doc_id   |-> Uri[p],
   version  |-> v,                       \* size_bytes and mtime_unix_secs
   index    |-> i,
   total    |-> ChunkCount(t, s),
   previous |-> IF i > 0 THEN {PointId(p, i - 1, s)} ELSE {},
   next     |-> IF i + 1 < ChunkCount(t, s) THEN {PointId(p, i + 1, s)} ELSE {},
   strategy |-> s,
   text     |-> t]

PointsOf(p, v, t, s) == {PointOf(p, v, t, s, i) : i \in 0..(ChunkCount(t, s) - 1)}

-----------------------------------------------------------------------------
(* The files.                                                               *)

WriteFile(p) ==
  /\ changes < MaxChanges /\ changes' = changes + 1
  /\ \E n \in 0..MaxLength : files' = [files EXCEPT ![p] = Text(changes', n)]
  /\ UNCHANGED <<points, strategy, step, path, stamp, text, shown, faults>>

-----------------------------------------------------------------------------
(* execute of a WorkItemV2: load, chunk and embed, upsert.                  *)

Executor == <<step, path, stamp, text>>
Idle     == step' = "idle" /\ UNCHANGED <<path, stamp, text>>
Fault    == faults < MaxFaults /\ faults' = faults + 1

\* The record was planned for some version of the file; what is loaded is the
\* file as it is now.
Load(p) ==
  /\ step = "idle" /\ files[p] # NoText
  /\ step' = "embed" /\ path' = p /\ text' = files[p]
  /\ stamp' \in 1..files[p].stamp
  /\ UNCHANGED <<files, changes, points, strategy, shown, faults>>

\* A request to the embedding service fails or returns a wrong count; or not.
Embed ==
  /\ step = "embed"
  /\ \/ step' = "upsert" /\ UNCHANGED <<path, stamp, text, faults>>
     \/ Idle /\ Fault
  /\ UNCHANGED <<files, changes, points, strategy, shown>>

Batch == PointsOf(path, stamp, text, strategy)

\* What points become once the batch's points in some have been upserted.
Upserted(some) == {q \in points : \A r \in some : r.id # q.id} \cup some

\* The request succeeds, or fails after some of its points were written.
Upsert ==
  /\ step = "upsert" /\ Idle
  /\ \/ /\ points' = Upserted(Batch)
        /\ shown' = [shown EXCEPT ![<<path, strategy>>] = [state |-> "shown", version |-> stamp, text |-> text]]
        /\ UNCHANGED faults
     \/ /\ Fault
        /\ \E some \in SUBSET Batch : points' = Upserted(some)
        /\ shown' = [shown EXCEPT ![<<path, strategy>>] = Unknown]
  /\ UNCHANGED <<files, changes, strategy>>

-----------------------------------------------------------------------------
(* execute of a DeleteDocument: one request, by doc_id.                     *)

\* Mutants: the filter also names the strategy in use, or names nothing.
MatchingStrategy(p) == {q \in points : q.doc_id = Uri[p] /\ q.strategy = strategy}
MatchingAll(p) == points

Matching(p) == {q \in points : q.doc_id = Uri[p]}

Delete(p) ==
  /\ step = "idle"
  /\ \/ /\ points' = points \ Matching(p)
        /\ shown' = [x \in Paths \X Strategies |-> IF Uri[x[1]] = Uri[p] THEN Absent ELSE shown[x]]
        /\ UNCHANGED faults
     \/ /\ Fault
        /\ \E some \in SUBSET Matching(p) : points' = points \ some
        /\ shown' = [x \in Paths \X Strategies |-> IF Uri[x[1]] = Uri[p] /\ shown[x] # Absent THEN Unknown ELSE shown[x]]
  /\ UNCHANGED <<files, changes, strategy, Executor>>

\* The process ends at any step, with its record unfinished; the next one may
\* be configured otherwise.
Restart ==
  /\ Fault
  /\ strategy' \in Strategies
  /\ Idle
  /\ UNCHANGED <<files, changes, points, shown>>

-----------------------------------------------------------------------------
Init ==
  /\ files = [p \in Paths |-> NoText] /\ changes = 0
  /\ points = {} /\ strategy \in Strategies
  /\ step = "idle" /\ path \in Paths /\ stamp = 0 /\ text = NoText
  /\ shown = [x \in Paths \X Strategies |-> Absent]
  /\ faults = 0

Next == \/ \E p \in Paths : WriteFile(p) \/ Load(p) \/ Delete(p)
        \/ Embed \/ Upsert \/ Restart

Spec == Init /\ [][Next]_vars

-----------------------------------------------------------------------------
First(p, s)       == {q \in points : q.doc_id = Uri[p] /\ q.strategy = s /\ q.index = 0}
Followers(before) == {q \in points : \E r \in before : r.next = {q.id}}

\* The points a reader finds who starts at the first chunk of p under s and
\* goes on to next_chunk_id, at most n times.
Chain(p, s) ==
  LET from[n \in 0..(MaxLength + 1)] ==
        IF n = 0 THEN First(p, s)
        ELSE LET before == from[n - 1] IN before \cup Followers(before)
  IN  from[MaxLength + 1]

\* After a document has been ingested, and whatever happens to other documents,
\* to the same document under other strategies, or was there before: the chain
\* of chunks from the first one is the text ingested last, complete, of one
\* version and nothing else.
ChainIsDocument ==
  \A p \in Paths, s \in Strategies :
    shown[<<p, s>>].state = "shown" =>
      Chain(p, s) = PointsOf(p, shown[<<p, s>>].version, shown[<<p, s>>].text, s)

\* After a document was deleted no point of it is left, under any strategy,
\* until it is ingested again.
DeletedLeavesNothing ==
  \A p \in Paths :
    (\A s \in Strategies : shown[<<p, s>>] = Absent) => \A q \in points : q.doc_id # Uri[p]

\* Doing a finished record again changes nothing, as at-least-once execution
\* needs it.
AgainChangesNothing ==
  [][\A p \in Paths :
       step = "upsert" /\ step' = "idle" /\ path = p
       /\ shown[<<p, strategy>>] = [state |-> "shown", version |-> stamp, text |-> text]
       => points' = points]_points
=============================================================================
