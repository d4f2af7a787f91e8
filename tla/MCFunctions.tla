----------------------------- MODULE MCFunctions ----------------------------
(***************************************************************************)
(* The pure functions on every small input, grown one element at a time:   *)
(* the logs and journals of Logs; every text of at most MaxText            *)
(* characters; and the inputs of MCConfig and MCWork.  Only one of the     *)
(* four is grown: they are checked apart.                                  *)
(***************************************************************************)
EXTENDS Logs, WalScan, Chunker, MCWork

CONSTANTS MaxText, MaxSize

VARIABLE text

Characters == {<<"dot">>, <<"sp">>, <<"nl">>, <<"cr">>, <<"lead", "cont", "cont", "cont">>}

GrowText ==
  /\ log = <<>> /\ journal = <<>> /\ input = NoInput /\ count(text, 0, Len(text)) < MaxText
  /\ \E c \in Characters : text' = text \o c
  /\ UNCHANGED <<log, journal, input>>
GrowInput ==
  /\ log = <<>> /\ journal = <<>> /\ text = <<>>
  /\ PickInput \/ PickMore
  /\ UNCHANGED <<log, journal, text>>

GrowLogs == LogsNext /\ text = <<>> /\ input = NoInput /\ UNCHANGED <<text, input>>

Init == LogsInit /\ text = <<>> /\ input = NoInput
Next == GrowLogs \/ GrowText \/ GrowInput
Spec == Init /\ [][Next]_<<log, journal, text, input>>

-----------------------------------------------------------------------------
(* The failed-work journal. *)

\* The BTreeMap of pending_failed_work: insert replaces the entry of an id, a
\* mark removes it.
scan_pending_failed_work(records) ==
  FoldLeft(LAMBDA pending, r :
             {q \in pending : q.id # r.id} \cup IF r.type = "exhausted" THEN {r} ELSE {},
           {}, records)

-----------------------------------------------------------------------------
(* Passes and their meaning. *)

Offsets == {b \in 0..Len(text) : is_char_boundary(text, b)}

\* Each pass over a file yields what its definition says: unacked_work_items
\* the work no acknowledgement of the same version settles anywhere in the log,
\* in append order, with one pending delete per path; known_live_document_paths
\* the paths whose last word is a file version; compact_wal_records the records
\* CompactedAt names, each once and in append order; pending_failed_work the
\* last exhausted record of each id, if no mark has followed it.  And the binary
\* searches of the splitter find what they are for, though they walk over bytes
\* and may only stop between characters: the last boundary within the size
\* budget, and the first one (not the start of the text) with no more than the
\* overlap behind it.
ScansAreExact ==
  /\ scan_unacked_work_items(log) = unacked_work_items(log)
  /\ scan_known_live_document_paths(log) = known_live_document_paths(log)
  /\ scan_compact_wal_records(log) = compact_wal_records(log)
  /\ scan_pending_failed_work(journal) = pending_failed_work(journal)
  /\ \A b \in Offsets, size \in 1..MaxSize :
       /\ b < Len(text) =>
            advance_to_budget(text, b, size) = Max({e \in Offsets : e >= b /\ count(text, b, e) <= size})
       /\ b > 0 =>
            retreat_for_overlap(text, b, size) = Min({s \in Offsets : 0 < s /\ s <= b /\ count(text, s, b) <= size})

-----------------------------------------------------------------------------
(* The text. *)

\* A minimum of 0 is one of 1, as no piece is empty; it is tried with one size.
Configs ==
  {cfg \in [max_size : 1..MaxSize, min_size : 0..MaxSize, overlap : 0..MaxSize] :
     validate(cfg) /\ (cfg.min_size = 0 => cfg.max_size = 2)}
CutSets == {{i, j} : i, j \in Offsets \ {0, Len(text)}} \cup {{}}
Ink(t)  == SelectSeq(t, LAMBDA byte : byte \notin White)
Size(t) == count(t, 0, Len(t))

\* What the chunkers may return under a configuration, for all that parsers
\* and embeddings may say.
Results(cfg) ==
  {chunk_impl(text, cfg)} \cup {CutChunk(text, cuts, cfg) : cuts \in CutSets}
  \cup UNION {{semantic_chunk(text, cuts, splits, cfg) :
                  splits \in SUBSET (1..(Len(Pieces(text, cuts)) - 1))} : cuts \in CutSets}

\* Whatever a parser or the embeddings cut a text into, and whatever the
\* configuration, no character but white space is lost, and none is in two
\* chunks unless an overlap is configured.  Then each chunk starts after the
\* one before it and shares at most that many characters with it.  (Offsets
\* are those after normalisation of the line ends, so they are compared for
\* texts without "\r".)
NothingLost ==
  text # <<>> => \A cfg \in Configs : \A chunks \in Results(cfg) :
    IF cfg.overlap = 0
    THEN Ink(FlattenSeq([k \in DOMAIN chunks |-> chunks[k].text])) = Ink(text)
    ELSE "cr" \notin ToSet(text) =>
           /\ \A i \in 0..(Len(text) - 1) :
                \/ Byte(text, i) \in White
                \/ \E c \in ToSet(chunks) : c.start <= i /\ i < c.end
           /\ \A k \in 1..(Len(chunks) - 1) :
                /\ chunks[k].start < chunks[k + 1].start
                /\ count(text, chunks[k + 1].start, chunks[k].end) <= cfg.overlap

\* No chunk is larger than max_size, and only the last one of a text may be
\* smaller than min_size: a boundary too near the start is never taken, and a
\* forced end uses the whole budget.  (The pieces and groups the other chunkers
\* hand to chunk_impl are themselves texts, of at most this length.)
WithinBudget ==
  text # <<>> => \A cfg \in Configs :
    LET chunks == chunk_impl(text, cfg)
    IN  /\ \A k \in DOMAIN chunks : Size(chunks[k].text) <= cfg.max_size
        /\ \A k \in 1..(Len(chunks) - 1) : Size(chunks[k].text) >= cfg.min_size

\* What the semantic chunker returns for each division of the text, and whether
\* every group of its sentences fits the budget.
Divisions(cfg) ==
  UNION {LET sentences == Pieces(text, cuts)
         IN  {LET groups == merge_for_min_size(text, build_groups(sentences, splits), cfg.min_size)
              IN  [cuts |-> cuts, splits |-> splits, chunks |-> semantic_chunk(text, cuts, splits, cfg),
                   fits |-> \A g \in ToSet(groups) : count(text, g.start, g.end) <= cfg.max_size] :
                splits \in SUBSET (1..(Len(sentences) - 1))} :
           cuts \in {c \in CutSets : Len(Pieces(text, c)) > 1}}

\* A point's id names the strategy that made its chunk, so that chunks of two
\* strategies never take each other's place: under configurations of the same
\* fingerprint a chunker cuts a text alike.  The overlap of the semantic chunker
\* is not in its fingerprint, and there this holds as long as every group of
\* sentences fits the budget.
FingerprintNamesCuts ==
  text # <<>> =>
  LET semantic == {[cfg |-> cfg, results |-> Divisions(cfg)] : cfg \in Configs}
  IN  /\ \A a, b \in semantic :
           SemanticFingerprint(a.cfg) = SemanticFingerprint(b.cfg) =>
             \A r \in a.results : r.fits => r \in b.results
      /\ \A cfg, other \in Configs : cfg # other =>
           /\ RecursiveFingerprint(cfg) = RecursiveFingerprint(other) =>
                chunk_impl(text, cfg) = chunk_impl(text, other)
           /\ (\/ MarkdownFingerprint(cfg) = MarkdownFingerprint(other)
               \/ CodeFingerprint(cfg) = CodeFingerprint(other)) =>
                \A cuts \in CutSets : CutChunk(text, cuts, cfg) = CutChunk(text, cuts, other)
=============================================================================
