------------------------------ MODULE Chunker -------------------------------
(***************************************************************************)
(* transform/chunker: how a text becomes chunks.  A text is its sequence   *)
(* of UTF-8 bytes; an offset is a number of bytes from its start, so the   *)
(* byte at offset i is text[i + 1].  Bytes are told apart as far as the    *)
(* splitter does: "dot" ends a sentence when "sp" or "nl" follows (and is  *)
(* a letter otherwise), "cr" is a carriage return, and a wide character is *)
(* "lead" followed by "cont" bytes.  Sizes count characters (CharCounter); *)
(* a configuration is a record of max_size, min_size and overlap.          *)
(***************************************************************************)
EXTENDS Integers, SequencesExt

Byte(text, i)             == text[i + 1]
Slice(text, from, to)     == SubSeq(text, from + 1, to)
is_char_boundary(text, i) == i = Len(text) \/ Byte(text, i) # "cont"
White                     == {"sp", "nl", "cr"}
Blank(text)               == ToSet(text) \subseteq White

count(text, from, to) == Cardinality({i \in from..(to - 1) : Byte(text, i) # "cont"})

validate(cfg) ==
  cfg.min_size <= cfg.max_size /\ (cfg.max_size > 0 => cfg.overlap < cfg.max_size)

\* "\r\n" and a lone "\r" become "\n".
normalize_newlines(text) ==
  FoldLeft(LAMBDA out, i :
             IF text[i] = "nl" /\ i > 1 /\ text[i - 1] = "cr" THEN out
             ELSE Append(out, IF text[i] = "cr" THEN "nl" ELSE text[i]),
           <<>>, [i \in 1..Len(text) |-> i])

\* The loops that walk down, not below lo, and up, not beyond hi, to the
\* nearest character boundary.
BoundaryBelow(text, lo, i) == Max({lo} \cup {b \in lo..i : is_char_boundary(text, b)})
BoundaryAbove(text, i, hi) == Min({hi} \cup {b \in i..hi : is_char_boundary(text, b)})

-----------------------------------------------------------------------------
(* The two binary searches.  They probe the middle, moved down to a        *)
(* boundary, or the first boundary above lo when there is none below; and  *)
(* end when no boundary lies strictly between lo and hi.  Those in lows    *)
(* become the new lo, others the new hi.                                   *)

Probe(text, lo, hi) ==
  LET mid == BoundaryBelow(text, lo, lo + (hi - lo) \div 2)
  IN  IF mid = lo THEN BoundaryAbove(text, lo + 1, hi) ELSE mid

BinarySearch(text, from, to, lows) ==
  LET search[lo \in from..to, hi \in from..to] ==
        LET Half(p) == IF p \in lows THEN <<p, hi>> ELSE <<lo, p>>
            At(p) == IF lo + 1 >= hi \/ p >= hi THEN [lo |-> lo, hi |-> hi] ELSE search[Half(p)]
        IN  At(Probe(text, lo, hi))
  IN  search[from, to]

\* Mutant: the window is max_size bytes, not max_size characters of up to
\* four bytes.
AdvanceByBytes(text, start, max_size) ==
  BoundaryBelow(text, start, Min({start + max_size, Len(text)}))

advance_to_budget(text, start, max_size) ==
  LET probe == BoundaryBelow(text, start, Min({start + 4 * max_size, Len(text)}))
  IN  IF count(text, start, probe) <= max_size THEN probe
      ELSE BinarySearch(text, start, probe, {p \in start..probe : count(text, start, p) <= max_size}).lo

retreat_for_overlap(text, end, overlap) ==
  BinarySearch(text, 0, end, {p \in 0..end : count(text, p, end) > overlap}).hi

-----------------------------------------------------------------------------
(* The boundaries in the window from..to, strongest kind first. *)

Kinds == <<"Paragraph", "Line", "Sentence", "Whitespace">>

scan_boundaries(text, from, to, kind) ==
  LET At(i, bytes) == i < to /\ Byte(text, i) \in bytes
      Found ==
        [Paragraph  |-> {i \in from..to : At(i, {"nl"}) /\ At(i + 1, {"nl"})},
         Line       |-> {i + 1 : i \in {j \in from..to : At(j, {"nl"})}},
         Sentence   |-> {i + 1 : i \in {j \in from..to : At(j, {"dot"}) /\ At(j + 1, {"sp", "nl"})}},
         Whitespace |-> {i + 1 : i \in {j \in from..to : At(j, {"sp"})}}]
  IN  Found[kind]

\* Mutant: a boundary is taken however small the piece before it.
ChooseAnySize(text, from, to, min_size) ==
  LET ends == [k \in DOMAIN Kinds |->
                 {end \in scan_boundaries(text, from, to, Kinds[k]) : end > from}]
      some == {k \in DOMAIN Kinds : ends[k] # {}}
  IN  IF some = {} THEN BoundaryBelow(text, from, to) ELSE Max(ends[Min(some)])

\* choose_boundary, and forced_boundary when it finds none.
choose_boundary(text, from, to, min_size) ==
  LET ends == [k \in DOMAIN Kinds |->
                 {end \in scan_boundaries(text, from, to, Kinds[k]) :
                    end > from /\ count(text, from, end) >= min_size}]
      some == {k \in DOMAIN Kinds : ends[k] # {}}
  IN  IF some = {} THEN BoundaryBelow(text, from, to) ELSE Max(ends[Min(some)])

-----------------------------------------------------------------------------
(* The loop of chunk_impl. *)

ChunkEnd(text, cfg, cursor) ==
  LET window == advance_to_budget(text, cursor, cfg.max_size)
      chosen == choose_boundary(text, cursor, window, cfg.min_size)
  IN  BoundaryAbove(text, Max({chosen, cursor + 1}), Len(text))

\* The cursor goes at least one character on.
Forward(text, cursor, next) ==
  IF next <= cursor THEN BoundaryAbove(text, cursor + 1, Len(text)) ELSE next

\* Mutant: one character more is skipped, as if every end were before its
\* delimiter like that of a paragraph.
NextCursorPastDelimiter(text, cfg, cursor, end) ==
  Forward(text, cursor, IF cfg.overlap > 0 THEN retreat_for_overlap(text, end, cfg.overlap)
                        ELSE BoundaryAbove(text, end + 1, Len(text)))

\* Without an overlap the white space after the end belongs to no chunk; with
\* one the cursor goes back.
NextCursor(text, cfg, cursor, end) ==
  LET skipped == Min({Len(text)} \cup {i \in end..(Len(text) - 1) : Byte(text, i) \notin White})
  IN  Forward(text, cursor, IF cfg.overlap > 0 THEN retreat_for_overlap(text, end, cfg.overlap)
                            ELSE skipped)

ChunksOf(text, cfg) ==
  LET Chunk(start, end) == [start |-> start, end |-> end, text |-> Slice(text, start, end)]
      from[cursor \in 0..Len(text)] ==
        LET Until(end) ==
              <<Chunk(cursor, end)>>
              \o IF end >= Len(text) THEN <<>> ELSE from[NextCursor(text, cfg, cursor, end)]
        IN  IF cursor >= Len(text) THEN <<>> ELSE Until(ChunkEnd(text, cfg, cursor))
  IN  from[0]

chunk_impl(raw, cfg) == IF cfg.max_size = 0 THEN <<>> ELSE ChunksOf(normalize_newlines(raw), cfg)

-----------------------------------------------------------------------------
(* The other chunkers cut the text into pieces first.  Where a parser (or  *)
(* the sentence segmentation) cuts is not modelled: any set of character   *)
(* boundaries may be its cuts.  Blank pieces are dropped.                  *)

Pieces(text, cuts) ==
  LET bounds == SetToSortSeq({0, Len(text)} \cup cuts, <)
      All    == [k \in 1..(Len(bounds) - 1) |-> [start |-> bounds[k], end |-> bounds[k + 1]]]
  IN  SelectSeq(All, LAMBDA p : ~ Blank(Slice(text, p.start, p.end)))

PieceTexts(text, pieces) == [k \in DOMAIN pieces |-> Slice(text, pieces[k].start, pieces[k].end)]

\* The chunks of each piece, at their offsets in the whole text.
ChunkPieces(pieces, split) ==
  LET Moved(chunks, n) ==
        [k \in DOMAIN chunks |-> [chunks[k] EXCEPT !.start = @ + n, !.end = @ + n]]
  IN  FlattenSeq([k \in DOMAIN pieces |-> Moved(split[k], pieces[k].start)])

\* The Markdown chunker, and the code chunker when the text has declarations;
\* a code text without any goes to chunk_impl as it is.
CutChunk(text, cuts, cfg) ==
  LET pieces == Pieces(text, cuts)
      texts  == PieceTexts(text, pieces)
  IN  ChunkPieces(pieces, [k \in DOMAIN pieces |-> chunk_impl(texts[k], cfg)])

-----------------------------------------------------------------------------
(* The semantic chunker groups adjacent sentences; which of them start a   *)
(* group depends on their embeddings: any set of them may (splits counts   *)
(* the sentences before each start).                                       *)

build_groups(sentences, splits) ==
  LET bounds == SetToSortSeq({0, Len(sentences)} \cup splits, <)
  IN  [k \in 1..(Len(bounds) - 1) |->
         [start |-> sentences[bounds[k] + 1].start, end |-> sentences[bounds[k + 1]].end]]

merge_for_min_size(text, groups, min_size) ==
  FoldLeft(LAMBDA merged, g :
             IF merged # <<>> /\ count(text, g.start, g.end) < min_size
             THEN [merged EXCEPT ![Len(merged)].end = g.end]
             ELSE Append(merged, g),
           <<>>, groups)

\* What fits the budget stays in one chunk, white space and all.
WholeOrSplit(text, cfg) ==
  IF count(text, 0, Len(text)) <= cfg.max_size
  THEN <<[start |-> 0, end |-> Len(text), text |-> text]>>
  ELSE chunk_impl(text, cfg)

semantic_chunk(text, cuts, splits, cfg) ==
  LET sentences == Pieces(text, cuts)
      groups    == merge_for_min_size(text, build_groups(sentences, splits), cfg.min_size)
      texts     == PieceTexts(text, groups)
  IN  IF text = <<>> THEN <<>>
      ELSE IF Len(sentences) < 2 THEN WholeOrSplit(text, cfg)
      ELSE ChunkPieces(groups, [k \in DOMAIN groups |-> WholeOrSplit(texts[k], cfg)])

-----------------------------------------------------------------------------
(* The fingerprint of a strategy, which is part of the id of a point.  What *)
(* else it holds (the metric, the tokenizer, the language, the provider of *)
(* the embeddings and the percentile) is the same throughout here.         *)

\* Mutant: the smallest size is left out.
UnnamedMinimum(cfg) == <<"recursive:v1", cfg.max_size, cfg.overlap>>

RecursiveFingerprint(cfg) == <<"recursive:v1", cfg.max_size, cfg.min_size, cfg.overlap>>

MarkdownFingerprint(cfg) == <<"markdown:v1", cfg.max_size, cfg.min_size, cfg.overlap>>
CodeFingerprint(cfg) == <<"code:v1", cfg.max_size, cfg.min_size, cfg.overlap>>
SemanticFingerprint(cfg) == <<"semantic:v1", cfg.max_size, cfg.min_size>>
=============================================================================
