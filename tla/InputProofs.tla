----------------------------- MODULE InputProofs -----------------------------
(***************************************************************************)
(* What MCFunctions checks for its inputs holds for all of their kind:     *)
(* every configuration in every world, every document and every path.      *)
(***************************************************************************)
EXTENDS MCWork, FiniteSetTheorems, NaturalsInduction, WellFoundedInduction, TLAPS

-----------------------------------------------------------------------------
(* Starts.                                                                  *)

Journals == {"missing", "file", "shut file", "broken file", "directory"}
AllWorlds ==
  {w \in [above : {"open", "closed", "file"}, wal : Journals, failed : Journals,
          region : BOOLEAN, credentials : BOOLEAN, health : STRING,
          qdrant : [request : [1..3 -> Answers], rival : 1..4]] :
     w.above = "file" => w.wal = "missing" /\ w.failed = "missing"}

\* A journal that can be opened was valid, and one that was valid can be opened.
LEMMA JournalsAgree ==
  ASSUME NEW w \in AllWorlds, NEW j \in {w.wal, w.failed}
  PROVE  /\ OpenJournal(j, w.above) <=> validate_state_journal(j, w.above)
         /\ validate_state_journal("file", w.above)
<1>1. j \in Journals /\ (w.above = "file" => j = "missing") /\ w.above \in {"open", "closed", "file"}
  BY DEF AllWorlds
<1> QED
  BY <1>1 DEF OpenJournal, validate_state_journal, Journals

\* check and start agree on every configuration, whatever becomes of the
\* requests and whoever else creates the collection.
THEOREM StartIsForeseen ==
  ASSUME input.kind = "start" =>
           input.world \in AllWorlds /\ input.cfg.create_collection_if_missing \in BOOLEAN
  PROVE  PreflightIsExact
<1> SUFFICES ASSUME NEW cfg, NEW world \in AllWorlds, cfg.create_collection_if_missing \in BOOLEAN
             PROVE  LET start == start_running_system(cfg, world)
                        answers == \A i \in 1..3 : world.qdrant.request[i] = "answered"
                    IN  /\ start.started => validate_startup(cfg, world)
                        /\ HealthServerBinds(cfg, world) /\ answers /\ validate_startup(cfg, world) => start.started
                        /\ start.started /\ cfg.create_collection_if_missing => start.world.qdrant.rival = 1
                        /\ validate_startup(cfg, start.world) <=> validate_startup(cfg, world)
  BY DEF PreflightIsExact
<1> DEFINE start == start_running_system(cfg, world)
           wal    == HealthServerBinds(cfg, world) /\ OpenJournal(world.wal, world.above)
           failed == wal /\ OpenJournal(world.failed, world.above)
<1>1. /\ start.started = (failed /\ prepare_startup(cfg, world, TRUE) /\ prepare_source_runtime(cfg.source, world))
      /\ start.world.above = world.above
      /\ start.world.wal = IF wal THEN "file" ELSE world.wal
      /\ start.world.failed = IF failed THEN "file" ELSE world.failed
      /\ start.world.region = world.region /\ start.world.credentials = world.credentials
  BY DEF start_running_system, AllWorlds
<1>2. start.started /\ cfg.create_collection_if_missing => start.world.qdrant.rival = 1
  <2> SUFFICES ASSUME start.started, cfg.create_collection_if_missing PROVE start.world.qdrant.rival = 1
    OBVIOUS
  <2>1. /\ failed /\ ClientBuilds(cfg.embed_backend) /\ ChunkerBuilds(cfg.chunking)
        /\ resolve_collection_vector_size(cfg) # {} /\ ensure_collection_exists(world.qdrant)
    BY <1>1 DEF prepare_startup
  <2>2. CollectionExists(world.qdrant)
    BY <2>1 DEF ensure_collection_exists, CollectionExists, AllWorlds, Answers
  <2> QED
    BY <2>1, <2>2 DEF start_running_system, AllWorlds
<1>3. /\ OpenJournal(world.wal, world.above) <=> validate_state_journal(world.wal, world.above)
      /\ OpenJournal(world.failed, world.above) <=> validate_state_journal(world.failed, world.above)
      /\ validate_state_journal("file", world.above)
  BY JournalsAgree
<1> HIDE DEF start
<1>4. /\ prepare_startup(cfg, start.world, FALSE) <=> prepare_startup(cfg, world, FALSE)
      /\ prepare_startup(cfg, world, TRUE) => prepare_startup(cfg, world, FALSE)
      /\ prepare_source_runtime(cfg.source, start.world) <=> prepare_source_runtime(cfg.source, world)
  BY <1>1 DEF prepare_startup, prepare_source_runtime
<1>5. start.started => validate_startup(cfg, world)
  BY <1>1, <1>3, <1>4 DEF validate_startup
<1>6. validate_startup(cfg, start.world) <=> validate_startup(cfg, world)
  BY <1>1, <1>3, <1>4 DEF validate_startup
<1>7. ASSUME HealthServerBinds(cfg, world), \A i \in 1..3 : world.qdrant.request[i] = "answered",
             validate_startup(cfg, world)
      PROVE  start.started
  <2>1. ensure_collection_exists(world.qdrant)
    BY <1>7 DEF ensure_collection_exists, AllWorlds
  <2> QED
    BY <1>1, <1>3, <1>7, <2>1 DEF validate_startup, prepare_startup
<1> QED
  BY <1>2, <1>5, <1>6, <1>7 DEF start

-----------------------------------------------------------------------------
(* Attempts.                                                                *)

LEMMA FirstErrorIs ==
  ASSUME NEW a, NEW b, NEW c
  PROVE  FirstError(<<a, b, c>>) = IF a # "ok" THEN a ELSE IF b # "ok" THEN b ELSE c
<1> DEFINE bad == {i \in 1..3 : <<a, b, c>>[i] # "ok"}
<1>1. bad = {i \in DOMAIN <<a, b, c>> : <<a, b, c>>[i] # "ok"}
  OBVIOUS
<1>2. FirstError(<<a, b, c>>) = IF bad = {} THEN "ok" ELSE <<a, b, c>>[Min(bad)]
  BY <1>1 DEF FirstError
<1>3. CASE a # "ok"
  <2>1. Min(bad) = 1
    BY <1>3 DEF Min
  <2> QED
    BY <1>2, <1>3, <2>1
<1>4. CASE a = "ok" /\ b # "ok"
  <2>1. Min(bad) = 2
    BY <1>4 DEF Min
  <2> QED
    BY <1>2, <1>4, <2>1
<1>5. CASE a = "ok" /\ b = "ok" /\ c # "ok"
  <2>1. bad = {3} /\ Min(bad) = 3
    BY <1>5 DEF Min
  <2> QED
    BY <1>2, <1>5, <2>1
<1>6. CASE a = "ok" /\ b = "ok" /\ c = "ok"
  BY <1>2, <1>6
<1> QED
  BY <1>3, <1>4, <1>5, <1>6

LEMMA ChunksCount ==
  ASSUME NEW doc, doc.sentences \in Nat
  PROVE  \E n \in Nat : Chunks(doc) = 0..n /\ Cardinality(Chunks(doc)) = n + 1
<1> DEFINE n == IF doc.sentences = 0 THEN 0 ELSE doc.sentences - 1
<1>1. n \in Nat
  OBVIOUS
<1>2. Chunks(doc) = 0..n
  <2>1. CASE doc.sentences = 0
    <3>1. Chunks(doc) = {0} /\ n = 0
      BY <2>1 DEF Chunks
    <3>2. 0..0 = {0}
      OBVIOUS
    <3> QED
      BY <3>1, <3>2
  <2>2. CASE doc.sentences # 0
    BY <2>2 DEF Chunks
  <2> QED
    BY <2>1, <2>2
<1> HIDE DEF n
<1>3. Cardinality(0..n) = n + 1
  BY <1>1, FS_Interval
<1> QED
  BY <1>1, <1>2, <1>3

\* A document has as many points as chunks.
LEMMA PointsOfChunks ==
  ASSUME NEW doc, doc.sentences \in Nat
  PROVE  Points(doc, Cardinality(Chunks(doc))) = {[chunk |-> i, vector |-> i] : i \in Chunks(doc)}
<1>1. PICK n \in Nat : Chunks(doc) = 0..n /\ Cardinality(Chunks(doc)) = n + 1
  BY ChunksCount
<1> QED
  BY <1>1 DEF Points

\* What loading may come to: an answered request never ends in an error that is
\* tried again, unless the path belongs to another source.
LEMMA LoadErrors ==
  ASSUME NEW source, source.kind \in {"filesystem", "s3"}, NEW doc, NEW answer
  PROVE  /\ load(source, doc, answer) \in {"ok", "invalid_input", "io", "internal"}
         /\ load(source, doc, answer) = "internal" => answer = "panicked"
         /\ load(source, doc, answer) = "ok" => load(source, doc, "answered") = "ok"
         /\ load(source, doc, "answered") = "ok" /\ load(source, doc, answer) # "ok" =>
              load(source, doc, answer) = "io" \/ answer = "panicked"
         /\ Native(source, doc.path) => load(source, doc, "answered") \in {"ok", "invalid_input"}
<1>1. extract_document_text(doc.path, doc.bytes) \in {"ok", "invalid_input"}
  BY DEF extract_document_text
<1> QED
  BY <1>1 DEF load, load_file, load_object, get_object, Native

\* An attempt of any document under any configuration leaves all points or
\* none, is repeated only where that may help, and is repeated where it would.
THEOREM EveryAttemptIsJudged ==
  ASSUME input.kind = "work" =>
           /\ input.doc.sentences \in Nat
           /\ input.cfg.source.kind \in {"filesystem", "s3"}
           /\ input.cfg.embed_backend.kind \in {"http", "openai"}
  PROVE  WorkIsJudged
<1> SUFFICES ASSUME input.kind = "work", NEW world \in Worlds
             PROVE  LET r    == execute(input.cfg, input.doc, world)
                        good == execute(input.cfg, input.doc, GoodAnswers).error
                        all  == {[chunk |-> i, vector |-> i] : i \in Chunks(input.doc)}
                    IN  /\ r.sent \in {{}, all}
                        /\ r.error = "ok" => r.sent = all /\ good = "ok"
                        /\ is_retryable_error_kind(r.error) /\ Native(input.cfg.source, input.doc.path) =>
                             ~is_retryable_error_kind(good)
                        /\ good = "ok" /\ r.error # "ok" =>
                             \/ is_retryable_error_kind(r.error)
                             \/ Asks(input.cfg, input.doc) /\ world.signal # "answered"
                             \/ world.embed = "short"
                             \/ world.read = "panicked"
  BY DEF WorkIsJudged
<1> DEFINE cfg == input.cfg
           doc == input.doc
           r == execute(cfg, doc, world)
           good == execute(cfg, doc, GoodAnswers)
           all == {[chunk |-> i, vector |-> i] : i \in Chunks(doc)}
           Loaded(w)   == load(cfg.source, doc, w.read)
           Chunked(w)  == chunk(cfg, doc, w.signal)
           Embedded(w) == build_points_from_text(cfg.embed_backend, w.embed)
           Before(w)   == IF Loaded(w) # "ok" THEN Loaded(w)
                          ELSE IF Chunked(w) # "ok" THEN Chunked(w) ELSE Embedded(w)
<1>1. ASSUME NEW w \in Worlds
      PROVE  execute(cfg, doc, w) = IF Before(w) # "ok" THEN [error |-> Before(w), sent |-> {}]
                                    ELSE [error |-> upsert_points(w.sink), sent |-> all]
  <2>1. FirstError(<<Loaded(w), Chunked(w), Embedded(w)>>) = Before(w)
    BY FirstErrorIs
  <2>2. Embedded(w) = "ok" => w.embed # "short"
    BY DEF build_points_from_text
  <2>3. Before(w) = "ok" => Embedded(w) = "ok"
    OBVIOUS
  <2>4. Points(doc, Cardinality(Chunks(doc))) = all
    BY PointsOfChunks
  <2>5. Cardinality(Chunks(doc)) \in Nat
    BY ChunksCount
  <2> HIDE DEF Before, Loaded, Chunked, Embedded, all
  <2>6. CASE Before(w) # "ok"
    BY <2>1, <2>6 DEF execute, Loaded, Chunked, Embedded
  <2>7. CASE Before(w) = "ok"
    <3>1. w.embed # "short" /\ Cardinality(Chunks(doc)) - 0 = Cardinality(Chunks(doc))
      BY <2>2, <2>3, <2>5, <2>7
    <3> QED
      BY <2>1, <2>4, <2>7, <3>1 DEF execute, Loaded, Chunked, Embedded
  <2> QED
    BY <2>6, <2>7
<1> HIDE DEF all
<1>2. GoodAnswers \in Worlds
  BY DEF GoodAnswers, Worlds
<1>3. /\ Chunked(GoodAnswers) = "ok" /\ Embedded(GoodAnswers) = "ok" /\ upsert_points(GoodAnswers.sink) = "ok"
      /\ Loaded(GoodAnswers) = load(cfg.source, doc, "answered")
  BY DEF GoodAnswers, chunk, build_points_from_text, embed, embed_http, embed_openai, upsert_points
<1>4. good.error = Loaded(GoodAnswers)
  <2>1. Before(GoodAnswers) = Loaded(GoodAnswers)
    BY <1>3
  <2>2. good = IF Before(GoodAnswers) # "ok" THEN [error |-> Before(GoodAnswers), sent |-> {}]
               ELSE [error |-> upsert_points(GoodAnswers.sink), sent |-> all]
    BY <1>1, <1>2
  <2> HIDE DEF good, Before, Loaded
  <2> QED
    BY <1>3, <2>1, <2>2
<1>5. /\ Chunked(world) \in {"ok", "internal"}
      /\ Chunked(world) # "ok" => Asks(cfg, doc) /\ world.signal # "answered"
      /\ Embedded(world) \in {"ok", "internal", "embed"}
      /\ Embedded(world) = "internal" => world.embed = "short"
      /\ upsert_points(world.sink) \in {"ok", "sink"}
  BY DEF Worlds, chunk, build_points_from_text, embed, embed_http, embed_openai, upsert_points
<1>6. /\ Loaded(world) \in {"ok", "invalid_input", "io", "internal"}
      /\ Loaded(world) = "internal" => world.read = "panicked"
      /\ Loaded(world) = "ok" => Loaded(GoodAnswers) = "ok"
      /\ Loaded(GoodAnswers) = "ok" /\ Loaded(world) # "ok" => Loaded(world) = "io" \/ world.read = "panicked"
      /\ Native(cfg.source, doc.path) => Loaded(GoodAnswers) \in {"ok", "invalid_input"}
  BY <1>3, LoadErrors
<1>7. r = IF Before(world) # "ok" THEN [error |-> Before(world), sent |-> {}]
          ELSE [error |-> upsert_points(world.sink), sent |-> all]
  BY <1>1
<1> HIDE DEF r, good, Loaded, Chunked, Embedded
<1>8. r.sent \in {{}, all} /\ (r.error = "ok" => r.sent = all /\ good.error = "ok")
  BY <1>4, <1>5, <1>6, <1>7
<1>9. Native(cfg.source, doc.path) => ~is_retryable_error_kind(good.error)
  BY <1>4, <1>6 DEF is_retryable_error_kind
<1>10. good.error = "ok" /\ r.error # "ok" =>
         \/ is_retryable_error_kind(r.error)
         \/ Asks(cfg, doc) /\ world.signal # "answered"
         \/ world.embed = "short" \/ world.read = "panicked"
  BY <1>4, <1>5, <1>6, <1>7 DEF is_retryable_error_kind
<1> QED
  BY <1>8, <1>9, <1>10 DEF r, good, all

-----------------------------------------------------------------------------
(* The least and the greatest number of a set, and the first place where    *)
(* something stands in a path.                                              *)

\* Min and Max of the library find what they are for.
LEMMA Least ==
  ASSUME NEW T \in SUBSET Nat, T # {}
  PROVE  Min(T) \in T /\ \A n \in T : Min(T) <= n
<1> DEFINE less == OpToRel(<, Nat)
<1>1. IsWellFoundedOn(less, Nat)
  BY NatLessThanWellFounded
<1>2. \A m, n \in Nat : <<m, n>> \in less <=> m < n
  BY DEF OpToRel
<1> HIDE DEF less
<1>3. PICK x \in T : \A y \in T : <<y, x>> \notin less
  BY <1>1, WFMin
<1>4. \A y \in T : x <= y
  <2> SUFFICES ASSUME NEW y \in T PROVE x <= y
    OBVIOUS
  <2>1. x \in Nat /\ y \in Nat /\ ~ (y < x)
    BY <1>2, <1>3
  <2> QED
    BY <2>1
<1> QED
  BY <1>4 DEF Min

LEMMA Greatest ==
  ASSUME NEW k \in Nat, NEW T \in SUBSET (0..k), T # {}
  PROVE  Max(T) \in T /\ \A n \in T : n <= Max(T)
<1> DEFINE below == {k - n : n \in T}
<1>1. below \in SUBSET Nat /\ below # {}
  <2>1. \A n \in T : n \in Nat /\ k - n \in Nat
    OBVIOUS
  <2> QED
    BY <2>1
<1>2. PICK m \in T : k - m = Min(below)
  BY <1>1, Least
<1>3. \A n \in T : k - m <= k - n
  BY <1>1, <1>2, Least
<1>4. \A n \in T : n <= m
  BY <1>2, <1>3
<1> QED
  BY <1>4 DEF Max

\* Pattern stands in the path at position k.
StandsAt(pattern, path, k) == IsPrefix(pattern, SubSeq(path, k, Len(path)))

\* FirstIndexOf is the least such place.
LEMMA FirstIndexIs ==
  ASSUME NEW path, Len(path) \in Nat, DOMAIN path = 1..Len(path), NEW pattern
  PROVE  LET places == {k \in 1..Len(path) : StandsAt(pattern, path, k)}
         IN  FirstIndexOf(pattern, path) = IF places # {} THEN Min(places) ELSE 0
<1> DEFINE tails == [i \in 1..Len(path) |-> SubSeq(path, i, Len(path))]
<1>1. Len(tails) = Len(path) /\ tails = [i \in DOMAIN path |-> SubSeq(path, i, Len(path))]
  OBVIOUS
<1>2. \A k \in 1..Len(path) : tails[k] = SubSeq(path, k, Len(path))
  OBVIOUS
<1> HIDE DEF tails
<1>3. FirstIndexOf(pattern, path) = SelectInSeq(tails, LAMBDA rest : IsPrefix(pattern, rest))
  BY <1>1 DEF FirstIndexOf
<1>4. SelectInSeq(tails, LAMBDA rest : IsPrefix(pattern, rest))
      = IF {k \in 1..Len(tails) : IsPrefix(pattern, tails[k])} # {}
        THEN Min({k \in 1..Len(tails) : IsPrefix(pattern, tails[k])}) ELSE 0
  BY DEF SelectInSeq
<1>5. {k \in 1..Len(tails) : IsPrefix(pattern, tails[k])} = {k \in 1..Len(path) : StandsAt(pattern, path, k)}
  BY <1>1, <1>2 DEF StandsAt
<1> QED
  BY <1>3, <1>4, <1>5

-----------------------------------------------------------------------------
(* URIs.                                                                    *)

\* A colon that a slash follows: what names a drive.
Colon(n, k) == k \in 1..(Len(n) - 1) /\ n[k] = ":" /\ n[k + 1] = "/"

\* What a path starts with, when it is long enough.
LEMMA FirstTwo ==
  ASSUME NEW S, NEW s \in Seq(S), Len(s) >= 2
  PROVE  SubSeq(s, 1, 2) = <<s[1], s[2]>>
<1>1. PICK c : c = SubSeq(s, 1, 2)
  OBVIOUS
<1>2. c \in Seq(S) /\ Len(c) = 2 /\ c[1] = s[1] /\ c[2] = s[2]
  BY <1>1
<1>3. c = <<c[1], c[2]>>
  BY <1>2
<1> QED
  BY <1>1, <1>2, <1>3

\* A path has a drive where there is such a colon.
LEMMA DriveIs ==
  ASSUME NEW S, NEW n \in Seq(S)
  PROVE  FirstIndexOf(<<":", "/">>, n) # 0 <=> \E k \in Nat : Colon(n, k)
<1> DEFINE mark == <<":", "/">>
           places == {k \in 1..Len(n) : StandsAt(mark, n, k)}
<1>1. ASSUME NEW k \in 1..Len(n) PROVE StandsAt(mark, n, k) <=> Colon(n, k)
  <2> DEFINE rest == SubSeq(n, k, Len(n))
  <2>1. rest \in Seq(S) /\ Len(rest) = Len(n) - k + 1 /\ rest[1] = n[k]
        /\ (k < Len(n) => rest[2] = n[k + 1])
    OBVIOUS
  <2> HIDE DEF rest
  <2>2. CASE k < Len(n)
    <3>1. IsPrefix(mark, rest) <=> SubSeq(mark, 1, 2) = SubSeq(rest, 1, 2)
      BY <2>1, <2>2 DEF IsPrefix
    <3>2. SubSeq(mark, 1, 2) = <<":", "/">>
      <4>1. mark \in Seq({":", "/"}) /\ Len(mark) = 2 /\ mark[1] = ":" /\ mark[2] = "/"
        OBVIOUS
      <4>2. mark \in Seq({":", "/"})
        BY <4>1
      <4>3. Len(mark) >= 2
        BY <4>1
      <4>4. SubSeq(mark, 1, 2) = <<mark[1], mark[2]>>
        BY ONLY <4>2, <4>3, FirstTwo
      <4> QED
        BY <4>4
    <3>3. SubSeq(rest, 1, 2) = <<rest[1], rest[2]>>
      BY <2>1, <2>2, FirstTwo
    <3> QED
      BY <2>1, <2>2, <3>1, <3>2, <3>3 DEF StandsAt, Colon, rest
  <2>3. CASE k = Len(n)
    BY <2>1, <2>3 DEF StandsAt, Colon, rest, IsPrefix
  <2> QED
    BY <2>2, <2>3
<1>2. FirstIndexOf(mark, n) = IF places # {} THEN Min(places) ELSE 0
  BY FirstIndexIs
<1>3. places # {} => Min(places) \in places
  <2>1. places \in SUBSET Nat
    OBVIOUS
  <2> QED
    BY <2>1, Least
<1>4. FirstIndexOf(mark, n) # 0 <=> places # {}
  <2>1. 0 \notin places
    OBVIOUS
  <2> HIDE DEF places, mark
  <2> QED
    BY <1>2, <1>3, <2>1
<1>5. places # {} <=> \E k \in Nat : Colon(n, k)
  BY <1>1 DEF Colon
<1> QED
  BY <1>4, <1>5

\* Normalizing turns the backslashes and nothing else.
LEMMA NormalizedIs ==
  ASSUME NEW S, NEW path \in Seq(S)
  PROVE  /\ Normalized(path) \in Seq(S \cup {"/"}) /\ Len(Normalized(path)) = Len(path)
         /\ \A i \in 1..Len(path) : Normalized(path)[i] = IF path[i] = "\\" THEN "/" ELSE path[i]
BY DEF Normalized, ReplaceAll

\* The forms a URI has.
LEMMA UriIs ==
  ASSUME NEW S, NEW path \in Seq(S), path # <<>>
  PROVE  LET n   == Normalized(path)
             uri == canonical_path_to_file_uri(path)
         IN  \/ uri = path /\ path[1] \in Letters
             \/ uri = <<"file://">> \o n /\ n[1] = "/" /\ ~ \E k \in Nat : Colon(n, k)
             \/ uri = <<"file://", "/">> \o n /\ (n[1] # "/" \/ \E k \in Nat : Colon(n, k))
<1> DEFINE n == Normalized(path)
<1>1. n \in Seq(S \cup {"/"}) /\ Len(n) = Len(path) /\ n # <<>>
  <2>1. n \in Seq(S \cup {"/"}) /\ Len(n) = Len(path)
    BY NormalizedIs
  <2>2. Len(path) # 0
    OBVIOUS
  <2> HIDE DEF n
  <2> QED
    BY <2>1, <2>2
<1>2. FirstIndexOf(<<":", "/">>, n) # 0 <=> \E k \in Nat : Colon(n, k)
  BY <1>1, DriveIs
<1>3. has_uri_scheme(path) => path[1] \in Letters
  BY DEF has_uri_scheme
<1> HIDE DEF n
<1> QED
  BY <1>1, <1>2, <1>3 DEF canonical_path_to_file_uri, n

\* A path behind the scheme, and one that is given a root as well.
Short(s) == <<"file://">> \o s
Long(s)  == <<"file://", "/">> \o s

LEMMA ShortIs ==
  ASSUME NEW T, "file://" \in T, "/" \in T, NEW s \in Seq(T)
  PROVE  /\ Short(s) \in Seq(T) /\ Len(Short(s)) = Len(s) + 1 /\ Short(s)[1] = "file://"
         /\ \A i \in 1..Len(s) : Short(s)[i + 1] = s[i]
BY DEF Short

LEMMA LongIs ==
  ASSUME NEW T, "file://" \in T, "/" \in T, NEW s \in Seq(T)
  PROVE  /\ Long(s) \in Seq(T) /\ Len(Long(s)) = Len(s) + 2 /\ Long(s)[1] = "file://" /\ Long(s)[2] = "/"
         /\ \A i \in 1..Len(s) : Long(s)[i + 2] = s[i]
BY DEF Long

\* Neither adding loses anything.
LEMMA TwoShort ==
  ASSUME NEW T, "file://" \in T, "/" \in T, NEW s \in Seq(T), NEW t \in Seq(T), Short(s) = Short(t)
  PROVE  s = t
<1>1. Len(s) = Len(t)
  <2>1. Len(Short(s)) = Len(s) + 1 /\ Len(Short(t)) = Len(t) + 1
    BY ShortIs
  <2> QED
    BY <2>1
<1>2. ASSUME NEW i \in 1..Len(s) PROVE s[i] = t[i]
  <2>1. Short(s)[i + 1] = s[i]
    BY ShortIs
  <2>2. Short(t)[i + 1] = t[i]
    BY <1>1, ShortIs
  <2> QED
    BY <2>1, <2>2
<1> QED
  BY <1>1, <1>2

LEMMA TwoLong ==
  ASSUME NEW T, "file://" \in T, "/" \in T, NEW s \in Seq(T), NEW t \in Seq(T), Long(s) = Long(t)
  PROVE  s = t
<1>1. Len(s) = Len(t)
  <2>1. Len(Long(s)) = Len(s) + 2 /\ Len(Long(t)) = Len(t) + 2
    BY LongIs
  <2> QED
    BY <2>1
<1>2. ASSUME NEW i \in 1..Len(s) PROVE s[i] = t[i]
  <2>1. Long(s)[i + 2] = s[i]
    BY LongIs
  <2>2. Long(t)[i + 2] = t[i]
    BY <1>1, LongIs
  <2> QED
    BY <2>1, <2>2
<1> QED
  BY <1>1, <1>2

\* A short and a long one: the long one has a drive, since it is rooted as the
\* short one is, and the short one has it one place further on.
LEMMA ShortAndLong ==
  ASSUME NEW T, "file://" \in T, "/" \in T, NEW s \in Seq(T), NEW t \in Seq(T), Short(s) = Long(t),
         s[1] = "/" <=> t[1] = "/", t[1] # "/" \/ \E k \in Nat : Colon(t, k)
  PROVE  \E k \in Nat : Colon(s, k)
<1>1. Len(s) = Len(t) + 1
  <2>1. Len(Short(s)) = Len(s) + 1 /\ Len(Long(t)) = Len(t) + 2
    BY ShortIs, LongIs
  <2> QED
    BY <2>1
<1>2. s[1] = "/"
  <2>1. Short(s)[1 + 1] = s[1]
    <3>1. 1 \in 1..Len(s)
      BY <1>1
    <3> QED
      BY <3>1, ShortIs
  <2>2. Long(t)[2] = "/"
    BY LongIs
  <2> QED
    BY <2>1, <2>2
<1>3. ASSUME NEW i \in 1..Len(t) PROVE s[i + 1] = t[i]
  <2>1. i + 1 \in 1..Len(s) /\ (i + 1) + 1 = i + 2
    BY <1>1
  <2>2. Short(s)[(i + 1) + 1] = s[i + 1]
    BY <2>1, ShortIs
  <2>3. Long(t)[i + 2] = t[i]
    BY LongIs
  <2> QED
    BY <2>1, <2>2, <2>3
<1>4. PICK k \in Nat : Colon(t, k)
  BY <1>2
<1>5. k \in 1..Len(t) /\ k + 1 \in 1..Len(t) /\ t[k] = ":" /\ t[k + 1] = "/" /\ k + 1 \in 1..(Len(s) - 1)
  BY <1>1, <1>4 DEF Colon
<1>6. s[k + 1] = ":" /\ s[(k + 1) + 1] = "/"
  BY <1>3, <1>5
<1>7. Colon(s, k + 1)
  BY <1>5, <1>6 DEF Colon
<1> QED
  BY <1>7

\* The same URI comes from the same path, if both or neither is rooted.
LEMMA SameUri ==
  ASSUME NEW S, "file://" \notin S, NEW a \in Seq(S) \ {<<>>}, NEW b \in Seq(S) \ {<<>>},
         canonical_path_to_file_uri(a) = canonical_path_to_file_uri(b),
         Normalized(a)[1] = "/" <=> Normalized(b)[1] = "/"
  PROVE  Normalized(a) = Normalized(b)
<1>1. PICK T : T = S \cup {"/", "file://"}
  OBVIOUS
<1>2. PICK n : n = Normalized(a)
  OBVIOUS
<1>3. PICK m : m = Normalized(b)
  OBVIOUS
<1>4. n \in Seq(T) /\ m \in Seq(T)
  <2>1. n \in Seq(S \cup {"/"}) /\ m \in Seq(S \cup {"/"})
    BY <1>2, <1>3, NormalizedIs
  <2> QED
    BY <1>1, <2>1
<1>5. PICK u : u = canonical_path_to_file_uri(a) /\ u = canonical_path_to_file_uri(b)
  OBVIOUS
<1>6. \/ u = a
      \/ u = Short(n) /\ ~ \E k \in Nat : Colon(n, k)
      \/ u = Long(n) /\ (n[1] # "/" \/ \E k \in Nat : Colon(n, k))
  BY <1>2, <1>5, UriIs DEF Short, Long
<1>7. \/ u = b
      \/ u = Short(m) /\ ~ \E k \in Nat : Colon(m, k)
      \/ u = Long(m) /\ (m[1] # "/" \/ \E k \in Nat : Colon(m, k))
  BY <1>3, <1>5, UriIs DEF Short, Long
<1>8. a[1] \in S /\ b[1] \in S
  <2>1. Len(a) # 0 /\ Len(b) # 0
    OBVIOUS
  <2> QED
    BY <2>1
<1>9. u = a <=> u = b
  <2>1. \A s \in Seq(T) : Short(s)[1] = "file://" /\ Long(s)[1] = "file://"
    <3> SUFFICES ASSUME NEW s \in Seq(T) PROVE Short(s)[1] = "file://" /\ Long(s)[1] = "file://"
      OBVIOUS
    <3>1. "file://" \in T /\ "/" \in T
      BY <1>1
    <3> QED
      BY <3>1, ShortIs, LongIs
  <2> QED
    BY <1>4, <1>6, <1>7, <1>8, <2>1
<1>10. "file://" \in T /\ "/" \in T /\ (n[1] = "/" <=> m[1] = "/")
  BY <1>1, <1>2, <1>3
<1>11. CASE u = a
  BY <1>2, <1>3, <1>9, <1>11
<1>12. CASE u = Short(n) /\ u = Short(m)
  BY <1>2, <1>3, <1>4, <1>10, <1>12, TwoShort
<1>13. CASE u = Long(n) /\ u = Long(m)
  BY <1>2, <1>3, <1>4, <1>10, <1>13, TwoLong
<1>14. ~ (/\ u = Short(n) /\ ~ \E k \in Nat : Colon(n, k)
          /\ u = Long(m) /\ (m[1] # "/" \/ \E k \in Nat : Colon(m, k)))
  <2> SUFFICES ASSUME Short(n) = Long(m), ~ \E k \in Nat : Colon(n, k), m[1] # "/" \/ \E k \in Nat : Colon(m, k)
               PROVE  FALSE
    OBVIOUS
  <2> QED
    BY <1>4, <1>10, ShortAndLong
<1>15. ~ (/\ u = Short(m) /\ ~ \E k \in Nat : Colon(m, k)
          /\ u = Long(n) /\ (n[1] # "/" \/ \E k \in Nat : Colon(n, k)))
  <2> SUFFICES ASSUME Short(m) = Long(n), ~ \E k \in Nat : Colon(m, k), n[1] # "/" \/ \E k \in Nat : Colon(n, k)
               PROVE  FALSE
    OBVIOUS
  <2> QED
    BY <1>4, <1>10, ShortAndLong
<1> QED
  BY <1>6, <1>7, <1>9, <1>11, <1>12, <1>13, <1>14, <1>15

\* Two paths of which both or neither start at the root have different URIs
\* unless they are the same but for the direction of slashes.
THEOREM UrisDistinguish ==
  ASSUME input.kind = "path" => input.path \in Seq(Marks \cup {"."}) \ {<<>>}
  PROVE  UrisAreDistinct
<1> SUFFICES ASSUME input.kind = "path", NEW other \in BoundedSeq(Marks, MaxPath) \ {<<>>},
                    canonical_path_to_file_uri(other) = canonical_path_to_file_uri(input.path),
                    (Normalized(other)[1] = "/") = (Normalized(input.path)[1] = "/")
             PROVE  Normalized(other) = Normalized(input.path)
  BY DEF UrisAreDistinct
<1>1. PICK S : S = Marks \cup {"."}
  OBVIOUS
<1>2. other \in Seq(S) \ {<<>>}
  <2>1. PICK m \in 0..MaxPath : other \in [1..m -> Marks]
    BY DEF BoundedSeq, SeqOf
  <2>2. other \in Seq(Marks)
    BY <2>1
  <2> QED
    BY <1>1, <2>2
<1>3. input.path \in Seq(S) \ {<<>>}
  BY <1>1
<1>4. "file://" \notin S
  BY <1>1 DEF Marks
<1>5. Normalized(other)[1] = "/" <=> Normalized(input.path)[1] = "/"
  OBVIOUS
<1> QED
  BY <1>2, <1>3, <1>4, <1>5, SameUri

-----------------------------------------------------------------------------
(* Extensions.                                                              *)

\* The mark at m is the last one in the path; 0 when there is none.
IsLast(path, marks, m) ==
  /\ m \in 0..Len(path) /\ (m = 0 \/ path[m] \in marks)
  /\ \A i \in (m + 1)..Len(path) : path[i] \notin marks

\* What stands behind a place in a path, place by place.
LEMMA RestIs ==
  ASSUME NEW S, NEW path \in Seq(S), NEW m \in 0..Len(path)
  PROVE  LET rest == SubSeq(path, m + 1, Len(path))
         IN  rest \in Seq(S) /\ Len(rest) = Len(path) - m /\ \A i \in 1..Len(rest) : rest[i] = path[m + i]
<1>1. PICK rest : rest = SubSeq(path, m + 1, Len(path))
  OBVIOUS
<1>2. rest \in Seq(S) /\ Len(rest) = Len(path) - m
  BY <1>1
<1>3. ASSUME NEW i \in 1..Len(rest) PROVE rest[i] = path[m + i]
  BY <1>1, <1>2
<1> QED
  BY <1>1, <1>2, <1>3

\* Behind cuts at the last mark, and there is only one such place.
LEMMA LastMark ==
  ASSUME NEW S, NEW path \in Seq(S), NEW marks
  PROVE  \E m \in 0..Len(path) :
           IsLast(path, marks, m) /\ Behind(path, marks) = SubSeq(path, m + 1, Len(path))
<1> DEFINE places == {0} \cup {i \in DOMAIN path : path[i] \in marks}
<1>1. Len(path) \in Nat /\ DOMAIN path = 1..Len(path)
  OBVIOUS
<1>2. places \in SUBSET (0..Len(path)) /\ places # {}
  BY <1>1
<1>3. Max(places) \in places /\ \A n \in places : n <= Max(places)
  BY <1>1, <1>2, Greatest
<1>4. PICK m : m = Max(places)
  OBVIOUS
<1>5. m \in 0..Len(path) /\ (m = 0 \/ path[m] \in marks) /\ \A n \in places : n <= m
  BY <1>1, <1>3, <1>4
<1>6. IsLast(path, marks, m)
  <2>1. ASSUME NEW i \in (m + 1)..Len(path) PROVE path[i] \notin marks
    <3>1. i \in DOMAIN path /\ ~ (i <= m)
      BY <1>1, <1>5
    <3> QED
      BY <1>5, <3>1
  <2> QED
    BY <1>5, <2>1 DEF IsLast
<1>7. Behind(path, marks) = SubSeq(path, m + 1, Len(path))
  BY <1>4 DEF Behind
<1> QED
  BY <1>5, <1>6, <1>7

LEMMA LastMarkIs ==
  ASSUME NEW S, NEW path \in Seq(S), NEW marks, NEW k, IsLast(path, marks, k)
  PROVE  Behind(path, marks) = SubSeq(path, k + 1, Len(path))
<1>1. PICK m \in 0..Len(path) : IsLast(path, marks, m) /\ Behind(path, marks) = SubSeq(path, m + 1, Len(path))
  BY LastMark
<1>2. Len(path) \in Nat
  OBVIOUS
<1>3. m = k
  BY <1>1, <1>2 DEF IsLast
<1> QED
  BY <1>1, <1>3

\* The name the router sees and the one the payload is made from are the same.
LEMMA SameName ==
  ASSUME NEW S, NEW path \in Seq(S)
  PROVE  Behind(Normalized(path), {"/"}) = Behind(path, {"/", "\\"})
<1>1. PICK n : n = Normalized(path)
  OBVIOUS
<1>2. /\ n \in Seq(S \cup {"/"}) /\ Len(n) = Len(path)
      /\ \A i \in 1..Len(path) : n[i] = IF path[i] = "\\" THEN "/" ELSE path[i]
  BY <1>1, NormalizedIs
<1>3. PICK m \in 0..Len(path) :
        IsLast(path, {"/", "\\"}, m) /\ Behind(path, {"/", "\\"}) = SubSeq(path, m + 1, Len(path))
  BY LastMark
<1>4. Len(path) \in Nat
  OBVIOUS
<1>5. IsLast(n, {"/"}, m)
  BY <1>2, <1>3, <1>4 DEF IsLast
<1>6. Behind(n, {"/"}) = SubSeq(n, m + 1, Len(n))
  BY <1>2, <1>5, LastMarkIs
<1>7. SubSeq(n, m + 1, Len(n)) = SubSeq(path, m + 1, Len(path))
  <2>1. PICK a : a = SubSeq(n, m + 1, Len(n))
    OBVIOUS
  <2>2. PICK b : b = SubSeq(path, m + 1, Len(path))
    OBVIOUS
  <2>3. a \in Seq(S \cup {"/"}) /\ Len(a) = Len(path) - m /\ \A i \in 1..Len(a) : a[i] = n[m + i]
    BY <1>2, <2>1, RestIs
  <2>4. b \in Seq(S) /\ Len(b) = Len(path) - m /\ \A i \in 1..Len(b) : b[i] = path[m + i]
    BY <2>2, RestIs
  <2>5. ASSUME NEW i \in 1..Len(a) PROVE a[i] = b[i]
    <3>1. m + i \in 1..Len(path) /\ m + i \in (m + 1)..Len(path) /\ path[m + i] # "\\"
      BY <1>3, <1>4, <2>3 DEF IsLast
    <3> QED
      BY <1>2, <2>3, <2>4, <3>1
  <2>6. a = b
    BY <2>3, <2>4, <2>5
  <2> QED
    BY <2>1, <2>2, <2>6
<1> QED
  BY <1>1, <1>3, <1>6, <1>7

\* What the router sees and the payload carries of a name.
LEMMA PartsOfName ==
  ASSUME NEW S, NEW name \in Seq(S)
  PROVE  LET extension == Behind(name, {"."})
         IN  /\ Len(extension) + 1 < Len(name) => extension # name
             /\ name # <<>> /\ name[1] # "." /\ extension # name => Len(extension) + 1 < Len(name)
<1>1. PICK m \in 0..Len(name) : IsLast(name, {"."}, m) /\ Behind(name, {"."}) = SubSeq(name, m + 1, Len(name))
  BY LastMark
<1>2. PICK e : e = SubSeq(name, m + 1, Len(name))
  OBVIOUS
<1>3. e \in Seq(S) /\ Len(e) = Len(name) - m /\ \A i \in 1..Len(e) : e[i] = name[m + i]
  BY <1>2, RestIs
<1>4. Len(name) \in Nat /\ m \in Nat
  OBVIOUS
<1>5. Len(e) + 1 < Len(name) => e # name
  BY <1>3, <1>4
<1>6. m = 0 => e = name
  BY <1>3, <1>4
<1>7. name # <<>> /\ name[1] # "." /\ m # 0 => Len(e) + 1 < Len(name)
  <2>1. m # 0 => name[m] = "."
    BY <1>1 DEF IsLast
  <2> QED
    BY <1>3, <1>4, <2>1
<1> QED
  BY <1>1, <1>2, <1>5, <1>6, <1>7

\* The router and the payload: one of them may be stricter, about a dot in front.
LEMMA HintIsPayload ==
  ASSUME NEW S, NEW path \in Seq(S)
  PROVE  LET payload == file_extension_from_canonical_path(path)
             name    == Behind(path, {"/", "\\"})
         IN  /\ hint_extension(path) \subseteq {payload}
             /\ name # <<>> /\ name[1] # "." =>
                  payload = (IF hint_extension(path) = {} THEN <<>> ELSE CHOOSE x \in hint_extension(path) : TRUE)
<1>1. PICK name : name = Behind(path, {"/", "\\"})
  OBVIOUS
<1>2. PICK e : e = Behind(name, {"."})
  OBVIOUS
<1>3. name \in Seq(S)
  <2>1. PICK m \in 0..Len(path) : name = SubSeq(path, m + 1, Len(path))
    BY <1>1, LastMark
  <2> QED
    BY <2>1, RestIs
<1>4. hint_extension(path) = IF Len(e) + 1 < Len(name) THEN {e} ELSE {}
  BY <1>1, <1>2 DEF hint_extension
<1>5. file_extension_from_canonical_path(path) = IF e = name THEN <<>> ELSE e
  BY <1>1, <1>2, SameName DEF file_extension_from_canonical_path
<1>6. /\ Len(e) + 1 < Len(name) => e # name
      /\ name # <<>> /\ name[1] # "." /\ e # name => Len(e) + 1 < Len(name)
  BY <1>2, <1>3, PartsOfName
<1>7. hint_extension(path) \subseteq {file_extension_from_canonical_path(path)}
  BY <1>4, <1>5, <1>6
<1>8. ASSUME name # <<>>, name[1] # "."
      PROVE  file_extension_from_canonical_path(path)
             = (IF hint_extension(path) = {} THEN <<>> ELSE CHOOSE x \in hint_extension(path) : TRUE)
  <2>1. CASE e = name
    BY <1>4, <1>5, <1>6, <2>1
  <2>2. CASE e # name
    BY <1>4, <1>5, <1>6, <1>8, <2>2
  <2> QED
    BY <2>1, <2>2
<1> QED
  BY <1>1, <1>7, <1>8

\* Where slashes are the only marks the name is behind the last slash, and the
\* loader sees it too.
LEMMA LoaderSeesName ==
  ASSUME NEW S, NEW path \in Seq(S), "\\" \notin ToSet(path), NEW name, name = Behind(path, {"/"}),
         name # <<>>, name[1] # "."
  PROVE  name = Behind(path, {"/", "\\"}) /\ Path_extension(path) = hint_extension(path)
<1> DEFINE segment(i) == Behind(SubSeq(path, 1, i), {"/"})
           ends == {i \in DOMAIN path : /\ path[i] # "/" /\ (i < Len(path) => path[i + 1] = "/")
                                        /\ segment(i) # <<".">>}
<1>1. PICK m \in 0..Len(path) : IsLast(path, {"/"}, m) /\ name = SubSeq(path, m + 1, Len(path))
  BY LastMark
<1>2. Len(path) \in Nat /\ DOMAIN path = 1..Len(path) /\ path = SubSeq(path, 1, Len(path))
  OBVIOUS
<1>3. IsLast(path, {"/", "\\"}, m)
  <2>1. \A i \in 1..Len(path) : path[i] # "\\"
    BY <1>2 DEF ToSet
  <2> QED
    BY <1>1, <1>2, <2>1 DEF IsLast
<1>4. name = Behind(path, {"/", "\\"})
  BY <1>1, <1>3, LastMarkIs
<1>5. Len(path) \in DOMAIN path /\ path[Len(path)] # "/"
  <2>1. Len(name) = Len(path) - m /\ Len(name) # 0
    <3>1. name \in Seq(S) /\ Len(name) = Len(path) - m
      BY <1>1, RestIs
    <3> QED
      BY <3>1
  <2>2. Len(path) \in (m + 1)..Len(path)
    BY <1>2, <2>1
  <2> QED
    BY <1>1, <1>2, <2>2 DEF IsLast
<1>6. segment(Len(path)) = name
  BY <1>2
<1>7. name # <<".">> /\ name # <<".", ".">>
  OBVIOUS
<1>8. Len(path) \in ends
  BY <1>2, <1>5, <1>6, <1>7
<1>9. Max(ends) = Len(path) /\ ends # {}
  <2>1. ends \in SUBSET (0..Len(path))
    BY <1>2
  <2>2. Max(ends) \in ends /\ \A n \in ends : n <= Max(ends)
    BY <1>2, <1>8, <2>1, Greatest
  <2>3. PICK x : x = Max(ends)
    OBVIOUS
  <2>4. x \in 0..Len(path) /\ Len(path) <= x
    BY <1>8, <2>1, <2>2, <2>3
  <2> QED
    BY <1>2, <1>8, <2>3, <2>4
<1>10. Path_extension(path)
       = IF name # <<".", ".">> /\ Len(Behind(name, {"."})) + 1 < Len(name) THEN {Behind(name, {"."})} ELSE {}
  BY <1>6, <1>9 DEF Path_extension
<1>11. hint_extension(path) = IF Len(Behind(name, {"."})) + 1 < Len(name) THEN {Behind(name, {"."})} ELSE {}
  BY <1>4 DEF hint_extension
<1> QED
  BY <1>4, <1>7, <1>10, <1>11

\* The first slash behind a name without one.
LEMMA SlashIs ==
  ASSUME NEW S, NEW rest \in Seq(S), NEW k \in 1..Len(rest), rest[k] = "/",
         \A i \in 1..(k - 1) : rest[i] # "/"
  PROVE  FirstIndexOf(<<"/">>, rest) = k
<1> DEFINE slash == <<"/">>
           places == {i \in 1..Len(rest) : StandsAt(slash, rest, i)}
<1>1. Len(rest) \in Nat /\ DOMAIN rest = 1..Len(rest)
  OBVIOUS
<1>2. ASSUME NEW i \in 1..Len(rest) PROVE StandsAt(slash, rest, i) <=> rest[i] = "/"
  <2>1. PICK t : t = SubSeq(rest, i, Len(rest))
    OBVIOUS
  <2>2. t \in Seq(S) /\ Len(t) = Len(rest) - i + 1 /\ t[1] = rest[i]
    BY <2>1
  <2>3. PICK c : c = SubSeq(t, 1, 1)
    OBVIOUS
  <2>4. Len(t) >= 1
    BY <1>1, <2>2
  <2>5. c \in Seq(S) /\ Len(c) = 1 /\ c[1] = t[1]
    BY <2>2, <2>3, <2>4
  <2>6. c = <<"/">> <=> t[1] = "/"
    BY <2>5
  <2>7. SubSeq(slash, 1, 1) = <<"/">> /\ Len(slash) = 1
    <3>1. slash \in Seq({"/"}) /\ Len(slash) = 1 /\ slash[1] = "/"
      OBVIOUS
    <3>2. PICK d : d = SubSeq(slash, 1, 1)
      OBVIOUS
    <3>3. d \in Seq({"/"}) /\ Len(d) = 1 /\ d[1] = "/"
      BY <3>1, <3>2
    <3>4. d = <<"/">>
      BY <3>3
    <3> QED
      BY <3>1, <3>2, <3>4
  <2>8. StandsAt(slash, rest, i) <=> SubSeq(slash, 1, 1) = SubSeq(t, 1, 1)
    BY <2>1, <2>4, <2>7 DEF StandsAt, IsPrefix
  <2> QED
    BY <2>2, <2>3, <2>6, <2>7, <2>8
<1>3. FirstIndexOf(slash, rest) = IF places # {} THEN Min(places) ELSE 0
  BY <1>1, FirstIndexIs
<1>4. k \in places /\ \A i \in places : k <= i
  BY <1>1, <1>2
<1>5. Min(places) = k
  <2>1. places \in SUBSET Nat
    BY <1>1
  <2>2. Min(places) \in places /\ \A n \in places : Min(places) <= n
    BY <1>4, <2>1, Least
  <2>3. PICK x : x = Min(places)
    OBVIOUS
  <2>4. x \in Nat /\ x <= k /\ k <= x
    BY <1>4, <2>1, <2>2, <2>3
  <2> QED
    BY <2>3, <2>4
<1> QED
  BY <1>3, <1>4, <1>5

\* Sequences put together and cut apart again.
LEMMA Joined ==
  ASSUME NEW S, NEW s \in Seq(S), NEW t \in Seq(S)
  PROVE  /\ s \o t \in Seq(S) /\ Len(s \o t) = Len(s) + Len(t)
         /\ \A i \in 1..Len(s) : (s \o t)[i] = s[i]
         /\ \A i \in 1..Len(t) : (s \o t)[Len(s) + i] = t[i]
OBVIOUS

LEMMA CutApart ==
  ASSUME NEW S, NEW s \in Seq(S), NEW t \in Seq(S), NEW c, c = s \o t
  PROVE  SubSeq(c, 1, Len(s)) = s /\ SubSeq(c, Len(s) + 1, Len(c)) = t
<1>1. /\ c \in Seq(S) /\ Len(c) = Len(s) + Len(t)
      /\ \A i \in 1..Len(s) : c[i] = s[i]
      /\ \A i \in 1..Len(t) : c[Len(s) + i] = t[i]
  BY Joined
<1>2. Len(s) \in Nat /\ Len(t) \in Nat
  OBVIOUS
<1>3. PICK a : a = SubSeq(c, 1, Len(s))
  OBVIOUS
<1>4. a \in Seq(S) /\ Len(a) = Len(s) /\ \A i \in 1..Len(s) : a[i] = c[i]
  BY <1>1, <1>2, <1>3
<1>5. a = s
  BY <1>1, <1>4
<1>6. PICK b : b = SubSeq(c, Len(s) + 1, Len(c))
  OBVIOUS
<1>7. b \in Seq(S) /\ Len(b) = Len(t) /\ \A i \in 1..Len(b) : b[i] = c[Len(s) + i]
  <2>1. Len(s) \in 0..Len(c) /\ Len(c) - Len(s) = Len(t)
    BY <1>1, <1>2
  <2> QED
    BY <1>1, <1>6, <2>1, RestIs
<1>8. b = t
  BY <1>1, <1>7
<1> QED
  BY <1>3, <1>5, <1>6, <1>8

LEMMA CutAll ==
  ASSUME NEW S, NEW s \in Seq(S)
  PROVE  SubSeq(s, 1, Len(s)) = s
OBVIOUS

LEMMA CutTwice ==
  ASSUME NEW S, NEW s \in Seq(S), NEW m \in 0..(Len(s) - 1)
  PROVE  LET t == SubSeq(s, m + 1, Len(s)) IN SubSeq(t, 2, Len(t)) = SubSeq(s, m + 2, Len(s))
<1>1. PICK t : t = SubSeq(s, m + 1, Len(s))
  OBVIOUS
<1>2. t \in Seq(S) /\ Len(t) = Len(s) - m /\ (\A i \in 1..Len(t) : t[i] = s[m + i]) /\ Len(s) \in Nat /\ m \in Nat
  BY <1>1, RestIs
<1>3. PICK u : u = SubSeq(t, 1 + 1, Len(t))
  OBVIOUS
<1>4. PICK v : v = SubSeq(s, (m + 1) + 1, Len(s))
  OBVIOUS
<1>5. u \in Seq(S) /\ Len(u) = Len(t) - 1 /\ \A i \in 1..Len(u) : u[i] = t[1 + i]
  <2>1. 1 \in 0..Len(t)
    BY <1>2
  <2> QED
    BY <1>2, <1>3, <2>1, RestIs
<1>6. v \in Seq(S) /\ Len(v) = Len(s) - (m + 1) /\ \A i \in 1..Len(v) : v[i] = s[(m + 1) + i]
  <2>1. m + 1 \in 0..Len(s)
    BY <1>2
  <2> QED
    BY <1>4, <2>1, RestIs
<1>7. ASSUME NEW i \in 1..Len(u) PROVE u[i] = v[i]
  <2>1. 1 + i \in 1..Len(t) /\ i \in 1..Len(v) /\ m + (1 + i) = (m + 1) + i
    BY <1>2, <1>5, <1>6
  <2> QED
    BY <1>2, <1>5, <1>6, <2>1
<1>8. Len(u) = Len(v)
  BY <1>2, <1>5, <1>6
<1>9. u = v
  BY <1>5, <1>6, <1>7, <1>8
<1> QED
  BY <1>1, <1>3, <1>4, <1>9, <1>2

LEMMA Associative ==
  ASSUME NEW S, NEW a \in Seq(S), NEW b \in Seq(S), NEW c \in Seq(S)
  PROVE  a \o b \o c = a \o (b \o c)
OBVIOUS

\* An S3 document is fetched by what it was listed under.
\* A name of nothing but spaces.
Blank(bucket) == ToSet(bucket) \ {" "} = {}

LEMMA ObjectIs ==
  ASSUME NEW S, {"s", "3", ":", "/"} \subseteq S, NEW bucket \in Seq(S), NEW key \in Seq(S), key # <<>>,
         \A i \in 1..Len(bucket) : bucket[i] # "/", ~ Blank(bucket)
  PROVE  parse_s3_uri(canonical_s3_path(bucket, key)) = {[bucket |-> bucket, key |-> key]}
<1>1. "s" \in S /\ "3" \in S /\ ":" \in S /\ "/" \in S
  OBVIOUS
<1>2. PICK scheme : scheme = S3Scheme
  OBVIOUS
<1>3. scheme \in Seq(S) /\ Len(scheme) = 5
  BY <1>1, <1>2 DEF S3Scheme
<1>4. PICK slash : slash = <<"/">>
  OBVIOUS
<1>5. slash \in Seq(S) /\ Len(slash) = 1 /\ slash[1] = "/"
  BY <1>1, <1>4
<1>6. slash \in Seq(S)
  BY <1>5
<1>7. scheme \in Seq(S)
  BY <1>3
<1>8. Len(bucket) \in Nat /\ Len(key) \in Nat
  OBVIOUS
<1>9. PICK end : end = slash \o key
  OBVIOUS
<1>10. end \in Seq(S) /\ Len(end) = 1 + Len(key) /\ end[1] = "/" /\ SubSeq(end, 1 + 1, Len(end)) = key
  <2>1. end \in Seq(S) /\ Len(end) = Len(slash) + Len(key) /\ \A i \in 1..Len(slash) : end[i] = slash[i]
    BY <1>5, <1>8, <1>9, Joined
  <2>2. SubSeq(end, Len(slash) + 1, Len(end)) = key
    BY <1>6, <1>9, CutApart
  <2> QED
    BY <1>5, <2>1, <2>2
<1>11. PICK rest : rest = bucket \o end
  OBVIOUS
<1>12. /\ rest \in Seq(S) /\ Len(rest) = Len(bucket) + Len(end)
       /\ \A i \in 1..Len(bucket) : rest[i] = bucket[i]
       /\ \A i \in 1..Len(end) : rest[Len(bucket) + i] = end[i]
  <2>1. end \in Seq(S)
    BY <1>10
  <2> QED
    BY <2>1, <1>11, Joined
<1>13. SubSeq(rest, 1, Len(bucket)) = bucket
  BY <1>8, <1>10, <1>11, CutApart
<1>14. PICK path : path = scheme \o rest
  OBVIOUS
<1>15. path = canonical_s3_path(bucket, key)
  <2>1. bucket \o slash \o key = bucket \o (slash \o key)
    BY <1>6, Associative
  <2>2. PICK front : front = bucket \o slash
    OBVIOUS
  <2>3. front \in Seq(S)
    BY <1>6, <2>2, Joined
  <2>4. scheme \o bucket \o slash = scheme \o front
    <3>1. scheme \o bucket \o slash = scheme \o (bucket \o slash)
      BY ONLY <1>6, <1>7, bucket \in Seq(S), Associative
    <3> QED
      BY <2>2, <3>1
  <2>5. (scheme \o front) \o key = scheme \o (front \o key)
    BY <1>7, <2>3, Associative
  <2>6. canonical_s3_path(bucket, key) = scheme \o bucket \o slash \o key
    BY <1>2, <1>4 DEF canonical_s3_path
  <2>7. front \o key = rest
    BY <1>9, <1>11, <2>1, <2>2
  <2> QED
    BY <1>14, <2>4, <2>5, <2>6, <2>7
<1>16. SubSeq(path, 1, 5) = scheme /\ SubSeq(path, 5 + 1, Len(path)) = rest
  <2>1. rest \in Seq(S)
    BY <1>12
  <2>2. SubSeq(path, 1, Len(scheme)) = scheme /\ SubSeq(path, Len(scheme) + 1, Len(path)) = rest
    BY <2>1, <1>7, <1>14, CutApart
  <2> QED
    BY <1>3, <2>2
<1>17. Len(path) \in Nat /\ 5 <= Len(path)
  <2>1. rest \in Seq(S)
    BY <1>12
  <2>2. Len(path) = Len(scheme) + Len(rest)
    BY <1>7, <1>14, <2>1, Joined
  <2>3. Len(rest) \in Nat
    BY <2>1
  <2> QED
    BY <1>3, <2>2, <2>3
<1>18. IsPrefix(S3Scheme, path)
  <2>1. SubSeq(scheme, 1, 5) = scheme
    BY <1>3, CutAll
  <2> QED
    BY <1>2, <1>3, <1>16, <1>17, <2>1 DEF IsPrefix
<1>19. FirstIndexOf(<<"/">>, rest) = Len(bucket) + 1
  <2>1. Len(bucket) + 1 \in 1..Len(rest) /\ rest[Len(bucket) + 1] = "/"
    BY <1>8, <1>10, <1>12
  <2>2. \A i \in 1..((Len(bucket) + 1) - 1) : rest[i] # "/"
    BY <1>8, <1>12
  <2> QED
    BY <1>12, <2>1, <2>2, SlashIs
<1>20. SubSeq(rest, (Len(bucket) + 1) + 1, Len(rest)) = key
  <2>1. SubSeq(rest, Len(bucket) + 1, Len(rest)) = end
    <3>1. end \in Seq(S)
      BY <1>10
    <3> QED
      BY <3>1, <1>11, CutApart
  <2>2. SubSeq(rest, (Len(bucket) + 1) + 1, Len(rest)) = SubSeq(end, 1 + 1, Len(end))
    BY <1>8, <1>10, <1>12, CutTwice, <2>1
  <2> QED
    BY <1>10, <2>2
<1>21. (Len(bucket) + 1) - 1 = Len(bucket) /\ Len(bucket) + 1 # 0
  BY <1>8
<1>22. parse_s3_uri(path) = {[bucket |-> bucket, key |-> key]}
  <2>1. SubSeq(path, Len(S3Scheme) + 1, Len(path)) = rest
    BY <1>2, <1>3, <1>16
  <2>2. PICK k : k = Len(bucket) + 1
    OBVIOUS
  <2>3. FirstIndexOf(<<"/">>, rest) = k /\ k # 0 /\ SubSeq(rest, 1, k - 1) = bucket
        /\ SubSeq(rest, k + 1, Len(rest)) = key
    BY <1>13, <1>19, <1>20, <1>21, <2>2
  <2> QED
    BY ONLY <1>18, <2>1, <2>3, key # <<>>, ~ Blank(bucket), Zenon DEF parse_s3_uri, Blank
<1> QED
  BY <1>15, <1>22

\* The parts of the program that ask for an extension agree.
THEOREM ExtensionsMeet ==
  ASSUME NEW S, {"s", "3", ":", "/", "a", ".", "b"} \subseteq S,
         input.kind = "path" => input.path \in Seq(S) \ {<<>>}
  PROVE  ExtensionsAgree
<1> SUFFICES ASSUME input.kind = "path", NEW path \in Seq(S), path = input.path, path # <<>>
             PROVE  LET payload == file_extension_from_canonical_path(path)
                        name    == Behind(path, {"/"})
                    IN  /\ hint_extension(path) \subseteq {payload}
                        /\ "\\" \notin ToSet(path) /\ name # <<>> /\ name[1] # "." =>
                             /\ Path_extension(path) = hint_extension(path)
                             /\ payload = (IF hint_extension(path) = {} THEN <<>>
                                           ELSE CHOOSE x \in hint_extension(path) : TRUE)
                        /\ \A bucket \in {<<"a">>, <<"a", ".", "b">>} :
                             parse_s3_uri(canonical_s3_path(bucket, path)) = {[bucket |-> bucket, key |-> path]}
  BY DEF ExtensionsAgree
<1>1. hint_extension(path) \subseteq {file_extension_from_canonical_path(path)}
  BY HintIsPayload
<1>2. ASSUME NEW name, name = Behind(path, {"/"}), "\\" \notin ToSet(path), name # <<>>, name[1] # "."
      PROVE  /\ Path_extension(path) = hint_extension(path)
             /\ file_extension_from_canonical_path(path)
                = (IF hint_extension(path) = {} THEN <<>> ELSE CHOOSE x \in hint_extension(path) : TRUE)
  <2>1. name = Behind(path, {"/", "\\"}) /\ Path_extension(path) = hint_extension(path)
    BY <1>2, LoaderSeesName
  <2> QED
    BY <1>2, <2>1, HintIsPayload
<1>3. ASSUME NEW bucket \in {<<"a">>, <<"a", ".", "b">>}
      PROVE  parse_s3_uri(canonical_s3_path(bucket, path)) = {[bucket |-> bucket, key |-> path]}
  <2>1. bucket \in Seq(S)
    <3>1. "a" \in S /\ "." \in S /\ "b" \in S
      OBVIOUS
    <3>2. <<"a">> \in Seq(S) /\ <<"a", ".", "b">> \in Seq(S)
      BY <3>1
    <3> QED
      BY <3>2
  <2>2. \A i \in 1..Len(bucket) : bucket[i] # "/"
    OBVIOUS
  <2>3. ~ Blank(bucket)
    <3>1. 1 \in DOMAIN bucket /\ bucket[1] = "a"
      OBVIOUS
    <3>2. "a" \in ToSet(bucket)
      BY <3>1 DEF ToSet
    <3>3. "a" # " "
      BY ONLY Zenon
    <3>4. ToSet(bucket) \ {" "} # {}
      BY ONLY <3>2, <3>3, Zenon
    <3> QED
      BY ONLY <3>4, Zenon DEF Blank
  <2> QED
    BY <2>1, <2>2, <2>3, ObjectIs
<1> QED
  BY <1>1, <1>2, <1>3
=============================================================================
