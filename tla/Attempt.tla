------------------------------ MODULE Attempt -------------------------------
(***************************************************************************)
(* One attempt of PipelineExecutor at a file, seen from the errors: what   *)
(* each of its parts makes of the answers of the world, and what the       *)
(* worker then decides.  A document is a record of its path, of what its   *)
(* bytes are, and of the number of its sentences, each of which becomes a  *)
(* chunk here (Chunker has how).  A world is a record of the answers to    *)
(* the requests of the attempt.  Every part yields the kind of its error,  *)
(* or "ok".                                                                *)
(***************************************************************************)
EXTENDS Settings, Names

CONSTANT MaxShift     \* the largest exponent of a pause: 31 in the code

ASSUME AttemptAssumption == MaxShift \in Nat

\* to_ascii_lowercase, of an extension.
Lower(x) == IF x = <<"PDF">> THEN <<"pdf">> ELSE IF x = <<"RS">> THEN <<"rs">> ELSE x

-----------------------------------------------------------------------------
(* doc/mod.rs, doc/s3.rs: the loaders.                                      *)

has_extension(path, extension) == \E x \in Path_extension(path) : Lower(x) = <<extension>>

\* bytes: "text" is valid UTF-8; a "pdf" or "docx" is one that its library can
\* read, and no valid UTF-8; "other" is nothing of these, or an encrypted PDF.
extract_document_text(path, bytes) ==
  LET wanted == CASE has_extension(path, "pdf") -> "pdf"
                  [] has_extension(path, "docx") -> "docx"
                  [] OTHER -> "text"
  IN  IF bytes = wanted THEN "ok" ELSE "invalid_input"

\* FsUtf8Loader.
load_file(doc, answer) ==
  IF parse_s3_uri(doc.path) # {} \/ answer # "answered" THEN "io"
  ELSE extract_document_text(doc.path, doc.bytes)

get_object(answer) == IF answer = "answered" THEN "ok" ELSE "io"

\* S3Utf8Loader: a read that panics is told by the join of its task.
load_object(bucket, doc, answer) ==
  CASE \A l \in parse_s3_uri(doc.path) : l.bucket # <<bucket>> -> "invalid_input"
    [] OTHER ->
         CASE answer = "panicked" -> "internal"
           [] OTHER -> IF get_object(answer) = "ok" THEN extract_document_text(doc.path, doc.bytes)
                       ELSE get_object(answer)

\* A path that a daemon with another source has left in the log is no file, or
\* no object of this bucket.
load(source, doc, answer) ==
  IF source.kind = "s3" THEN load_object(source.bucket, doc, answer) ELSE load_file(doc, answer)

-----------------------------------------------------------------------------
(* transform/chunker: which one, and whether it needs the embedding         *)
(* service itself.                                                          *)

LanguageOf ==
  [x \in {"rs"} |-> "rust"]
  @@ [x \in {"py", "pyi"} |-> "python"]
  @@ [x \in {"js", "mjs", "cjs", "jsx"} |-> "javascript"]
  @@ [x \in {"ts"} |-> "typescript"] @@ [x \in {"tsx"} |-> "tsx"]
  @@ [x \in {"go"} |-> "go"] @@ [x \in {"java"} |-> "java"]
  @@ [x \in {"c", "h"} |-> "c"]
  @@ [x \in {"cpp", "cc", "cxx", "hpp", "hh", "hxx"} |-> "cpp"]
  @@ [x \in {"rb"} |-> "ruby"] @@ [x \in {"sh", "bash"} |-> "bash"]

\* default_router or semantic_router, and ChunkerRouter::chunk.
Routed(path, semantic) ==
  LET known(x) == \E e \in hint_extension(path) : Lower(e) = <<x>>
  IN  CASE \E x \in DOMAIN LanguageOf : known(x) -> "code"
        [] semantic -> "semantic"
        [] OTHER -> IF \E x \in {"md", "markdown", "mdx"} : known(x) THEN "markdown" ELSE "recursive"

chunker(chunking, path) ==
  IF chunking.chunker_mode = "router" THEN Routed(path, chunking.enable_semantic)
  ELSE CHOOSE single \in chunking.chunker_single : TRUE

\* Fewer sentences than two need no embeddings.
Asks(cfg, doc) == chunker(cfg.chunking, doc.path) = "semantic" /\ doc.sentences >= 2

\* The provider's error becomes one of the chunker, which has one kind only;
\* so does a wrong number of vectors.
chunk(cfg, doc, answer) == IF Asks(cfg, doc) /\ answer # "answered" THEN "internal" ELSE "ok"

-----------------------------------------------------------------------------
(* embed/http_client.rs, embed/openai_client.rs, and the rest of            *)
(* build_points_from_text.                                                  *)

\* An answer is "answered", "short" of a vector, "refused" with another status,
\* "lost" or not to be decoded ("garbled").  The vectors are taken in the order
\* of the answer; the two services differ in its form only.
embed_http(answer)   == IF answer \in {"answered", "short"} THEN "ok" ELSE "embed"
embed_openai(answer) == IF answer \in {"answered", "short"} THEN "ok" ELSE "embed"

embed(backend, answer) ==
  CASE backend.kind = "http"   -> embed_http(answer)
    [] backend.kind = "openai" -> embed_openai(answer)

\* An empty document has one chunk.
Chunks(doc) == IF doc.sentences = 0 THEN {0} ELSE 0..(doc.sentences - 1)
Points(doc, vectors) == {[chunk |-> i, vector |-> i] : i \in Chunks(doc) \cap (0..(vectors - 1))}

\* Mutant: the vectors are not counted.
Uncounted(backend, answer) == embed(backend, answer)

build_points_from_text(backend, answer) ==
  IF answer = "short" THEN "internal" ELSE embed(backend, answer)

-----------------------------------------------------------------------------
(* sink/qdrant.rs.                                                          *)

\* The status must be one of success, the body must say "ok".
upsert_points(answer) == IF answer = "answered" THEN "ok" ELSE "sink"

-----------------------------------------------------------------------------
\* The first step that fails ends the attempt.
FirstError(errors) ==
  LET failed == {i \in DOMAIN errors : errors[i] # "ok"}
  IN  IF failed = {} THEN "ok" ELSE errors[Min(failed)]

\* WorkItemV2: the error, and the points that were sent to the sink.
execute(cfg, doc, world) ==
  LET vectors == Cardinality(Chunks(doc)) - IF world.embed = "short" THEN 1 ELSE 0
      Ended(error) ==
        IF error # "ok" THEN [error |-> error, sent |-> {}]
        ELSE [error |-> upsert_points(world.sink), sent |-> Points(doc, vectors)]
  IN  Ended(FirstError(<<load(cfg.source, doc, world.read), chunk(cfg, doc, world.signal),
                         build_points_from_text(cfg.embed_backend, world.embed)>>))

-----------------------------------------------------------------------------
(* pipeline/runtime.rs: RetryPolicy and the worker.                         *)

is_retryable_error_kind(error) == error \in {"io", "embed", "sink"}

\* LiveRetryPolicy::replace.
replace(policy, next) == IF RetryValid(next) THEN next ELSE policy

should_retry(policy, error, attempt) ==
  attempt < policy.max_attempts /\ is_retryable_error_kind(error)

\* Mutant: the exponent is not held, and the shift wraps around.
DelayWraps(policy, next) ==
  IF policy.initial = 0 \/ next <= 1 THEN 0
  ELSE Min({policy.initial * 2^((next - 2) % (MaxShift + 1)), policy.max})

\* Durations saturate at what is far above any maximum.
delay_before_attempt(policy, next) ==
  IF policy.initial = 0 \/ next <= 1 THEN 0
  ELSE Min({policy.initial * 2^Min({next - 2, MaxShift}), policy.max})

\* What the worker does after attempt number n has failed, while some retries
\* are queued.
AfterError(policy, error, n, queued) ==
  IF should_retry(policy, error, n) /\ queued < policy.max_queued
  THEN [to |-> "retries", attempt |-> n + 1, delay |-> delay_before_attempt(policy, n + 1)]
  ELSE [to |-> "journal", attempt |-> n,
        reason |-> IF is_retryable_error_kind(error) THEN "retry_exhausted" ELSE "non_retryable"]
=============================================================================
