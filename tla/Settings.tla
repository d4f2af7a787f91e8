------------------------------ MODULE Settings ------------------------------
(***************************************************************************)
(* From the arguments and the configuration file to the configuration of   *)
(* a run, of a reload and of the operator commands.  Values are strings;   *)
(* "blank" stands for those of white space only, and Number gives the      *)
(* numerals among them.  A file is a PipelineConfig: what its YAML leaves  *)
(* out is {}.                                                              *)
(***************************************************************************)
EXTENDS CommandLine

CONSTANTS
  Number,           \* the numerals and their values
  Features          \* Cargo features of the build

ASSUME SettingsAssumption ==
  "blank" \notin DOMAIN Number /\ \A v \in DOMAIN Number : Number[v] \in Nat

Filled(option)     == option \ {"blank"}
Pick(flag, other)  == IF flag # {} THEN flag ELSE other
Parsed(numeral)    == {Number[v] : v \in numeral \cap DOMAIN Number}
PickNumber(flag, other) == IF flag # {} THEN Parsed(flag) ELSE other

-----------------------------------------------------------------------------
(* Sources.                                                                 *)

SourceKind(raw, file) ==
  Pick(raw["--source-kind"],
       IF raw["--dir"] # {} THEN {"filesystem"}
       ELSE Pick({f.source.kind : f \in file}, {"filesystem"}))

resolve_run_source(raw, file) ==
  LET overridden == raw["--source-kind"] # {}
      dir_overrides_s3 == /\ raw["--dir"] # {} /\ ~overridden
                          /\ \E f \in file : f.source.kind = "s3"
      kind   == SourceKind(raw, file)
      root   == Pick(raw["--dir"], UNION {f.source.root : f \in file})
      bucket == Pick(raw["--s3-bucket"], UNION {f.source.bucket : f \in file})
      prefix == Pick(raw["--s3-prefix"], UNION {f.source.prefix : f \in file})
  IN  CASE kind = {"filesystem"} ->
             {[kind |-> "filesystem", root |-> r] : r \in
                {r \in Filled(root) :
                   /\ raw["--s3-bucket"] = {} /\ raw["--s3-prefix"] = {}
                   /\ dir_overrides_s3 \/ overridden
                      \/ \A f \in file : f.source.bucket = {} /\ f.source.prefix = {}}}
        [] kind = {"s3"} ->
             {[kind |-> "s3", bucket |-> b, prefix |-> prefix] : b \in
                {b \in Filled(bucket) :
                   /\ raw["--dir"] = {} /\ prefix = Filled(prefix)
                   /\ overridden \/ \A f \in file : f.source.root = {}}}
        [] OTHER -> {}

\* Mutant: the prefix is not looked at.
SourceValidIgnoresPrefix(s) ==
  CASE s.kind = "filesystem" -> Filled(s.root) # {} /\ s.bucket = {}
    [] s.kind = "s3"         -> Filled(s.bucket) # {} /\ s.root = {}

\* SourceConfig::validate.
SourceValid(s) ==
  CASE s.kind = "filesystem" -> Filled(s.root) # {} /\ s.bucket = {} /\ s.prefix = {}
    [] s.kind = "s3"         -> Filled(s.bucket) # {} /\ s.prefix = Filled(s.prefix) /\ s.root = {}

-----------------------------------------------------------------------------
(* Retries.                                                                 *)

RetryDefaults == [max_attempts |-> 3, max_queued |-> 128, initial |-> 100, max |-> 2000]
RetryFlag == [max_attempts |-> "--retry-max-attempts", max_queued |-> "--retry-max-queued",
              initial |-> "--retry-initial-backoff-ms", max |-> "--retry-max-backoff-ms"]

\* RetryPolicy::validate, and the same rules in PipelineConfig::validate.
RetryValid(r) ==
  r.max_attempts >= 1 /\ (r.max_attempts > 1 => r.max_queued >= 1) /\ r.max >= r.initial

\* serde fills in what a file leaves out.
FileRetry(f) == [k \in DOMAIN RetryDefaults |->
                   IF f.retry[k] = {} THEN RetryDefaults[k] ELSE CHOOSE n \in f.retry[k] : TRUE]

Retry(raw, file) ==
  LET of(k) == PickNumber(raw[RetryFlag[k]], Pick({FileRetry(f)[k] : f \in file}, {RetryDefaults[k]}))
  IN  {r \in {[max_attempts |-> a, max_queued |-> q, initial |-> i, max |-> m] :
                a \in of("max_attempts"), q \in of("max_queued"), i \in of("initial"), m \in of("max")}
         : RetryValid(r)}

-----------------------------------------------------------------------------
(* Embedding and chunking: flags only, but for the endpoint.                *)

Backend(raw, file) ==
  LET backend  == Pick(raw["--embed-backend"], {"openai"})
      endpoint == {f.endpoint : f \in file}
  IN  CASE backend = {"openai"} ->
             {[kind |-> "openai", endpoint |-> e, api_key |-> k, model |-> m] :
                e \in Filled(Pick(raw["--openai-endpoint"], Pick(endpoint, {"https://api.openai.com/v1/embeddings"}))),
                k \in raw["--openai-api-key"],
                m \in Pick(raw["--openai-model"], {"text-embedding-3-small"})}
        [] backend = {"http"} ->
             {[kind |-> "http", endpoint |-> e, model |-> m] :
                e \in Filled(Pick(raw["--embed-url"], endpoint)),
                m \in Pick(raw["--embed-model"], {"default"})}
        [] OTHER -> {}

semantic_chunking_active(mode, single, enable) ==
  CASE mode = "router" -> enable
    [] mode = "single" -> single = {"semantic"}

Providers == {"adapter"} \cup (Features \cap {"fastembed"})

Chunking(raw) ==
  LET enable == raw["--enable-semantic"] # {}
      single == raw["--chunker-single"]
  IN  {c \in {[chunker_strategy |-> strategy, size_metric |-> metric, size_max |-> max,
               size_min |-> min, size_overlap |-> overlap, tokenizer |-> tokenizer,
               chunker_mode |-> mode, chunker_single |-> single, enable_semantic |-> enable,
               semantic_provider |-> provider, semantic_percentile |-> percentile] :
                strategy   \in Pick(raw["--chunker-strategy"], {"recursive"}) \cap {"recursive", "legacy"},
                metric     \in Pick(raw["--size-metric"], {"chars"}) \cap {"chars", "tokens"},
                max        \in PickNumber(raw["--size-max"],
                                          {IF raw["--size-metric"] = {"tokens"} THEN 512 ELSE 2000}),
                min        \in PickNumber(raw["--size-min"], {0}),
                overlap    \in PickNumber(raw["--size-overlap"], {0}),
                tokenizer  \in Pick(raw["--tokenizer"], {"tiktoken-cl100k"}) \cap {"tiktoken-cl100k"},
                mode       \in Pick(raw["--chunker-mode"], {"router"}) \cap {"router", "single"},
                provider   \in Pick(raw["--semantic-provider"], {"adapter"}) \cap Providers,
                percentile \in PickNumber(raw["--semantic-percentile"], {95}) \cap (1..99)} :
        /\ c.chunker_mode = "single" => single # {} /\ (enable => single = {"semantic"})
        /\ \/ semantic_chunking_active(c.chunker_mode, single, enable)
           \/ raw["--semantic-provider"] = {} /\ raw["--semantic-percentile"] = {}}

-----------------------------------------------------------------------------
(* The configuration of a run.                                              *)

VectorSize(raw) ==
  IF raw["--collection-vector-size"] = {} THEN {{}}
  ELSE {{n} : n \in Parsed(raw["--collection-vector-size"]) \ {0}}

DEFAULT_STATE_PATH == ".ragloom/wal.ndjson"
FileStatePath(f)   == Pick(f.state_path, {DEFAULT_STATE_PATH})

build_run_config(raw, file) ==
  LET health == Pick(raw["--health-addr"], UNION {f.health_addr : f \in file})
  IN  {[source |-> source, embed_backend |-> backend, qdrant_url |-> url, collection |-> collection,
        state_path |-> state, health_addr |-> health,
        create_collection_if_missing |-> raw["--create-collection-if-missing"] # {},
        collection_vector_size |-> size, chunking |-> chunking, retry |-> retry] :
         source     \in resolve_run_source(raw, file),
         url        \in Filled(Pick(raw["--qdrant-url"], {f.qdrant_url : f \in file})),
         collection \in Filled(Pick(raw["--collection"], {f.collection : f \in file})),
         state      \in Filled(Pick(raw["--state-path"],
                                    Pick(UNION {FileStatePath(f) : f \in file}, {DEFAULT_STATE_PATH}))),
         size       \in IF health = Filled(health) THEN VectorSize(raw) ELSE {},
         backend    \in Backend(raw, file),
         chunking   \in Chunking(raw),
         retry      \in Retry(raw, file)}

\* PipelineConfig::validate.
validate_file(f) ==
  /\ SourceValid(f.source)
  /\ "blank" \notin {f.endpoint, f.qdrant_url, f.collection} \cup FileStatePath(f) \cup f.health_addr
  /\ RetryValid(FileRetry(f))

-----------------------------------------------------------------------------
(* Reload.  What the record calls chunking is a list of eleven fields in    *)
(* the code, each compared on its own.                                      *)

\* Mutant: a change of the health address is not noticed.
PinnedButHealth ==
  {"source", "embed_backend", "qdrant_url", "collection", "state_path",
   "create_collection_if_missing", "collection_vector_size", "chunking"}

Pinned ==
  {"source", "embed_backend", "qdrant_url", "collection", "state_path", "health_addr",
   "create_collection_if_missing", "collection_vector_size", "chunking"}

validate_reloadable_changes(current, next) ==
  CASE \E k \in Pinned : current[k] # next[k] -> "rejected"
    [] OTHER -> IF current.retry # next.retry THEN "accepted" ELSE "unchanged"

\* What the files on the disk say; the one a flag names must be there and parse.
FileConfig(raw, disk) == {disk[path] : path \in raw["--config"]}
FileLoads(raw, disk)  == raw["--config"] \subseteq DOMAIN disk

RunCommands == {"run", "check", "dry-run"}

parse_args(args, disk) ==
  UNION {build_run_config(p.raw, FileConfig(p.raw, disk)) :
           p \in {q \in parse_raw_cli_args(args) : q.command \in RunCommands /\ FileLoads(q.raw, disk)}}

\* parse_reload_run_config_from_contents: the arguments of the start, and what
\* the watched file says now.
parse_reload_run_config_from_contents(args, file) ==
  UNION {build_run_config(p.raw, {file}) :
           p \in {q \in parse_raw_cli_args(args) : q.command \in RunCommands}}

-----------------------------------------------------------------------------
(* replay-failed and compact-state.                                         *)

ensure_state_only_flags_supported(raw) ==
  \A f \in Flags \ {"--config", "--state-path"} : raw[f] = {}

\* Mutant: the file comes before the flag.
OperatorStatePathOfFile(raw, disk) ==
  IF ensure_state_only_flags_supported(raw) /\ FileLoads(raw, disk)
  THEN Filled(Pick(UNION {f.state_path : f \in FileConfig(raw, disk)}, raw["--state-path"])) ELSE {}

\* build_replay_failed_config and build_compact_state_config.  The file is read
\* for its state section only, and has no default here.
operator_state_path(raw, disk) ==
  IF ensure_state_only_flags_supported(raw) /\ FileLoads(raw, disk)
  THEN Filled(Pick(raw["--state-path"], UNION {f.state_path : f \in FileConfig(raw, disk)})) ELSE {}
=============================================================================
