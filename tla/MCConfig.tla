------------------------------ MODULE MCConfig ------------------------------
(***************************************************************************)
(* Configurations and names, for MCFunctions: every configuration file in  *)
(* which one group of settings varies, every command line of a few words   *)
(* behind --config=f --embed-backend=http, every start in a good number of *)
(* worlds, and every short path.                                           *)
(***************************************************************************)
EXTENDS Startup, Names

CONSTANTS MaxArgs, MaxPath

VARIABLE input

NumeralValues == ("5" :> 5) @@ ("1" :> 1) @@ ("0" :> 0)

-----------------------------------------------------------------------------
(* Files.                                                                   *)

NoRetry == [max_attempts |-> {}, max_queued |-> {}, initial |-> {}, max |-> {}]

SomeFile ==
  [source |-> [kind |-> "filesystem", root |-> {"docs"}, bucket |-> {}, prefix |-> {}],
   endpoint |-> "e", qdrant_url |-> "q", collection |-> "c",
   state_path |-> {}, health_addr |-> {}, retry |-> NoRetry]

Options(values) == {{}} \cup {{v} : v \in values}
Sources ==
  [kind : {"filesystem", "s3"}, root : Options({"docs", "blank"}),
   bucket : Options({"b", "blank"}), prefix : Options({"p", "blank"})]

FilesOfSources ==
  [source : Sources, endpoint : {"e", "blank"}, qdrant_url : {"q", "blank"}, collection : {"c", "blank"},
   state_path : Options({"s", "blank"}), health_addr : Options({"h", "blank"}), retry : {NoRetry}]
FilesOfRetries ==
  {[SomeFile EXCEPT !.retry = r] : r \in
     [max_attempts : Options({0, 1, 2}), max_queued : Options({0, 1}),
      initial : Options({0, 1, 3000}), max : Options({0, 1, 3000})]}

-----------------------------------------------------------------------------
(* Command lines.                                                           *)

Base == <<Inline("--config", "f"), Inline("--embed-backend", "http")>>
Arguments ==
  {Word("--config"), Word("g"), Inline("--config", "g"), Word("--dir"), Inline("--dir", "docs"),
   Inline("--state-path", "s"), Inline("--retry-max-attempts", "5"), Inline("--health-addr", "h"),
   Word("--create-collection-if-missing")}

FewFiles ==
  {SomeFile,
   [SomeFile EXCEPT !.source.root = {"other"}],
   [SomeFile EXCEPT !.source.root = {}],
   [SomeFile EXCEPT !.collection = "other"],
   [SomeFile EXCEPT !.state_path = {"t"}],
   [SomeFile EXCEPT !.health_addr = {"i"}],
   [SomeFile EXCEPT !.retry.max_attempts = {1}],
   [SomeFile EXCEPT !.retry.max_attempts = {5}, !.retry.max_queued = {0}]}

\* The files f and g, of which one is the given one.
Disk(path, file) == [p \in {"f", "g"} |-> IF p \in path THEN file ELSE SomeFile]

\* A flag that wants a value and is followed by --config takes that for it,
\* but main does not see this when it looks for the file to watch.
ConfigSwallowed(args) ==
  \E i \in 1..(Len(args) - 1) :
    args[i] \in {Word(f) : f \in ValueFlags \ {"--config"}} /\ args[i + 1].flag = "--config"

-----------------------------------------------------------------------------
(* Starts.                                                                  *)

Flagged(flags) == FoldLeft(ParseArg, [result |-> "open", raw |-> RawCliArgs, awaits |-> {}], flags).raw

BackendFlags ==
  {<<Inline("--embed-backend", "http")>>}
  \cup {<<Inline("--openai-api-key", k), Inline("--openai-model", m)>> :
          k \in {"key", "line\nbreak"}, m \in {"text-embedding-3-large", "new"}}
ChunkingFlags ==
  {<<>>, <<Inline("--size-min", "5"), Inline("--size-max", "1")>>,
   <<Inline("--size-max", "5"), Inline("--size-overlap", "5")>>,
   <<Inline("--chunker-mode", "single"), Inline("--chunker-single", "code:go")>>,
   <<Inline("--chunker-mode", "single"), Inline("--chunker-single", "code:perl")>>}
CollectionFlags ==
  {<<>>, <<Word("--create-collection-if-missing")>>,
   <<Word("--create-collection-if-missing"), Inline("--collection-vector-size", "5")>>}
SourceFlags ==
  {<<>>, <<Inline("--source-kind", "s3"), Inline("--s3-bucket", "b")>>}
HealthFlags == {<<>>, <<Inline("--health-addr", "h")>>}

Configurations ==
  UNION {build_run_config(Flagged(b \o c \o v \o s \o h), {SomeFile}) :
           b \in BackendFlags, c \in ChunkingFlags, v \in CollectionFlags,
           s \in SourceFlags, h \in HealthFlags}
FewConfigurations ==
  UNION {build_run_config(Flagged(<<Inline("--openai-api-key", "key")>> \o v), {SomeFile}) : v \in CollectionFlags}

Answers == {"answered", "refused", "lost"}
GoodWorld ==
  [above |-> "open", wal |-> "missing", failed |-> "missing", region |-> TRUE, credentials |-> TRUE,
   health |-> "loopback and free",
   qdrant |-> [request |-> [i \in 1..3 |-> "answered"], rival |-> 4]]
Environments ==
  {[GoodWorld EXCEPT !.region = r, !.credentials = c, !.health = h] :
     r, c \in BOOLEAN, h \in {"loopback and free", "taken"}}
States ==
  {[GoodWorld EXCEPT !.above = a, !.wal = w, !.failed = f] :
     a \in {"open", "closed", "file"},
     w, f \in {"missing", "file", "shut file", "broken file", "directory"}}
Qdrants ==
  {[GoodWorld EXCEPT !.qdrant = q] : q \in [request : [1..3 -> Answers], rival : 1..4]}

\* Nothing is below what is not a directory.
Starts ==
  {s \in [kind : {"start"}, cfg : Configurations, world : Environments]
          \cup [kind : {"start"}, cfg : FewConfigurations, world : States \cup Qdrants] :
     s.world.above = "file" => s.world.wal = "missing" /\ s.world.failed = "missing"}

-----------------------------------------------------------------------------
Marks == {"/", "\\", ":", "a"}

NoInput == [kind |-> "none"]

PickFile ==
  \E f \in FilesOfSources \cup FilesOfRetries : input' = [kind |-> "file", file |-> f]
PickStart ==
  \E s \in Starts : input' = s
GrowArgs ==
  \/ input = NoInput /\ input' = [kind |-> "args", args |-> Base]
  \/ /\ input.kind = "args" /\ Len(input.args) < Len(Base) + MaxArgs
     /\ \E a \in Arguments : input' = [input EXCEPT !.args = Append(@, a)]
GrowPath ==
  \/ input = NoInput /\ \E c \in Marks \cup {"."} : input' = [kind |-> "path", path |-> <<c>>]
  \/ /\ input.kind = "path" /\ Len(input.path) < MaxPath
     /\ \E c \in Marks \cup {"."} : input' = [input EXCEPT !.path = Append(@, c)]

PickInput == (input = NoInput /\ (PickFile \/ PickStart)) \/ GrowArgs \/ GrowPath

-----------------------------------------------------------------------------
\* PipelineConfig::validate, which states what a file must satisfy, is called
\* by neither start nor reload; but what they require of the merged settings
\* amounts to the same, for a file that no flag overrides.
ValidationsAgree ==
  input.kind = "file" =>
    (validate_file(input.file) <=> build_run_config(Flagged(Tail(Base)), {input.file}) # {})

\* A reload never leaves the daemon with a mixture: if the changed file is
\* accepted, or found unchanged, then what runs now is what a restart with the
\* same arguments would run; for any command line in which no flag has
\* swallowed a --config.
ReloadIsRestart ==
  input.kind = "args" /\ ~ConfigSwallowed(input.args) =>
    LET watched == extract_config_path(input.args)
    IN  watched # {} =>
          \A before \in FewFiles : \A cfg \in parse_args(input.args, Disk(watched, before)) :
            \A after \in FewFiles :
              \A next \in parse_reload_run_config_from_contents(input.args, after) :
                CASE validate_reloadable_changes(cfg, next) = "accepted" ->
                       parse_args(input.args, Disk(watched, after)) = {[cfg EXCEPT !.retry = next.retry]}
                  [] validate_reloadable_changes(cfg, next) = "unchanged" ->
                       parse_args(input.args, Disk(watched, after)) = {cfg}
                  [] OTHER -> cfg # next

\* replay-failed and compact-state, given the --config and the --state-path of
\* the daemon, work on the journals the daemon writes, or refuse; and they
\* refuse only where the daemon uses its default path.
OneStateFile ==
  input.kind = "args" =>
    \A p \in parse_raw_cli_args(input.args), file \in FewFiles :
      LET disk == Disk(p.raw["--config"], file)
          raw  == [f \in Flags |-> IF f \in {"--config", "--state-path"} THEN p.raw[f] ELSE {}]
      IN  \A cfg \in parse_args(input.args, disk) :
            IF operator_state_path(raw, disk) = {} THEN cfg.state_path = DEFAULT_STATE_PATH
            ELSE operator_state_path(raw, disk) = {cfg.state_path}

\* A start succeeds only where check has nothing to say, and does succeed there
\* if the health address can be bound and Qdrant answers, even when another
\* process creates the collection at the same time.  A start that was to create
\* the collection leaves one.  What a start leaves behind, halfway or not,
\* changes nothing for the next check.
PreflightIsExact ==
  input.kind = "start" =>
    LET cfg   == input.cfg
        world == input.world
        start == start_running_system(cfg, world)
        answers == \A i \in 1..3 : world.qdrant.request[i] = "answered"
    IN  /\ start.started => validate_startup(cfg, world)
        /\ HealthServerBinds(cfg, world) /\ answers /\ validate_startup(cfg, world) => start.started
        /\ start.started /\ cfg.create_collection_if_missing => start.world.qdrant.rival = 1
        /\ validate_startup(cfg, start.world) <=> validate_startup(cfg, world)

\* Two documents share a name in the vector store only if their paths differ in
\* nothing but the direction of a slash: paths that both start at the root, or
\* both do not.  (A dot is a character like any other here.)
UrisAreDistinct ==
  input.kind = "path" /\ "." \notin ToSet(input.path) =>
    LET uri  == canonical_path_to_file_uri(input.path)
        path == Normalized(input.path)
    IN  \A other \in BoundedSeq(Marks, MaxPath) \ {<<>>} :
          /\ canonical_path_to_file_uri(other) = uri
          /\ (Normalized(other)[1] = "/") = (path[1] = "/")
          => Normalized(other) = path
=============================================================================
