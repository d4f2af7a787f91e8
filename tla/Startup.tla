------------------------------ MODULE Startup -------------------------------
(***************************************************************************)
(* What a configuration meets in the world: check and dry-run, which write *)
(* nothing (validate_startup), and the start itself (start_running_system, *)
(* whose order, failures and health states are in Lifecycle).  A world is  *)
(* a record of the two journals, the S3 environment, the health address    *)
(* and what becomes of the requests to Qdrant.                             *)
(***************************************************************************)
EXTENDS Settings

-----------------------------------------------------------------------------
(* prepare_startup.                                                         *)

CodeLanguages ==
  {"code:rust", "code:python", "code:javascript", "code:typescript", "code:tsx", "code:go",
   "code:java", "code:c", "code:cpp", "code:ruby", "code:bash"}
Singles == {"semantic", "recursive", "markdown"} \cup CodeLanguages

\* RecursiveConfig::validate, which every chunker goes through; what
\* SemanticConfig::validate asks for besides is refused before, in Chunking.
SizesValid(c) == c.size_min <= c.size_max /\ (c.size_max > 0 => c.size_overlap < c.size_max)

\* The chunker can be built: every chunker of a router is built with the same
\* sizes.
ChunkerBuilds(c) ==
  /\ SizesValid(c)
  /\ c.chunker_mode = "single" => c.chunker_single \subseteq Singles

\* The vector sizes of the OpenAI models the program knows.
OPENAI_EMBEDDING_VECTOR_SIZES ==
  [m \in {"text-embedding-3-small", "text-embedding-3-large", "text-embedding-ada-002"} |->
     IF m = "text-embedding-3-large" THEN 3072 ELSE 1536]

resolve_collection_vector_size(cfg) ==
  IF cfg.collection_vector_size # {} THEN cfg.collection_vector_size
  ELSE IF cfg.embed_backend.kind = "openai"
       THEN {OPENAI_EMBEDDING_VECTOR_SIZES[m] :
               m \in {cfg.embed_backend.model} \cap DOMAIN OPENAI_EMBEDDING_VECTOR_SIZES}
       ELSE {}

\* The key must be fit for a header.
ClientBuilds(backend) == backend.kind = "openai" => backend.api_key # "line\nbreak"

-----------------------------------------------------------------------------
(* QdrantSink::ensure_collection_exists: GET, PUT, GET.  Each request is    *)
(* "answered", "refused" with another status, or "lost": on the way there,  *)
(* or its answer on the way back.  Another process may create the           *)
(* collection before the request number q.rival (4: never).                 *)

\* Mutant: the answer of the second GET is not asked for.
EnsureOnce(q) ==
  /\ q.request[1] = "answered"
  /\ q.rival = 1 \/ (q.rival > 2 /\ q.request[2] = "answered")

ensure_collection_exists(q) ==
  LET created == q.request[2] = "answered" /\ q.rival > 2
      refused == q.request[2] = "refused" \/ (q.request[2] = "answered" /\ q.rival = 2)
  IN  /\ q.request[1] = "answered"
      /\ \/ q.rival = 1
         \/ created
         \/ (refused /\ q.request[3] = "answered" /\ q.rival <= 3)

\* Afterwards the collection is there; a PUT may be lost after it was done.
CollectionExists(q) ==
  \/ q.rival <= 3
  \/ q.request[1] = "answered" /\ q.request[2] = "answered"

-----------------------------------------------------------------------------
prepare_startup(cfg, world, writes) ==
  /\ ClientBuilds(cfg.embed_backend)
  /\ ChunkerBuilds(cfg.chunking)
  /\ cfg.create_collection_if_missing =>
       /\ resolve_collection_vector_size(cfg) # {}
       /\ writes => ensure_collection_exists(world.qdrant)

\* prepare_source_runtime: a bucket needs a region and credentials.
prepare_source_runtime(source, world) ==
  source.kind = "s3" => world.region /\ world.credentials

-----------------------------------------------------------------------------
(* A journal is "missing", or a "file" one may open and parse, or a         *)
(* "shut file", a "broken file" or a "directory".  world.above is what the  *)
(* nearest thing above the two journals is: a directory one may write in    *)
(* ("open"), one may not ("closed"), or no directory at all ("file").       *)
(* (check judges by the mode bits, start by opening: here the two agree.)   *)

\* A directory is opened like a file, but its first line cannot be read.
validate_state_journal(j, above) ==
  \/ j = "missing" /\ above = "open"
  \/ j = "file"

\* FileWal::open and FileFailedWorkStore::open: the directories above are
\* created, then the file is, and all of it is read.
OpenJournal(j, above) ==
  /\ above # "file"
  /\ j = "missing" => above = "open"
  /\ j \notin {"directory", "broken file", "shut file"}

-----------------------------------------------------------------------------
validate_startup(cfg, world) ==
  /\ prepare_startup(cfg, world, FALSE)
  /\ prepare_source_runtime(cfg.source, world)
  /\ \A j \in {world.wal, world.failed} : validate_state_journal(j, world.above)

\* parse_loopback_addr and bind.
HealthServerBinds(cfg, world) == cfg.health_addr # {} => world.health = "loopback and free"

\* The journals are there before anything else is known to work.
start_running_system(cfg, world) ==
  LET wal    == HealthServerBinds(cfg, world) /\ OpenJournal(world.wal, world.above)
      failed == wal /\ OpenJournal(world.failed, world.above)
      bootstrap == /\ failed
                   /\ ClientBuilds(cfg.embed_backend) /\ ChunkerBuilds(cfg.chunking)
                   /\ cfg.create_collection_if_missing
                   /\ resolve_collection_vector_size(cfg) # {}
  IN  [started |-> failed /\ prepare_startup(cfg, world, TRUE)
                          /\ prepare_source_runtime(cfg.source, world),
       world   |-> [world EXCEPT
                      !.wal = IF wal THEN "file" ELSE @,
                      !.failed = IF failed THEN "file" ELSE @,
                      !.qdrant.rival = IF bootstrap /\ CollectionExists(world.qdrant) THEN 1 ELSE @]]
=============================================================================
