# ragloom in TLA+

ragloom watches a directory (or an S3 bucket), chunks and embeds every document
in it and keeps a Qdrant collection in step with it. This directory holds a
specification of that program: modules translated from the Rust source, runs
of the TLC model checker on small instances, and theorems that TLAPS proves
for every instance. Line numbers refer to the commit the specification was
written from; `PROJECT.json` maps every definition to its lines.

    tlc -config IngestRestart.cfg MCIngest      # one run
    tlapm IngestProofs.tla                      # the proofs of a module

## 1. The system

    files --poll--> FileTailer --events--> Planner --append--> wal.ndjson
                                                                  |
                 runtime task:  new records / startup replay <----+
                        | bounded queue (128)                     ^
                        v                                         | acks
                 worker: load, chunk, embed, upsert/delete -------+
                        | retries (in memory)      \--> Qdrant
                        v given up
                 failed.ndjson  --replay-failed (operator)--> wal.ndjson
                 both journals  --compact-state (operator)--> shorter journals

| Component | State | Operations | What makes it correct |
|---|---|---|---|
| write-ahead log (`state/wal.rs`) | a file of records, an append handle | open, append, read_all; derived: `unacked_work_items`, `known_live_document_paths` | what was acknowledged is never replayed, what was not is; an append that returned survives; a damaged file is not used |
| failed-work journal (`state/failed.rs`) | a file of exhausted and requeued records | append_exhausted, pending, next id | an id names one piece of work for ever |
| compaction (`state/compact.rs`) | a temporary file | rewrite both journals | nothing any reader of the journals needs is dropped |
| planner (`pipeline/planner.rs`) | planned versions, planned deletes | plan_file_version, plan_file_delete, restore from the log | each version and each removal is planned once |
| directory scanner, S3 source, tailer (`source/*`, `s3.rs`) | last seen version of each path | walk or list, observe, complete_scan, drain | the planner is told nothing that was not so, never goes back, and ends up knowing what is there |
| runtime task (`pipeline/runtime.rs`) | position in replay, tick, sending | replay, tick, collect, send, stop | every planned record reaches the worker, in order |
| worker (`pipeline/runtime.rs`) | the item at work, queued retries | execute, acknowledge, retry, give up | acknowledged means applied; every error is judged by its kind; nothing is given up early or tried for ever |
| executor and sink (`pipeline/runtime.rs`, `sink/*`) | points of the collection | upsert, delete by doc_id, create the collection | the points of a document are its chunks |
| operator commands (`startup.rs`) | pending work, position | replay-failed, compact-state | may be killed and run again |
| process (`main.rs`, `config/reload.rs`) | step of the start or the shutdown, tasks, exit reason, health, active configuration, live retry policy | start, wait for ctrl-c or the runtime's exit, reload, drain | a stop at any moment loses nothing |
| metrics, summary (`observability/metrics.rs`) | counters | record, render | they say what is the case |
| health endpoint (`observability/health.rs`) | status | mark, answer a request | ready means serving; an answer does not depend on how the request arrives |
| chunkers, router (`transform/chunker/*`) | none between calls | choose a chunker, chunk a text | no character but white space is lost, none is doubled without an overlap, sizes are kept, a fingerprint names what it makes |
| command line and configuration (`startup.rs`, `main.rs`, `config/*`) | none between calls | parse, merge, validate, check | reload and restart mean the same, check foresees the start, every command means the same journals |
| loaders, embedding clients (`doc/*`, `embed/*`) | none between calls | load, embed | an answer, or an error of the right kind |
| logging, release tooling | none | | their unit tests |

What is hard here is the composition. Three parties read and write the log:
the runtime task and the worker, who share a mutex the first one only tries to
take, and the operator between two runs. A document is identified by its path
while work is identified by a version of it, and the worker loads whatever
version is there when it comes to it. The sink is remote: a request may fail
after it has taken effect. The process may end between any two steps and
rebuilds three pieces of memory (replay, planner, tailer) from the log by three
different rules. `PROJECT.json` lists the hazards at their lines with the
properties that guard them.

## 2. Modules

| Module | Models | Remarks |
|---|---|---|
| `Selection` | the filter of an iterator: the entries of a sequence at some positions | `Kth`, `Keep` |
| `WalLog` | the log as a value: records, unacknowledged work, live paths, the planner's memory, compaction | extends `Selection`; each reader as a definition by positions in the log, not by a pass over it |
| `WalScan` | the single passes over maps and sets the code really makes | compared with `WalLog` on every small log |
| `FailedJournal` | the failed-work journal as a value, its compaction | extends `WalLog` |
| `Logs` | every log and every journal, grown one record at a time, and what compaction promises of them | extends `FailedJournal` |
| `Watch` | the promise of a polled source: tell versions of a path's history, never an older one, settle | abstract specification |
| `SourceScan` | the walk of a directory tree and the listing of a bucket while both change, the tailer, restarts | extends `Selection`; implements `Watch` |
| `Chunker` | the recursive splitter with its binary searches, the Markdown, code and semantic chunkers around it, the fingerprints | pure functions on byte sequences |
| `DocSync` | the promise, without logs and retries: publish a content the file has had, never an older one; retract what was removed; converge | abstract specification |
| `Ingest` | files, tailer, planner, runtime task, queue, worker, log, journal, sink, start, crash, shutdown | extends `FailedJournal`; implements `DocSync` |
| `Operator` | replay-failed and compact-state around `Ingest` | extends `Ingest` |
| `JournalFile` | one journal file: system calls, kills, write errors, power loss, rewrite through a temporary file | |
| `PointStore` | points of the collection: ids, neighbours, strategies, upsert, delete | refines what `Ingest` calls publishing a content |
| `CommandLine` | the arguments | pure functions |
| `Settings` | files and flags merged into a configuration; what a reload may change; the operator commands' state path | extends `CommandLine` |
| `Startup` | check and start in a world of journals, environment and Qdrant, the creation of the collection | extends `Settings` |
| `Names` | URIs of documents, S3 paths, the three notions of an extension | pure functions on character sequences |
| `Attempt` | one attempt at a document as the errors see it: loader, chunker, embedding, sink; the retry policy and its pauses | extends `Settings`, `Names` |
| `HealthEndpoint` | one connection to the health endpoint | pure functions |
| `Lifecycle` | the process around the ingest: start, select loop, configuration reload, health, monitor, shutdown | the tasks appear only by how they begin and end |
| `Gauges` | metrics and the summary's window along the steps of `Ingest` | extends `Ingest`; each action of `Ingest` with its counters |
| `IngestProofs`, `RestartProofs` | theorems about `Ingest`: its types, work under way, the order of versions and planning; then updates of files, and what `Operator` puts between two lives of the daemon | section 5 |
| `InputProofs` | theorems about the inputs of `MCConfig` and `MCWork`: starts, attempts, URIs, extensions | section 5; extends `MCWork`, whose properties it proves for inputs of every kind and length |
| `SourceScanProofs`, `LogsProofs`, `JournalFileProofs`, `PointStoreProofs`, `LifecycleProofs` | theorems about the modules they are named after; `IngestProofs`, `JournalFileProofs`, `RestartProofs` and `SourceScanProofs` take facts about `Keep` and about logs from `LogsProofs` by `INSTANCE` | section 5 |
| `MCIngest`, `MCOperator`, `MCFunctions`, `MCConfig`, `MCWork`, `MCEnds`, `MCLifecycle`, `MCGauges` | constants for TLC | `MCFunctions` grows the logs of `Logs` and all small texts, with the inputs of `MCConfig` (files, command lines, starts, paths) and `MCWork` (attempts, retries, requests); `MCEnds` puts `SourceScan` and `PointStore` side by side |

### How Ingest corresponds to the code

A *stamp* is the fingerprint of a file (size, mtime, etag) and its content at
once. `files[p]` is the stamp now, `Gone` if there is no file; `history` and
`removed` remember what was there and exist only for the properties. `sink[p]`
is the content last upserted for the document; `PointStore` shows what its
points then are.

Actions of the runtime task (`AsyncRuntime::start`, runtime.rs 1186-1351):
`RtReplay` reads the unacknowledged records at startup; `RtSend` sends one record and then looks for the shutdown
signal; `RtPoll` takes the length of the log and polls the source once;
`RtPlan` is one iteration of `Runtime::tick` with the planner's call in it,
`try_lock` and append included; `RtCollect` reads the log again and takes what
has been added. `RtFail` is each of the places where the task publishes an exit
reason and ends. Actions of the worker
(`run_worker_with_retry_inner`, `AckingExecutor`, `PipelineExecutor`):
`WkTake` takes a retry or else a record; `WkLoad` loads the file, extracts,
chunks and embeds; `WkUpsert` and `WkDelete` are the requests to the sink,
which fail with or without effect; `WkLock` and `WkAck` append the
acknowledgement under the mutex; `WkFail` schedules a retry or writes the
failed-work journal. Process: `Start` is `start_running_system`, which seeds
the tailer and builds the planner; `RequestShutdown`, `WkEnd` and `Terminate`
are the orderly end; `Crash` is any other end.

The granularity is that of awaits. On a single-threaded tokio runtime the two
tasks interleave only there, and the log's mutex is never found taken
(`MultiThread = FALSE`); with worker threads (`MultiThread = TRUE`, what
`#[tokio::main]` gives) every access to the log is a step of its own. `RtPoll` merges the read of the log's length with the poll that
follows it; what the worker appends in between is counted or not, which
changes only whether `RtCollect` also sends that acknowledgement to the worker,
who ignores it. A scan is atomic here; `SourceScan` has its steps.

Two history variables mark what the program later cannot make good, so that
`NoLostUpdate` can say exactly what it promises: `unwatched`, the paths whose
removal a start does not watch for (section 6) or whose planned delete was not
sent (`IngestLost`), and `overtaken`, those with a stale delete
(`IngestStaleDelete`). A path is `Settled` when nothing is under way and nothing
has failed; that a delete has failed is asked of the log and the journal both,
since the log alone may not show it (section 6, one pending delete).

### How SourceScan corresponds to the code

One action per answer of the outside world. `ReadDir` lists a directory and
`Visit` asks for the metadata of a file that was listed; either may find that
the owner has changed the tree or the permissions since. `ReadPage` is one key
of the S3 listing, `ListFails` any error of it, which leaves
`observe_bucket_once` by `?` before anything is observed. `EndScan` is what
follows in one piece: the observations in the order of the paths,
`complete_scan` and `drain`. `Plan` hands the events to the planner one by one.
`Restart` seeds the next tailer with the paths the log knows as live and with
no version, as `with_previously_observed_paths` does.

A file system shows the size and the second of a content (`Stat`), a bucket its
etag too; two contents of the instance show alike on a file system. `Watch`
speaks of what there is to see, so a change that does not show is none. What
cannot be read counts as gone: this is what the code does, and `Watch` says of
it that the planner is told so only if it was so when the poll looked.
Symbolic links and special files are not scanned by the code and left out, and
so are names that are not UTF-8. The planner here is one that accepts every
event; its refusals and failures are in `Ingest`.

### How PointStore corresponds to the code

A point id is the tuple that `uuid_from_path_chunk_strategy` hashes; a
`doc_id` is the URI it hashes. A text is a stamp and a length, a strategy is
the chunk size. `Load`, `Embed` and `Upsert` are the steps of `execute` for a
`WorkItemV2`, `Delete` the one for a `DeleteDocument`; a failing request
writes any part of its batch. The payload's size and mtime are those of the
planned fingerprint while the text is the current one (`stamp`, `text`).

### How JournalFile corresponds to the code

A line is two system calls (`WriteText`, `WriteEnd`), as `writeln!` on an
unbuffered `File` makes them, and `sync_data` is the third. `AppendError` is an
error of any of them: the handle stays open and the next append goes on.
`CreateTemp` ... `SyncRename` are `rewrite_journal_file_with_temp_path`; any
subset of the records may be kept, as which ones are is the subject of `Logs`.
`promised` has the records whose append returned Ok and which no compaction has
dropped.
`Kill` leaves what was written; `PowerLoss` leaves what was synced and any
beginning of the rest, and may undo a directory entry that was not synced.

### How Chunker corresponds to the code

Sizes are characters and offsets are bytes, in the code and in the model, since
this is what the two binary searches and the loops around `is_char_boundary`
are about. A byte is one of six kinds, those the splitter tells apart; a wide character has four bytes, the most
UTF-8 allows and what `advance_to_budget` counts on. `chunk_impl` is a
recursive function over the cursor. Where pulldown-cmark, tree-sitter or the
sentence segmentation cuts, and which sentences the embeddings separate, is any
choice; the code chunker may leave gaps between declarations, which are pieces
of their own, so it too cuts at any offsets. `split_at_delimiters` of the
`chunk` crate is taken to end a segment at every `\n`. The kind of a boundary
is not kept: nothing reads it. Four characters reach a window with several
boundaries, a forced end between wide characters, a cut between `\r` and `\n`,
and an overlap that would step back behind the cursor. The fingerprints keep the
numbers of a configuration; the metric, the tokenizer, the language and the
provider are the same throughout, so that only the numbers could make two
configurations share a fingerprint.

### How Lifecycle corresponds to the code

`main` is the step the main task comes to next: the steps of `try_main` and
`start_running_system` in their order (`StartOrder`), each of which may fail
and leave by `?`; then `select`, the loop; then the steps of
`RunningSystem::shutdown` (`ShutdownOrder`). Some errors of the start return
without `mark_startup_failed` (`Unmarked`), so the endpoint says `starting`
until the process is gone. The process is taken to run with `--config`. A
content of the file is what the command line makes of it: `rest` for
everything that cannot be reloaded, and the retry section. Flags win field by
field (`Merged`), and it is the merged policy that is validated, at the start
and at every reload; `PipelineConfig::validate` is called by neither. The file
is read twice at the start, by `Parse` and by `Watch`; an edit in between
(`missed`) is taken for the content in force and ignored until the next edit.
`MonitorWakes` does not look at the shutdown and may put its reason over
`shutting_down`. Histories for the properties are `observed`, `missed` and
`failed_at`.

### How CommandLine, Settings and Startup correspond to the code

An argument is its text up to a `=` and the value behind it; a value is one of
a few strings, `blank` among them. An option is a set of at most one element,
and so is a result: it is empty where the code returns an error.
`parse_raw_cli_args` folds over the arguments as the loop in startup.rs does.
`build_run_config` is the merge of flags, file and defaults in its order, with
the checks that can fail it; `validate_file` is `PipelineConfig::validate`;
`validate_reloadable_changes` compares field by field. `extract_config_path`
is main's own look for `--config`, and `operator_state_path` what
replay-failed and compact-state make of their flags.

`validate_startup` (check and dry-run) and `start_running_system` meet a world:
the state of both journals and of the directory above them, the S3 region and
credentials, the health address, and the fate of up to three requests to
Qdrant, with the request before which another process creates the collection.
A start yields whether it succeeded and the world it leaves. The order of its
steps and its failures as a process are in `Lifecycle`.

### How Attempt corresponds to the code

A document is its path, what its bytes are, and how many sentences it has; a
world is what the loader, the semantic chunker's embeddings, the embedding
service and the sink answer. Every part yields the kind of its error as the
code gives it: S3 paths of another bucket are invalid input, a panic in the
read task is internal, whatever fails in a chunker is internal
(error.rs 158-162), so is a vector too few. `execute` has
them in the order of `PipelineExecutor::execute`. `AfterError` is the
decision of the worker with `should_retry` and `delay_before_attempt`;
durations are natural numbers, since a multiplication that saturates is far
above any maximum, and the exponent has the bound `MaxShift` (31 in the code).

### How Names and HealthEndpoint correspond to the code

A path is a sequence of characters, those the functions tell apart and one
more; an extension may stand in it as one character. `hint_extension` is
`ChunkHint::from_path`, `Path_extension` the standard library's, and
`file_extension_from_canonical_path` what goes into the payload. A request is a
sequence of the bytes of its header, where a method or a target is one; it
arrives in reads of at most `Buffer` bytes, and `Limit` bytes are answered even
without a blank line.

### How Gauges corresponds to the code

Every action of `Ingest` is extended by what the code counts in the same
step. `record_work_queued` is an action of its own, since it runs after the
send and on another thread the worker may come first. `record_discovered` is
part of `RtBatchSent`, after the last record of the batch, as in the code.

## 3. Runs

| Run | Instance | What it shows |
|---|---|---|
| `Functions` | every log of up to 4 records over 2 paths, 2 versions and a legacy chunk; every journal of up to 5 records over 3 ids; every text of up to 4 characters (a full stop, a space, `\n`, `\r`, a character of 4 bytes), maxima up to 3 (a minimum of 0 with a maximum of 2 only: no piece is empty, so it acts as 1); every configuration file with one group of settings varied; every command line of up to 3 words behind a fixed beginning; starts of many configurations in many worlds; every path of up to 4 characters; attempts at 9 paths with every kind of bytes in every world; pairs of retry policies; requests of up to 12 units with `Limit` = 8, in every split into reads of 1 or 2 | `ScansAreExact`, `CompactionIsUnseen`, `CompactionKeepsPending`: the code's passes and searches compute what is defined, and no reader notices a compaction. `NothingLost`, `WithinBudget`, `FingerprintNamesCuts`: the chunkers. `ValidationsAgree`, `ReloadIsRestart`, `OneStateFile`, `PreflightIsExact`: the configuration. `UrisAreDistinct`, `ExtensionsAgree`: names. `WorkIsJudged`, `RetriesEnd`: attempts. `AnswerIgnoresPackets`: health requests |
| `JournalFile` | 4 appends, 3 failures of any kind | an append that returned is in the file whenever the file opens |
| `IngestRestart` | 1 document, 3 changes, 1 fault that is retried, 2 crashes or shutdowns, single thread | no update lost, no work dropped, planned twice or given up early; acknowledged means applied; `DocSync` implemented |
| `IngestParallel` | 2 documents (symmetric), 2 changes, 1 fault of the sink or of a file operation, two threads | the same where the tasks meet at the mutex; the order invariant of the proofs |
| `IngestLive` | 1 document, 2 changes, 1 fault, 1 crash, a log of an older release | `DocSync` with convergence, under the fairness of section 4 |
| `Operator` | 1 document, commands killed anywhere; either 2 changes, 1 fault, 1 crash and 2 commands, or 3 changes, 2 crashes, 1 command and a log of up to 4 records (`Histories`) | requeued work is replayed or was settled; ids are unique; `InSyncAfterCommands`: no update is lost in the daemon's next life, with two exceptions (section 6) |
| `Ends` | a source (directory or bucket) with a file in its root and one in a directory, 3 contents, 2 changes, a failed listing, a restart; and 2 documents, 2 strategies, texts of up to 3 units, 2 changes, 2 failures or restarts | `ImplementsWatch`: the source implements `Watch`, settling included; the chain of chunks is the document; a delete leaves nothing; repeating changes nothing |
| `Lifecycle` | 5 contents of the file, one retry field pinned by a flag, 2 edits, any step may fail | the policy is the last good one and follows the file; no edit ends the process; ready means serving and comes once; the shutdown ends, with the queue drained |
| `IngestLost`, `IngestStaleDelete`, `JournalTruncated`, `GaugesIdle` | small | disagreements with what the repository says, section 6 |

Why the bounds are enough. The counters bound what the environment does, never
what the program does. Three changes of a file reach remove, write, remove with the
two deletes meeting in the log. One fault with two attempts reaches success,
retry, give-up with and without effect; a missing file fails without using up
the fault, so that a second failure is there too. Two outages reach a crash
while the replay of an earlier crash is under way. A queue of one record
makes the sender wait; the worker's retry queue never holds more than one, as
`GivenUpLast` shows. `IngestRestart` leaves out errors that are not retried (`FatalFaults = FALSE`); `IngestParallel`
has them. Two edits reach a rejected content and the way back to the one in
force, and a failed read followed by a change. Four records are what it takes for two readers of the log
to disagree about a path (work, delete, work, acknowledgement), and five for a
journal whose compaction has lost the largest id. Three words reach a flag that
swallows the next one, a repeated `--config`, and a flag against the file. Six
attempts go past the bound of the exponent (`MaxShift` = 2). Two changes of a
tree and a restart reach a directory that is hidden during the walk and back
before the next one, and a removal that nobody was there to see. For `Operator`
the shortest histories that need `revived` or `forgotten` in
`InSyncAfterCommands` lie within one or the other half of `Histories`, a bound on
the states TLC goes on from: without either exception the run fails. That the present
version must not be pending matters only beyond the bounds, with 2 crashes, a fault
and 2 commands.

A type invariant is checked where it is proved, by `IngestRestart`.

`CHECK_DEADLOCK FALSE` everywhere: the instances stop when their bounds are
used up, and the journals' logs stop at their length.

## 4. Fairness

`Synced` assumes `Fairness`: the runtime task is polled when it can move (weak
fairness, tokio), the worker too (strong fairness: on a single thread it is
disabled again and again while the runtime task is within a tick, and gets its turn at the
await between two ticks), main reacts to the exit reason and ends the process
when the worker is done, and something starts the process again. The last is
not in the repository's code but in its deployment: without a supervisor a
runtime task that has failed is the end of ingestion. No fairness is assumed of
the environment: faults and crashes are bounded, not fair. There is no
fairness of the sink: it fails at most `MaxFaults` times.

`Lifecycle` assumes that tokio polls the main task, the runtime task and the
monitor when they can move, that `select!` polls each of its branches in every
round (a round lasts at most `CONFIG_RELOAD_POLL_INTERVAL`), and that the
worker comes to the end of its queue. No fairness is assumed of ctrl-c, of
edits, or of a failure of the runtime task.

`ImplementsWatch` assumes that the polling task goes on whenever it can
(`WF_vars(Scan)`: tokio polls the runtime task, and its loop polls the source
again after every sleep). None is assumed of the listing: it fails at most
`MaxFaults` times.

Convergence is proved for nothing and checked by `IngestLive` only, with
`FatalFaults` and `LogFaults` FALSE and a single thread: an error that is not
retried leaves the work in `failed.ndjson` for the operator, so the sink need
not converge without one; and with two threads a record may be skipped
(`IngestLost`).

## 5. Proofs

TLAPS proves, for every value of the constants that satisfies the assumptions:

| Theorem | States | Assumes |
|---|---|---|
| `IngestProofs!TypeCorrect` | `Spec => []TypeOK` | `ConstantsAssumption` |
| `IngestProofs!OrderKept` | `Spec => []InOrder`, by the invariant `IInv == Typed /\ InOrder` | and `FreshStamps` |
| `IngestProofs!AckedIsApplied` | `Spec => AckMeansApplied` | and `FreshStamps` |
| `IngestProofs!ImplementsDocSync` | `Spec => SafeSync`, the safety part of `DocSync` | and `FreshStamps` |
| `IngestProofs!PlansOnce` | `Spec => []PlannedOnce`, by `PlanInv` | and `FreshStamps`, `~ LogFaults`, legacy chunk ids are no fingerprints |
| `IngestProofs!TriedToTheEnd` | `Spec => []GivenUpLast`, by `WorkInv` | `ConstantsAssumption` |
| `IngestProofs!LosesWorkInTwoWindows` | `Spec => WorkIsLostOnly`: which steps lose sight of work | `ConstantsAssumption` |
| `IngestProofs!NoWorkIsLost` | `Spec => []NoLostWork`, by `WorkInv` | and `~ MultiThread`, `~ LogFaults` |
| `RestartProofs!LosesNoUpdate` | `Spec => []NoLostUpdate`, by `SyncInv` | as `PlansOnce` |
| `RestartProofs!NoIdTwice`, `MarkedIsInLog` | `OpSpec => IdsAreUnique`, `OpSpec => RequeuedIsReplayed`, by `OpInv` | `ConstantsAssumption` |
| `SourceScanProofs!SourceScanKeepsPromise` | `Spec => SafeWatch`, the safety part of `Watch`, by `ScanInv` | `ScanAssumption` |
| `LogsProofs!CompactedLogIsAsGood`, `CompactedJournalIsAsGood` | `LogsSpec => []CompactionIsUnseen`, `LogsSpec => []CompactionKeepsPending` | `LogsAssumption`: ids are numbers |
| `JournalFileProofs!KeepsPromises` | `Spec => []NoSilentLoss`, by `JournalInv` | `EntryDurable` |
| `PointStoreProofs!ReadsTheDocument`, `DeletesAll` | `Spec => []ChainIsDocument`, `Spec => []DeletedLeavesNothing`, by `StoreInv` | `StoreAssumption`, `UrisDiffer` |
| `PointStoreProofs!RedoIsHarmless` | `Spec => AgainChangesNothing` | `StoreAssumption` |
| `LifecycleProofs!PolicyIsLastGood`, `ReloadIsHarmless` | `Spec => []LastGoodActive`, `Spec => []ReloadNeverEnds`, by the invariant `ConfigInv` | `LifecycleAssumption` |
| `LifecycleProofs!ReadyMeansServing`, `ReadyOnce`, `ExitIsClean` | `[]ReadyIsServing`, `NeverReadyAgain`, `[]CleanExit`, by `ProcessInv` and `ConfigInv` | `LifecycleAssumption` |
| `InputProofs!StartIsForeseen` | `PreflightIsExact`: `check` and the start agree | a world of `AllWorlds`; the flag to create the collection is a Boolean |
| `InputProofs!EveryAttemptIsJudged` | `WorkIsJudged`: what an attempt ends in | a document with a number of sentences, a source and an embedding backend of the two kinds there are |
| `InputProofs!UrisDistinguish` | `UrisAreDistinct`: no two documents share a URI | a path over the characters of `Marks` and dots, not empty |
| `InputProofs!ExtensionsMeet` | `ExtensionsAgree`: loader, router and payload agree on an extension, and an S3 object is fetched by its key | a path over any characters, not empty |

`ConstantsAssumption` (in `Ingest`) says what `RetryPolicy::validate` and the
types of the fields enforce: at least one attempt, room for a retry where there
are retries, a queue with room. `FreshStamps` says that a write gives the file a
fingerprint it never had (section 6 has what happens otherwise). `~ LogFaults`
says that the log and the journal can be read and written; otherwise a start may
come up with an empty memory of what was planned, and giving up work may leave no
trace. `~ MultiThread` is a runtime with one thread: with two, `IngestLost`
shows the work that is lost. `ScanAssumption` says that files and
directories form a tree (`IsTree`: between a directory and what is somewhere in it
lies, or is, one of its entries) and that paths have an order. `UrisDiffer`, different documents have different
doc_ids, is for the URIs themselves what `UrisDistinguish` proves, but for paths that differ
only in the direction of slashes: the documents of one source are under one root or
in one bucket, so that all their paths start at the root or none does. `EntryDurable` is a file system on which a synced file cannot
vanish (section 6 has what happens otherwise). There is no assumption about the number of paths, of
changes, of faults or of crashes.

**Order.** For the theorems that assume `FreshStamps` the stamps must be ordered
from the files to the sink. `InOrder` says that nothing in the tailer, the
events, the log, the queue, the worker or the sink is newer than the file, that a
delete is only there for a path that was removed, that a text on its way to the
sink is at least as new as the version it was planned for and as what the sink
holds, and that the sink already holds what the worker is about to acknowledge.
The last two are what makes a retry after newer work harmless, and from them
both action properties follow step by step: only `WkUpsert` and `WkDelete`
move the sink, only `WkAck` appends an acknowledgement. The proofs have one step
per action and under it one per conjunct the action can touch; `ProgramKeeps`
collects what a step that leaves the files alone keeps. `InOrder` is also an
invariant of `IngestParallel`.

**Planning.** `PlannedOnce` speaks of the log alone, the code decides by the
planner's memory. `PlanInv` ties them: while the runtime task plans, the memory
is exactly the versions that have a record in the log (`Remembered`, also across
`from_wal_records`) and every delete still open is in it (`OpenRemembered`). An
acknowledgement could put a version into the rebuilt memory that has no work
record, so each one is shown to have one (`AcksHaveWork`, from `FromLog`: what
the worker holds is in the log). A delete empties the memory of its path; that
no older version is planned after it needs that the file has moved on, and no
event still carries that version (`GoneForGood`).

**Work.** `WorkInv` adds to the types that a retry is taken before anything else,
so that at most one ever waits (`RetryNext`; from it the bound on queued retries
never ends a retry early, which is `GivenUpLast`), and that nothing planned is
unsent outside the tick. `KeepsWork` then says for each action which record leaves
`InFlight \cup Journaled`: none unless it is acknowledged, requeued by a crash, or
lost in one of the two windows `WorkIsLostOnly` names. `NoWorkIsLost` is that
theorem where neither window exists.

**Updates.** `NoLostUpdate` says that a settled document is in sync. Nothing in it
is inductive: that the sink agrees with a file when all is quiet rests on what
was in which order on its way before. `SyncInv` takes the invariants above
(`PlanInv`, `WorkInv`) and adds three parts.

- What the tailer knows (`ScanInv`): a version it has seen is an event or in
  the log (`SeenPlanned`), the versions of a document are logged in the order
  they were written (`Rising`), and what `Start` found in the log is still true
  when the replay reads it (`AtReplay`).
- What is under way, in the order the worker gets to it. `At(n, r)` gives each
  record its places: the worker with its retry, the queue, the part of the log
  still to be sent; `Behind(r, q)` says that a place of `q` comes after one of
  `r`. Most steps move records from place to place and change neither what is
  under way nor its order (`KeepsFlight`, proved with a map of places for each
  such step); `SyncSteps` leaves five others: a planned record comes last, the
  worker is done with its record, a tick is dropped, the process ends, the log
  is replayed.
- What then holds of the sink. A file that is there: no delete of it is behind
  its present version, and once that is acknowledged the sink holds it and no
  delete is to come (`Current`); each version is under way once (`Once`). A file
  that is gone: once the program takes it to be deleted (`Away`), all work on it
  is followed by a delete, and that delete is under way, pending in the log or
  in the journal unless the document is gone from the sink (`Covered`). Over a
  restart only the log carries this: a document whose delete was acknowledged
  last, with all its work acknowledged, is not in the sink (`Durable`).

The two exceptions of `NoLostUpdate` come up where they bite: `unwatched` in the
steps of `Covered` for `Start` and for a dropped tick, `overtaken` in the step of
`Current` for the replay.

**Sources.** A walk is no snapshot: by its end the tree may be none that ever was.
`ScanInv` says path by path what a poll knows. While the walk goes on, each path is
either still ahead of it, because it or a directory above it is on the stack, or
has been seen: what was found is what its history held when it was looked at, and
what was not found could not be seen then (`Walk`). `ReadDir` is the step where
this is in danger, for a directory takes the place of everything below it: by
`IsTree` a path below it either is, or lies below, an entry, and stays ahead, or is
a file that is not there. A directory that cannot be read settles all paths below
it at once, and that is right, for none of them can be seen without it. Nothing is
come to twice (`Apart`), so a second look cannot overwrite what the first one
found. What was seen is at or after what the planner was told last (`Recorded`),
so each event is a step of `Watch`; failed listings and restarts drop only what was
not told yet (`LostInv`).

**Journals as values.** `compact_wal_records` and its sibling keep the records
at a set of positions. `Keep` gives them as a function of the rank (`Kth`), and
`Kept` shows that ranking is monotone and loses nothing, by induction over an
interval as the library's well-founded order on sets; so what the readers say of
the compacted log can be said of positions in the first one. From there
`LiveIsKept`, `NothingComesBack` and `CompactingTwice` take one reader each; that
compaction is idempotent needs that each kept position is kept again
(`CompactedAt` of the result is its whole domain). For the failed-work journal the
highest id is kept even when it is not pending, as an exhausted record and its
mark (`HighestPair`), and `NothingToSpare` shows that nothing else is.

**The journal file.** `NoSilentLoss` speaks of the file the path names. After a
power loss that may be another one: a former file (`former`) and of each any
beginning that goes at least as far as what was synced. So `JournalInv` asks of
every file the path may come to name that the records promised lie in its synced
part (`Holds`) and that its records are in order (`Orderly`), and of the process
at work that the record it is about to sync is in the file, and what it is about
to rename is on the disk (`AtWork`). A promise is made by `Sync` and by nothing
else, and there `EntryDurable` is needed: a former file does not have the new
record, so none may come back. `Rename` keeps the old file as a former one and
needs nothing, since it holds what the new one holds and more. Write errors and
kills are the easy part: they leave a part of a record behind all others
(`StopKeeps`).

**Commands.** Ids stay unique because an id is given above every id the journal
still has, and compaction keeps the highest (`UsedUp`); both theorems hold for
commands killed at any step because the daemon and a command never run together
(`Alone`).

**Points.** `StoreInv` says that each point belongs to a document that has not been
deleted since (`PointsKnown`), that ids are unique, and that a document shown has
all points of the text ingested last (`Complete`); of a longer text before it the
surplus points may remain, and the chain does not reach them. `ReadsTheDocument` then follows the chain by induction over
the index of the chunk.

**Lifecycle.** `LastGoodActive` speaks of the worker's policy; what the next
reload is compared with is `active`. `ConfigInv` ties both to the last good
content, and `LastGoodGrows` says what one more content does to it. The merged
policy of a content that builds is valid, so the error exits of a reload are
dead code (`ReloadSucceeds`). `ProcessInv` says for each step of the start what
already runs (`StartInv`) and for each step of the shutdown what is already gone
(`CloseInv`); the properties of the health state need both, since the monitor
and the runtime task move while main is at any of these steps. It rests on
`ConfigInv` in one place: the policy in `active` is one.

**Inputs.** `MCFunctions` tries all small inputs; `InputProofs` speaks of every one.
A start and `check` go through the same journals in another order and at another
time: the start has already created files when it comes to the second journal, so
what is shown is that a journal `check` accepts can still be opened then
(`JournalsAgree`), and that the collection is asked for the same way whoever else
creates it. An attempt stops at the first of its stages that fails (`FirstErrorIs`), and a
document of any length has one point for each chunk (`PointsOfChunks`). A URI could
mean two paths where one gets a root it does not have and the other has one
already; then the first has a drive one place further on, and would have got a root
too (`ShortAndLong`). The three extensions are all what stands behind the last dot
of what stands behind the last slash (`LastMark`); they part only at a dot in front
(`PartsOfName`) and at a backslash, which is a slash to two of them (`SameName`).

Only model-checked: the functions that fold over records, arguments and texts or
call themselves (`ScansAreExact`, the chunkers, `OneStateFile`, `ReloadIsRestart`,
`ValidationsAgree`, `AnswerIgnoresPackets`), since what a recursive definition
computes for every input is an induction over data; `RetriesEnd`, whose pauses are
powers of two, which the provers do not know; and `InSyncAfterCommands` (section 7). Out of the prover's reach: convergence, the settling
of `ImplementsWatch`, `FollowsFile` and `ShutdownEnds` (liveness under
fairness).

## 6. Where code and documents disagree

Each of these is a run that TLC ends with a counterexample.

1. `IngestLost`: a planned record is not sent. After the tick the runtime task reads
   the log again; if the worker holds the mutex at that moment the loop starts
   over, and the next round counts the record as old. It waits in the log for
   the next start (runtime.rs 1269-1276).
2. `IngestStaleDelete`: a delete that failed stays pending though the document
   came back and was ingested; the next start replays it, the points are gone,
   and no scan plans the known version again (wal.rs 249-254).
3. `JournalTruncated`: a last line without its line end is accepted; the next
   append joins it and the journal cannot be opened from then on.
4. `GaugesIdle`: files are counted as pending after they were sent. A worker
   that finishes before that counts down from 0, which stays 0; the count is
   then too high for good, and the summary of an idle window is never emitted
   (runtime.rs 1321-1331).

The models also reproduce these, some when a constant is changed. They are
minor, or no document promises otherwise, so there is no run for them:

- Compaction keeps one version per path (compact.rs 40-60): an unacknowledged
  version that another has followed is dropped, so a restart replays less than
  it would have, while README.md:544 of the repository says "without changing
  replay semantics". Harmless where the sink gets the current content anyway.
  Where a delete has followed it is not: work that was given up is replayed in
  front of its delete, finds the file back and ingests it; the process is killed
  before the acknowledgement, the file removed, the state compacted. Nothing
  knows of the document any more, and it stays in the sink. The same comes of
  requeued work that runs behind a delete and is killed before its
  acknowledgement, for which the log shows an earlier one (`forgotten`).
- replay-failed appends a delete that was given up behind whatever the log says
  of the document by then (startup.rs 757-769): if the document came back
  and was ingested, the next start removes it, and no scan plans the known
  version again (`revived`). Finding 2 is the same without an operator.
- The log has one pending delete per path, which any acknowledgement of a delete
  of that path settles (wal.rs 252-257). A document that comes back and is removed
  again while its delete runs gets a second delete before the first is
  acknowledged; that acknowledgement hides the second one, which may still fail,
  so that a stop before its retry loses it. `Settled` therefore asks the journal
  too.
- A document that became shorter keeps its former last points, whose
  neighbours do not name them (`Upserted` removes none; README.md:680-683).
- An edit of the configuration between its two reads at the start is ignored
  until the next edit (`missed`).
- The planner's `try_lock` fails when the worker holds the mutex
  (`MultiThread = TRUE`): the tick returns an error and the runtime task ends,
  and with it the process, with exit code 0 (`BeginShutdown` in `Lifecycle`).
- A removal while the process is down goes unnoticed when the last record of
  the path is a delete and older work on it is replayed (`unwatched`; the README
  of the repository, 481-487, restores "the set of previously observed document
  paths").
- With `FreshStamps = FALSE` a file that gets a fingerprint it had before is not
  ingested again: `NoLostUpdate` fails.
- With `EntryDurable = FALSE` in `JournalFile` (a file system on which syncing a file does not
  make its directory entry durable) `NoSilentLoss` fails for both journals:
  for the log, whose directory is never synced, and for `failed.ndjson` if the
  process is killed between creating the file and syncing the directory, since
  the next start finds the file and does not sync.
- With an overlap a chunk may end before the one before it does: a paragraph
  break that the first window cut in half is found by the second. The text
  `aaa\n\nb` with `max_size` 4 and `overlap` 2 gives `aaa\n`, `a`, `\n\n`,
  `\n`, `b`. Nothing is lost (`NothingLost`).
- The splitter normalises line ends, the chunkers around it do not: in a text with
  `\r\n` the offsets in the payload are neither those of the file nor those of
  the normalised text (markdown.rs 94-104).
- `a\b` and `a/b` are two files on Unix and share a document name: a delete of
  the one removes the points of the other (`UrisAreDistinct` has this as its
  exception; `Uri` in `PointStore` can be given such a collision).
- Names that are not UTF-8 go through `to_string_lossy`: two of them may become
  one path, and the file is not found under it.
- `check` does not look at `health.addr`, though README.md:169 of the repository
  has it validate configuration; a start fails on a bad one. It
  judges the journals by mode bits, a start by opening them. Neither compares
  the vector size of an existing collection with the one configured.
- `PipelineConfig::validate` is called by neither the start nor the reload. What
  both require of the merged settings amounts to the same (`ValidationsAgree`).
- A start that fails may leave both journals and the collection behind. Nothing
  notices them later (`PreflightIsExact`).
- A flag that wants a value takes a following `--config` for it, but
  `extract_config_path` does not see this: the daemon then watches a file it was
  not configured from (the exception of `ReloadIsRestart`).
- A state path that another source has used: the start takes its documents for
  known, finds none of them, and deletes their points. Its unfinished work is
  retried and given up on a file system, and given up at once on S3
  (`load_object`).
- The vectors of an OpenAI answer are taken in the order of the answer; its
  `index` field is not read.
- An embedding that fails inside the semantic chunker becomes an internal error
  and is not retried (error.rs 158-162), though README.md:381 of the repository
  and runtime.rs 505-508 have transient embedding failures retried. `WorkIsJudged`
  has it as an exception.
- The payload of `.gitignore` has the extension `gitignore`, the router sees
  none (the exception of `ExtensionsAgree`).
- The semantic chunker's fingerprint leaves out the overlap, which its fallback
  for large groups uses, though fingerprint.rs 3-6 has one ID space per
  strategy and its parameters. `FingerprintNamesCuts` has it as an exception.
- The gauge of pending work is raised by the runtime task and lowered at every
  acknowledgement, also when a record is settled twice; it may drift from the
  log. Nothing reads it back.

## 7. Not modelled, and the plan

Every module of section 2 is written and checked, and the theorems of section 5
are proved. Next comes `InSyncAfterCommands`: `SyncInv` would need to be
restated, since work that is planned once, versions that rise along the log and
acknowledgements behind their work (`PlannedOnce`, `InOrder`) are facts of a log
that no operator has requeued work into or compacted.

Not modelled, and why:

- the text inside a document, the tokens of the token metric, the parsers behind
  the chunkers with their errors, the fastembed provider and the arithmetic on
  embeddings (percentile, cosine): functions of libraries, of which the
  properties need no more than that they return something or fail;
- the redaction of error bodies (`embed/mod.rs`), the rendering of metrics,
  logging and the wording of reports: formatting;
- the YAML parser: a file is what it parses to, or does not parse;
- Windows: `ReplaceFileW` in the compaction, drive letters beyond their form in
  a URI;
- release tooling (`xtask`), benches and test support: not part of the program.
