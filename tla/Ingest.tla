------------------------------- MODULE Ingest -------------------------------
(***************************************************************************)
(* The running daemon: the polled source and its FileTailer, the Planner,  *)
(* the task of AsyncRuntime::start that plans and sends work, the bounded  *)
(* queue, the worker of run_worker_with_retry_inner around AckingExecutor  *)
(* and PipelineExecutor, the write-ahead log they share, the failed-work   *)
(* journal and the sink, with crashes, shutdowns and restarts.             *)
(*                                                                         *)
(* A document's content is the stamp of its file, a number; 0 is a file    *)
(* that does not exist and a document without points.  The sink is what    *)
(* was last published of each document: how chunks become points, and what *)
(* an upsert leaves of older points, is in PointStore.  Two tasks run: the *)
(* runtime (rt) and the worker (wk).  Every action is one of their steps   *)
(* between two awaits, or between two accesses to something shared.        *)
(***************************************************************************)
EXTENDS FailedJournal

CONSTANTS
  Paths,            \* canonical paths under the root
  LegacyChunks,     \* chunk ids in the log of an older release
  LegacyWal,        \* what that log holds: chunk records
  Capacity,         \* of the work queue
  MaxAttempts,      \* RetryPolicy.max_attempts
  MaxQueuedRetries, \* RetryPolicy.max_queued_retries
  MultiThread,      \* the two tasks may run on different threads
  FreshStamps,      \* a write always gives a file a fingerprint it never had
  FatalFaults,      \* the executor may fail with an error that is not retried
  LogFaults,        \* reading or appending to the log or the journal may fail
  MaxChanges,       \* bound: writes and removals of files, plus one
  MaxFaults,        \* bound: injected errors
  MaxOutages        \* bound: crashes and shutdown requests

Gone    == 0        \* no file, no points
NoStamp == 0        \* Option::None in last_seen_version: path known, version not

ASSUME ConstantsAssumption ==
  /\ Capacity \in Nat \ {0}
  /\ MaxAttempts \in Nat \ {0}
  /\ MaxQueuedRetries \in Nat
  /\ MaxAttempts > 1 => MaxQueuedRetries > 0
  /\ {MultiThread, FreshStamps, FatalFaults, LogFaults} \subseteq BOOLEAN
  /\ MaxChanges \in Nat \ {0}
  /\ {MaxFaults, MaxOutages} \subseteq Nat
  /\ LegacyWal \in Seq([type : LegacyTypes, key : LegacyChunks])

VARIABLES
  files,            \* the stamp of each file now
  history,          \* the stamps each file has had
  removed,          \* the paths that were removed at some time
  changes,          \* how many changes so far; the next fresh stamp
  sink,             \* the content last upserted for each document; Gone after a delete
  wal,              \* the write-ahead log
  failed,           \* failed.ndjson: the exhausted records, in order of id
  last_seen_version,\* FileTailer, with NoStamp for a seeded path
  planned_versions, \* Planner
  planned_deletes,  \* Planner
  rt,               \* where the runtime task stands
  events,           \* events of the current poll still to be planned
  before,           \* length of the log before the tick
  outbox,           \* positions in the log of the records it still has to send
  queue,            \* the bounded channel to the worker
  wk,               \* where the worker stands
  hand,             \* the RetryItem it works on, if any
  text,             \* the content it has loaded
  err,              \* the error the executor returned
  retries,          \* its queue of RetryItems
  exit,             \* exit reason the runtime task published
  stopping,         \* the shutdown signal
  faults, outages,  \* counters for the bounds
  unwatched, overtaken \* history: see Start, RtCollect

env      == <<files, history, removed, changes>>
durable  == <<sink, wal, failed>>
planner  == <<planned_versions, planned_deletes>>
runtime  == <<last_seen_version, planner, rt, events, before, outbox>>
worker   == <<wk, hand, text, err, retries>>
ghosts   == <<unwatched, overtaken>>
control  == <<exit, stopping, outages, ghosts>>
vars     == <<env, durable, runtime, queue, worker, control, faults>>

Item(r, n)   == [record |-> r, attempt |-> n]
InHand       == hand[1].record
Errors == {"none", "retryable", "fatal"}
RtStates == {"off", "replay", "send_replay", "loop", "tick", "send", "exited"}
WkStates == {"off", "recv", "load", "upsert", "delete", "ack", "locked", "fail", "done"}

\* AckingExecutor holds the log's mutex from lock().await to the end of its
\* append and never awaits in between, so that only a task on another thread
\* can find it taken.
WalLocked   == wk = "locked"
RtScheduled == MultiThread \/ ~ WalLocked

\* An operation on one of the two files returns an error.
LogFault == LogFaults /\ faults < MaxFaults /\ faults' = faults + 1

-----------------------------------------------------------------------------
(* The files, changed by their owner at any time.                           *)

Change(p, s) ==
  /\ changes < MaxChanges
  /\ files'   = [files EXCEPT ![p] = s]
  /\ changes' = changes + 1
  /\ UNCHANGED <<durable, runtime, queue, worker, control, faults>>

WriteFile(p) ==
  /\ \E s \in 1..(changes + 1) :
       /\ s # files[p]
       /\ FreshStamps => s = changes + 1
       /\ Change(p, s)
       /\ history' = [history EXCEPT ![p] = @ \cup {s}]
  /\ UNCHANGED removed

RemoveFile(p) ==
  /\ files[p] # Gone
  /\ Change(p, Gone)
  /\ removed' = removed \cup {p}
  /\ UNCHANGED history

-----------------------------------------------------------------------------
(* Start, crash and the end of the process.                                 *)

\* The log has a pending delete of p before an acknowledged version of p.
Overtaken(p) ==
  \E d \in UnackedAt(wal), i \in DOMAIN wal :
    /\ wal[d] = DeleteDocument(p) /\ i > d
    /\ wal[i].type = "work_item_v2" /\ IsAbout(wal[i], p) /\ Acked(wal, wal[i])

\* Mutant: the tailer is not seeded with the documents the log knows.
StartUnseeded ==
  /\ rt = "off" /\ wk = "off"
  /\ rt' = "replay" /\ wk' = "recv"
  /\ last_seen_version' = [p \in {} |-> NoStamp]
  /\ planned_versions' = WalVersions(wal) /\ planned_deletes' = WalDeletes(wal)
  /\ UNCHANGED <<env, durable, events, before, outbox, queue, hand, text, err,
                 retries, exit, stopping, outages, ghosts, faults>>

\* start_running_system: the tailer seeded with known_live_document_paths and
\* Runtime::with_shared_wal, which starts from an empty planner when it cannot
\* read the log; any other error of the startup ends the process at once.
\* Two history variables note what this start makes go wrong.  unwatched: work
\* on the path will be replayed though its removal would not be planned, since
\* the tailer is not seeded with it or the planner takes its delete for already
\* planned; until a scan finds the file (see RtCollect too).  overtaken: a delete
\* will be replayed that is older than an acknowledged version; until a scan
\* finds another one.
Start ==
  /\ rt = "off" /\ wk = "off"
  /\ rt' = "replay"
  /\ wk' = "recv"
  /\ last_seen_version' = [p \in known_live_document_paths(wal) |-> NoStamp]
  /\ \/ planned_versions' = WalVersions(wal) /\ planned_deletes' = WalDeletes(wal) /\ UNCHANGED faults
     \/ planned_versions' = {} /\ planned_deletes' = {} /\ LogFault
  /\ unwatched' = {r.key.path : r \in {q \in Unacked(wal) : q.type = "work_item_v2"}}
                  \ (known_live_document_paths(wal) \ planned_deletes')
  /\ overtaken' = overtaken \cup {p \in Paths : Overtaken(p)}
  /\ UNCHANGED <<env, durable, events, before, outbox, queue, hand, text, err,
                 retries, exit, stopping, outages>>

\* Everything in memory is lost.
Down ==
  /\ rt' = "off" /\ wk' = "off"
  /\ last_seen_version' = [p \in {} |-> NoStamp]
  /\ planned_versions' = {} /\ planned_deletes' = {} /\ events' = {}
  /\ before' = 0 /\ outbox' = {} /\ queue' = <<>> /\ hand' = <<>>
  /\ text' = Gone /\ err' = "none" /\ retries' = <<>>
  /\ exit' = "none" /\ stopping' = FALSE /\ unwatched' = {}
  /\ UNCHANGED <<env, durable, overtaken, faults>>

Crash ==
  /\ rt # "off" /\ outages < MaxOutages
  /\ outages' = outages + 1
  /\ Down

\* RunningSystem::shutdown sends the signal, on ctrl-c or once the runtime
\* task has published an exit reason; the process ends when the worker has
\* drained its queue.
RequestShutdown ==
  /\ rt # "off" /\ ~ stopping
  /\ \/ exit # "none" /\ UNCHANGED outages
     \/ exit = "none" /\ outages < MaxOutages /\ outages' = outages + 1
  /\ stopping' = TRUE
  /\ UNCHANGED <<env, durable, runtime, queue, worker, exit, ghosts, faults>>

Terminate ==
  /\ stopping /\ wk = "done"
  /\ Down
  /\ UNCHANGED outages

-----------------------------------------------------------------------------
(* The runtime task.                                                        *)

RtGoto(pc) == rt' = pc /\ UNCHANGED control

RtFail(reason) == rt' = "exited" /\ exit' = reason /\ UNCHANGED <<stopping, outages, ghosts>>

\* Startup replay.  A taken log means: yield and try again.
RtReplay ==
  /\ rt = "replay" /\ RtScheduled /\ ~ WalLocked
  /\ \/ outbox' = UnackedAt(wal) /\ RtGoto("send_replay") /\ UNCHANGED faults
     \/ LogFault /\ RtFail("startup_failed") /\ UNCHANGED outbox
  /\ UNCHANGED <<env, durable, last_seen_version, planner, events, before,
                 queue, worker>>

\* Mutant: one record more than the channel holds.
RtSendOverfull ==
  /\ rt \in {"send_replay", "send"} /\ RtScheduled
  /\ Len(queue) <= Capacity
  /\ \E i \in outbox :
       /\ \A j \in outbox : i <= j
       /\ queue'  = Append(queue, wal[i])
       /\ outbox' = outbox \ {i}
  /\ RtGoto(IF stopping THEN "exited" ELSE rt)
  /\ UNCHANGED <<env, durable, last_seen_version, planner, events, before,
                 worker, faults>>

\* The records go out in log order.  tx.send waits while the queue is full; the
\* shutdown signal is looked at only after it has returned.
RtSend ==
  /\ rt \in {"send_replay", "send"} /\ RtScheduled
  /\ Len(queue) < Capacity
  /\ \E i \in outbox :
       /\ \A j \in outbox : i <= j
       /\ queue'  = Append(queue, wal[i])
       /\ outbox' = outbox \ {i}
  /\ RtGoto(IF stopping THEN "exited" ELSE rt)
  /\ UNCHANGED <<env, durable, last_seen_version, planner, events, before,
                 worker, faults>>

RtSent ==
  /\ rt \in {"send_replay", "send"} /\ RtScheduled
  /\ outbox = {}
  /\ RtGoto("loop")
  /\ UNCHANGED <<env, durable, last_seen_version, planner, events, before,
                 outbox, queue, worker, faults>>

RtStop ==
  /\ rt = "loop" /\ RtScheduled /\ stopping
  /\ RtGoto("exited")
  /\ UNCHANGED <<env, durable, last_seen_version, planner, events, before,
                 outbox, queue, worker, faults>>

Event(p) == Fingerprint(p, files[p])   \* stamp Gone: SourceEvent::FileDeleted
Present  == {p \in Paths : files[p] # Gone}

\* FileTailer::observe and complete_scan would report nothing about p.
Noticed(p) == IF files[p] = Gone THEN p \notin DOMAIN last_seen_version
              ELSE p \in DOMAIN last_seen_version /\ last_seen_version[p] = files[p]

\* Mutant: a scan that has missed files counts as complete.
RtPollPartial ==
  /\ rt = "loop" /\ RtScheduled /\ ~ stopping /\ ~ WalLocked
  /\ before' = Len(wal)
  /\ \E seen \in SUBSET Present :
       /\ last_seen_version' = [p \in seen |-> files[p]]
       /\ events' = {Event(p) : p \in {q \in seen : ~ Noticed(q)}}
                    \cup {Fingerprint(p, Gone) : p \in DOMAIN last_seen_version \ seen}
  /\ rt' = "tick"
  /\ UNCHANGED <<env, durable, planner, outbox, queue, worker, control, faults>>

\* The log's length, then Source::poll: one completed scan.  The order of the
\* events of different paths is left open.
RtPoll ==
  /\ rt = "loop" /\ RtScheduled /\ ~ stopping /\ ~ WalLocked
  /\ \/ /\ before' = Len(wal)
        /\ last_seen_version' = [p \in Present |-> files[p]]
        /\ events' = {Event(p) : p \in {q \in Present : ~ Noticed(q)}}
                     \cup {Event(p) : p \in DOMAIN last_seen_version \ Present}
        /\ rt' = "tick" /\ unwatched' = unwatched \ Present
        /\ overtaken' = {p \in overtaken \cap Present : Event(p) \in WalVersions(wal)}
        /\ UNCHANGED <<exit, stopping, outages, faults>>
     \/ LogFault /\ RtFail("runtime_failed") /\ UNCHANGED <<last_seen_version, events, before>>
  /\ UNCHANGED <<env, durable, planner, outbox, queue, worker>>

\* wal.try_lock() and append of one planned record.  The error of either one
\* ends the runtime task; an append that fails may still have written its line.
PlanAppend(r) ==
  \/ /\ ~ WalLocked
     /\ wal' = Append(wal, r)
     /\ RtGoto("tick")
     /\ UNCHANGED faults
  \/ /\ WalLocked
     /\ RtFail("runtime_failed")
     /\ UNCHANGED <<wal, faults>>
  \/ /\ ~ WalLocked /\ LogFault
     /\ wal' \in {wal, Append(wal, r)}
     /\ RtFail("runtime_failed")

plan_file_version(fp) ==
  /\ planned_deletes'  = planned_deletes \ {fp.path}
  /\ planned_versions' = planned_versions \cup {fp}
  /\ IF fp \in planned_versions
     THEN RtGoto("tick") /\ UNCHANGED <<wal, faults>>
     ELSE PlanAppend(WorkItemV2(fp))

plan_file_delete(p) ==
  /\ planned_deletes' = planned_deletes \cup {p}
  /\ UNCHANGED planned_versions
  /\ IF p \in planned_deletes
     THEN RtGoto("tick") /\ UNCHANGED <<wal, faults>>
     ELSE PlanAppend(DeleteDocument(p))

RtPlan ==
  /\ rt = "tick" /\ RtScheduled
  /\ \E ev \in events :
       /\ events' = events \ {ev}
       /\ IF ev.stamp = Gone THEN plan_file_delete(ev.path) ELSE plan_file_version(ev)
  /\ UNCHANGED <<env, sink, failed, last_seen_version, before, outbox, queue, worker>>

\* Mutant: the first new record is skipped.
RtCollectSkipsOne ==
  /\ rt = "tick" /\ RtScheduled /\ events = {}
  /\ ~ WalLocked /\ RtGoto("send") /\ outbox' = (before + 2)..Len(wal)
  /\ before' = 0
  /\ UNCHANGED <<env, durable, last_seen_version, planner, events, queue, worker, faults>>

\* after_records.skip(before): what the tick planned, and acknowledgements the
\* worker has appended meanwhile.  When the log is taken at this moment the
\* loop starts over and nothing is sent; a delete it has planned will not run
\* before the next start, nor be planned again, so its path is unwatched too.
RtCollect ==
  /\ rt = "tick" /\ RtScheduled /\ events = {}
  /\ \/ /\ WalLocked /\ rt' = "loop"
        /\ unwatched' = unwatched \cup
             {p \in Paths : \E i \in (before + 1)..Len(wal) : wal[i] = DeleteDocument(p)}
        /\ UNCHANGED <<outbox, exit, stopping, outages, overtaken, faults>>
     \/ ~ WalLocked /\ RtGoto("send") /\ outbox' = (before + 1)..Len(wal) /\ UNCHANGED faults
     \/ ~ WalLocked /\ LogFault /\ RtFail("runtime_failed") /\ UNCHANGED outbox
  /\ before' = 0
  /\ UNCHANGED <<env, durable, last_seen_version, planner, events, queue, worker>>

RtNext == RtReplay \/ RtSend \/ RtSent \/ RtStop \/ RtPoll \/ RtPlan \/ RtCollect

-----------------------------------------------------------------------------
(* The worker.                                                              *)

\* What execute does first with the record taken.
FirstStep(r) == CASE r.type = "work_item_v2"    -> "load"
                  [] r.type = "delete_document" -> "delete"
                  [] r.type = "work_item"       -> "ack"    \* a no-op, then acknowledged
                  [] OTHER                      -> "recv"   \* a no-op, not acknowledged

\* On a single thread the runtime task is not interrupted within a tick.
WkAt(pc)   == wk = pc /\ (MultiThread \/ rt # "tick")
WkGoto(pc) == wk' = pc /\ UNCHANGED <<env, runtime, control>>

Take(item) ==
  LET first == FirstStep(item.record)
  IN  /\ hand' = IF first = "recv" THEN <<>> ELSE <<item>>
      /\ WkGoto(first)

\* Mutant: a scheduled retry waits until the queue is empty.
WkTakeQueueFirst ==
  /\ WkAt("recv")
  /\ \/ /\ queue # <<>>
        /\ Take(Item(Head(queue), 1)) /\ queue' = Tail(queue) /\ UNCHANGED retries
     \/ /\ queue = <<>> /\ retries # <<>>
        /\ Take(Head(retries)) /\ retries' = Tail(retries) /\ UNCHANGED queue
  /\ UNCHANGED <<durable, text, err, faults>>

\* A scheduled retry goes before anything in the queue.
WkTake ==
  /\ WkAt("recv")
  /\ \/ /\ retries # <<>>
        /\ Take(Head(retries)) /\ retries' = Tail(retries) /\ UNCHANGED queue
     \/ /\ retries = <<>> /\ queue # <<>>
        /\ Take(Item(Head(queue), 1)) /\ queue' = Tail(queue) /\ UNCHANGED retries
  /\ UNCHANGED <<durable, text, err, faults>>

\* recv() returns None once the sender is gone and the queue is empty.
WkEnd ==
  /\ WkAt("recv") /\ retries = <<>> /\ queue = <<>> /\ rt = "exited"
  /\ WkGoto("done")
  /\ UNCHANGED <<durable, queue, hand, text, err, retries, faults>>

\* A step of the executor fails otherwise: an error to be retried, or not.
StepFault ==
  /\ faults < MaxFaults /\ faults' = faults + 1
  /\ err' \in {"retryable"} \cup IF FatalFaults THEN {"fatal"} ELSE {}
  /\ WkGoto("fail")

\* The loader reads the file as it is now, whatever version was planned; a
\* missing file is an error of kind Io.  Then its text is extracted, chunked
\* and embedded.
WkLoad ==
  /\ WkAt("load")
  /\ \/ /\ files[InHand.key.path] # Gone
        /\ WkGoto("upsert") /\ text' = files[InHand.key.path] /\ UNCHANGED <<err, faults>>
     \/ /\ files[InHand.key.path] = Gone
        /\ WkGoto("fail") /\ err' = "retryable" /\ UNCHANGED <<text, faults>>
     \/ StepFault /\ UNCHANGED text
  /\ UNCHANGED <<durable, queue, hand, retries>>

\* Mutant: an error of the sink is taken for success.
SinkRequestIgnoresError(p, content) ==
  /\ sink' \in {[sink EXCEPT ![p] = content]} \cup IF faults < MaxFaults THEN {sink} ELSE {}
  /\ faults' = IF faults < MaxFaults THEN faults + 1 ELSE faults
  /\ WkGoto("ack")
  /\ UNCHANGED err

\* A request to the sink succeeds, or fails with or without having had its
\* effect.
SinkRequest(p, content) ==
  \/ /\ sink' = [sink EXCEPT ![p] = content]
     /\ WkGoto("ack")
     /\ UNCHANGED <<err, faults>>
  \/ StepFault /\ sink' \in {sink, [sink EXCEPT ![p] = content]}

WkUpsert ==
  /\ WkAt("upsert")
  /\ SinkRequest(InHand.key.path, text)
  /\ text' = Gone
  /\ UNCHANGED <<wal, failed, queue, hand, retries>>

WkDelete ==
  /\ WkAt("delete")
  /\ SinkRequest(InHand.key, Gone)
  /\ UNCHANGED <<wal, failed, queue, hand, text, retries>>

WkLock ==
  /\ WkAt("ack")
  /\ WkGoto("locked")
  /\ UNCHANGED <<durable, queue, hand, text, err, retries, faults>>

\* The acknowledgement is appended and the log released.
WkAck ==
  /\ WkAt("locked")
  /\ \/ /\ wal' = Append(wal, AckOf(InHand))
        /\ hand' = <<>>
        /\ WkGoto("recv")
        /\ UNCHANGED <<err, faults>>
     \/ /\ LogFault
        /\ wal' \in {wal, Append(wal, AckOf(InHand))}
        /\ err' = "fatal"
        /\ WkGoto("fail")
        /\ UNCHANGED hand
  /\ UNCHANGED <<sink, failed, queue, text, retries>>

\* Mutant: one attempt too few.
ShouldRetryOnceLess == /\ err = "retryable"
                       /\ hand[1].attempt + 1 < MaxAttempts
                       /\ Len(retries) < MaxQueuedRetries

ShouldRetry == /\ err = "retryable"
               /\ hand[1].attempt < MaxAttempts
               /\ Len(retries) < MaxQueuedRetries

\* FailedWorkJournal::append_exhausted; an error of its own is only logged.
Exhaust ==
  LET id == next_failed_work_id(failed)
  IN  \/ /\ failed' = Append(failed, Exhausted(id, InHand, err, hand[1].attempt))
         /\ UNCHANGED faults
      \/ LogFault /\ UNCHANGED failed

WkFail ==
  /\ WkAt("fail")
  /\ IF ShouldRetry
     THEN retries' = Append(retries, Item(InHand, hand[1].attempt + 1)) /\ UNCHANGED <<failed, faults>>
     ELSE Exhaust /\ UNCHANGED retries
  /\ hand' = <<>> /\ err' = "none"
  /\ WkGoto("recv")
  /\ UNCHANGED <<sink, wal, queue, text>>

WkNext == WkTake \/ WkEnd \/ WkLoad \/ WkUpsert \/ WkDelete \/ WkLock \/ WkAck \/ WkFail

-----------------------------------------------------------------------------
Init ==
  /\ files \in [Paths -> {Gone, 1}]
  /\ history = [p \in Paths |-> {files[p]} \ {Gone}]
  /\ removed = {} /\ changes = 1
  /\ sink = [p \in Paths |-> Gone]
  /\ wal = LegacyWal /\ failed = <<>>
  /\ last_seen_version = [p \in {} |-> NoStamp]
  /\ planned_versions = {} /\ planned_deletes = {}
  /\ rt = "off" /\ events = {} /\ before = 0 /\ outbox = {} /\ queue = <<>>
  /\ wk = "off" /\ hand = <<>> /\ text = Gone /\ err = "none" /\ retries = <<>>
  /\ exit = "none" /\ stopping = FALSE /\ faults = 0 /\ outages = 0
  /\ unwatched = {} /\ overtaken = {}

Next ==
  \/ \E p \in Paths : WriteFile(p) \/ RemoveFile(p)
  \/ Start \/ Crash \/ RequestShutdown \/ Terminate
  \/ RtNext
  \/ WkNext

Spec == Init /\ [][Next]_vars

-----------------------------------------------------------------------------
(* Properties.                                                              *)

Stamps       == 0..MaxChanges
Fingerprints == [path : Paths, stamp : Stamps]
WalRecords   == [type : LegacyTypes, key : LegacyChunks]
                \cup [type : FileTypes, key : Fingerprints]
                \cup [type : DeleteTypes, key : Paths]
Items        == [record : {r \in WalRecords : IsTask(r)}, attempt : 1..MaxAttempts]

JournalRecords ==
  [type : {"exhausted"}, id : Nat \ {0}, work : {r \in WalRecords : IsTask(r)},
   reason : Errors, attempts : 1..MaxAttempts]
  \cup [type : {"requeued"}, id : Nat]

FilesOK ==
  /\ files \in [Paths -> Stamps] /\ history \in [Paths -> SUBSET Stamps]
  /\ removed \subseteq Paths /\ changes \in Stamps
DurableOK ==
  /\ sink \in [Paths -> Stamps]
  /\ wal \in Seq(WalRecords) /\ failed \in Seq(JournalRecords)
RuntimeOK ==
  /\ DOMAIN last_seen_version \subseteq Paths
  /\ last_seen_version \in [DOMAIN last_seen_version -> Stamps]
  /\ planned_versions \subseteq Fingerprints \cup LegacyChunks
  /\ planned_deletes \subseteq Paths
  /\ rt \in RtStates /\ events \subseteq Fingerprints /\ before \in Nat
  /\ outbox \subseteq DOMAIN wal
QueueOK == queue \in Seq(WalRecords) /\ Len(queue) <= Capacity
WorkerOK ==
  /\ wk \in WkStates /\ err \in Errors /\ text \in Stamps
  /\ hand \in Seq(Items) /\ retries \in Seq(Items)
  /\ Len(hand) = IF wk \in {"off", "recv", "done"} THEN 0 ELSE 1
  /\ wk \in {"load", "upsert"} => InHand.type = "work_item_v2"
  /\ wk = "delete" => InHand.type = "delete_document"
ControlOK ==
  /\ exit \in {"none", "startup_failed", "runtime_failed"} /\ stopping \in BOOLEAN
  /\ faults \in Nat /\ outages \in Nat
  /\ unwatched \subseteq Paths /\ overtaken \subseteq Paths

\* Every variable has its type; the worker holds an item exactly while it
\* works on one, and one of the kind its step is for.
TypeOK == FilesOK /\ DurableOK /\ RuntimeOK /\ QueueOK /\ WorkerOK /\ ControlOK

\* Records some part of the running process still has to deal with.
Planned  == IF rt = "tick" THEN (before + 1)..Len(wal) ELSE {}
InFlight == {wal[i] : i \in Planned \cup outbox}
            \cup {queue[i] : i \in DOMAIN queue}
            \cup {hand[i].record : i \in DOMAIN hand}
            \cup {retries[i].record : i \in DOMAIN retries}
Journaled == {r.work : r \in pending_failed_work(failed)}

-----------------------------------------------------------------------------
Running == rt \notin {"off", "replay"} /\ exit = "none"

\* Once the startup replay has been read, every record the log shows as
\* unacknowledged is somewhere in the process on its way to the worker, or in
\* the failed-work journal; nothing waits for a restart to be found again.
\* When the process drains on shutdown this leaves what was never sent.
NoLostWork == Running => Unacked(wal) \subseteq InFlight \cup Journaled

LatestTask(p) ==
  {i \in DOMAIN wal : /\ IsTask(wal[i]) /\ IsAbout(wal[i], p)
                      /\ NoLater(wal, i, p, {"work_item_v2", "delete_document"})}

\* Nothing about p is left to do: the last scan saw the file as it is, no
\* event and no task about it is under way, and neither its latest task nor any
\* delete of it has failed.  A delete that was given up may look acknowledged in
\* the log, by the acknowledgement of an older one; the journal still has it.
Settled(p) ==
  /\ Running /\ Noticed(p)
  /\ \A ev \in events : ev.path # p
  /\ \A r \in InFlight : IsTask(r) => ~ IsAbout(r, p)
  /\ \A i \in LatestTask(p) : wal[i] \notin Unacked(wal)
  /\ DeleteDocument(p) \notin Unacked(wal) \cup Journaled

\* A settled document is in sync: the sink holds the content the file has, and
\* nothing when there is no file.
DocumentInSync(p) == Settled(p) => sink[p] = files[p]

\* No update of a file is lost, whatever the order in which files changed,
\* requests failed and the process restarted: a settled document is in sync,
\* unless its removal was left unwatched, or a start has replayed a delete that
\* an acknowledged version had overtaken.
NoLostUpdate == \A p \in Paths \ (unwatched \cup overtaken) : DocumentInSync(p)

\* An acknowledgement enters the log only while the sink holds at least the
\* acknowledged version, or nothing when a delete is acknowledged.
AckMeansApplied ==
  [][\A i \in (Len(wal) + 1)..Len(wal') :
       /\ wal'[i].type = "sink_ack_v2" => sink[wal'[i].key.path] >= wal'[i].key.stamp
       /\ wal'[i].type = "delete_ack"  => sink[wal'[i].key] = Gone]_wal

\* A file version is planned once, over all restarts, and a delete is planned
\* again only after a new version of the document or after its acknowledgement.
\* The chunk records an older release has left are not this program's.
PlannedOnce ==
  \A i, j \in DOMAIN wal :
    i < j /\ wal[i] = wal[j] /\ wal[i].type \in {"work_item_v2", "delete_document"} =>
    /\ wal[i].type = "delete_document"
    /\ \E k \in (i + 1)..(j - 1) :
         IsAbout(wal[k], wal[i].key) /\ wal[k].type \in {"work_item_v2", "delete_ack"}

\* Work is given up for a transient error only after the last attempt the
\* policy allows: the bound on queued retries never cuts it short.
GivenUpLast ==
  \A i \in ExhaustedAt(failed) :
    failed[i].reason = "retryable" => failed[i].attempts = MaxAttempts

\* Points of a document are never removed for a delete older than a version
\* of it that has been planned since and acknowledged, however often deletes
\* are run again.
DeleteIsLatest ==
  [][\A p \in Paths : sink[p] # Gone /\ sink'[p] = Gone => ~ Overtaken(p)]_sink

-----------------------------------------------------------------------------
(* How the stamps are ordered when every write is fresh: nothing anywhere   *)
(* is newer than the file, and what the worker is about to do or has done   *)
(* agrees with the record it holds.                                         *)

\* s is the stamp p has now or had before, if any.
Past(p, s) == s <= changes /\ (files[p] # Gone => s <= files[p])

RecordInOrder(r) ==
  /\ r.type \in FileTypes => Past(r.key.path, r.key.stamp) /\ history[r.key.path] # {}
  /\ r.type = "delete_document" => r.key \in removed

FilesInOrder ==
  \A p \in Paths :
    /\ files[p] <= changes /\ Past(p, sink[p])
    /\ files[p] # Gone => files[p] \in history[p]
    /\ files[p] = Gone /\ history[p] # {} => p \in removed
RuntimeInOrder ==
  /\ \A p \in DOMAIN last_seen_version : history[p] # {}
  /\ \A ev \in events :
       /\ history[ev.path] # {}
       /\ IF ev.stamp = Gone THEN ev.path \in removed ELSE Past(ev.path, ev.stamp)
RecordsInOrder ==
  /\ \A i \in DOMAIN wal : RecordInOrder(wal[i])
  /\ \A i \in DOMAIN queue : RecordInOrder(queue[i])
  /\ \A i \in DOMAIN hand : RecordInOrder(hand[i].record)
  /\ \A i \in DOMAIN retries : RecordInOrder(retries[i].record)
UpsertInOrder ==
  wk = "upsert" =>
    LET p == InHand.key.path
    IN  /\ text # Gone /\ text \in history[p] /\ Past(p, text)
        /\ InHand.key.stamp <= text /\ sink[p] <= text
AckInOrder ==
  wk \in {"ack", "locked"} =>
    /\ InHand.type = "work_item_v2" => InHand.key.stamp <= sink[InHand.key.path]
    /\ InHand.type = "delete_document" => sink[InHand.key] = Gone

\* Neither a scan, nor a record, nor the sink is ahead of the files; work on a
\* deleted document is only planned for one that was there and was removed; and
\* the worker comes to acknowledge a record only when the sink holds it.
InOrder == /\ FilesInOrder /\ RuntimeInOrder /\ RecordsInOrder
           /\ UpsertInOrder /\ AckInOrder

\* The files and what happens to them are the same; the database is the map
\* of published versions.
Abstract == INSTANCE DocSync
              WITH Paths <- Paths, Stamps <- Stamps, files <- files,
                   history <- history, removed <- removed, sink <- sink

\* The daemon does to the database nothing but what DocSync allows: it only
\* publishes contents the file has had, never an older one over a newer one,
\* and retracts a document only when its file has been removed.
SafeSync == Abstract!SafeSpec

\* And once the files are left alone the database comes to agree with them,
\* through retries, crashes and restarts.
Synced == Abstract!Spec

\* The runtime task and the worker are polled by tokio as long as they can
\* move, main waits for the exit and then ends the process, and a supervisor
\* starts it again.
Fairness == /\ WF_vars(RtNext) /\ SF_vars(WkNext)
            /\ WF_vars(Start) /\ WF_vars(Terminate)
            /\ WF_vars(RequestShutdown /\ exit # "none")
FairSpec == Spec /\ Fairness
=============================================================================
