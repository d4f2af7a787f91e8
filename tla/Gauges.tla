------------------------------- MODULE Gauges -------------------------------
(***************************************************************************)
(* The gauges of IngestionMetrics and the open window of IngestionSummary, *)
(* each updated at the step of Ingest in which the code updates it.  The   *)
(* two keep pending_files by the same rule; one variable stands for both.  *)
(* Totals, bytes and points are left out.                                  *)
(***************************************************************************)
EXTENDS Ingest, FiniteSets

VARIABLES
  pending_files,       \* gauge of the metrics, and of the summary's window
  dirty,               \* the summary has something to report
  work_queue_depth, retry_queue_depth, wal_pending_work, failed_work_pending,
  discovered_files,    \* records of files in the batch that is being sent
  collected,           \* records in the batch
  uncounted            \* a record was sent and record_work_queued is still to come

window == <<pending_files, dirty>>
depths == <<work_queue_depth, retry_queue_depth>>
state_gauges == <<wal_pending_work, failed_work_pending>>
batch  == <<discovered_files, collected, uncounted>>
gauges == <<window, depths, state_gauges, batch>>

\* fetch_update with saturating_sub(1).
SaturatingDec(n) == IF n = 0 THEN 0 ELSE n - 1

record_discovered(count) ==
  /\ pending_files' = pending_files + count
  /\ dirty' = (dirty \/ count > 0)

\* record_success and record_failure.
FileDone == pending_files' = SaturatingDec(pending_files) /\ dirty' = TRUE

\* The window is reported and starts anew.
emit_if_ready == pending_files' = pending_files /\ dirty' = (dirty /\ pending_files # 0)

Reset ==
  /\ pending_files' = 0 /\ dirty' = FALSE
  /\ work_queue_depth' = 0 /\ retry_queue_depth' = 0
  /\ wal_pending_work' = 0 /\ failed_work_pending' = 0
  /\ discovered_files' = 0 /\ collected' = 0 /\ uncounted' = FALSE

-----------------------------------------------------------------------------
\* seed_durable_state, from the journals as they are at the start.
GaugesStart ==
  /\ Start
  /\ wal_pending_work' = Cardinality(UnackedAt(wal))
  /\ failed_work_pending' = Cardinality(PendingAt(failed))
  /\ UNCHANGED <<window, depths, batch>>

GaugesDown == (Crash \/ Terminate) /\ Reset

GaugesElse ==
  /\ RequestShutdown \/ \E p \in Paths : WriteFile(p) \/ RemoveFile(p)
  /\ UNCHANGED gauges

Files(positions) == {i \in positions : wal[i].type \in {"work_item", "work_item_v2"}}

\* The replay, or what the tick has added, is counted while it is sent.
RtBatch ==
  /\ RtReplay \/ RtCollect
  /\ discovered_files' = Cardinality(Files(outbox')) /\ collected' = Cardinality(outbox')
  /\ UNCHANGED <<window, depths, state_gauges, uncounted>>

\* record_wal_pending_increase comes before the send, record_work_queued after.
RtSendOne ==
  /\ RtSend
  /\ wal_pending_work' = wal_pending_work + IF rt = "send" /\ IsTask(queue'[Len(queue')]) THEN 1 ELSE 0
  /\ uncounted' = TRUE
  /\ UNCHANGED <<window, depths, failed_work_pending, discovered_files, collected>>

record_work_queued ==
  /\ uncounted /\ uncounted' = FALSE
  /\ work_queue_depth' = work_queue_depth + 1
  /\ UNCHANGED <<vars, window, retry_queue_depth, state_gauges, discovered_files, collected>>

\* The whole batch has been sent; a round without a record may report.
RtBatchSent ==
  /\ RtSent
  /\ IF rt = "send" /\ collected = 0 THEN emit_if_ready ELSE record_discovered(discovered_files)
  /\ discovered_files' = 0 /\ collected' = 0
  /\ UNCHANGED <<depths, state_gauges, uncounted>>

RtElse == (RtStop \/ RtPoll \/ RtPlan) /\ UNCHANGED gauges

-----------------------------------------------------------------------------
WkTakes ==
  /\ WkTake
  /\ IF retries # <<>>
     THEN retry_queue_depth' = Len(retries') /\ UNCHANGED work_queue_depth
     ELSE work_queue_depth' = SaturatingDec(work_queue_depth) /\ UNCHANGED retry_queue_depth
  /\ UNCHANGED <<window, state_gauges, batch>>

\* Success is counted before the acknowledgement is written.
WkUpserts ==
  /\ WkUpsert
  /\ IF wk' = "ack" THEN FileDone ELSE UNCHANGED window
  /\ UNCHANGED <<depths, state_gauges, batch>>

WkAcks ==
  /\ WkAck
  /\ wal_pending_work' = IF wk' = "recv" THEN SaturatingDec(wal_pending_work) ELSE wal_pending_work
  /\ UNCHANGED <<window, depths, failed_work_pending, batch>>

\* A failed delete is counted like a failed file.
WkFails ==
  /\ WkFail
  /\ IF ShouldRetry THEN UNCHANGED window ELSE FileDone
  /\ retry_queue_depth' = IF err = "retryable" THEN Len(retries') ELSE retry_queue_depth
  /\ failed_work_pending' = failed_work_pending + Len(failed') - Len(failed)
  /\ UNCHANGED <<work_queue_depth, wal_pending_work, batch>>

WkElse == (WkEnd \/ WkLoad \/ WkDelete \/ WkLock) /\ UNCHANGED gauges

-----------------------------------------------------------------------------
GaugesInit ==
  /\ Init
  /\ pending_files = 0 /\ dirty = FALSE /\ work_queue_depth = 0 /\ retry_queue_depth = 0
  /\ wal_pending_work = 0 /\ failed_work_pending = 0
  /\ discovered_files = 0 /\ collected = 0 /\ uncounted = FALSE

\* Between a send and its count only the other thread can move.
GaugesNext ==
  \/ GaugesStart \/ GaugesDown \/ GaugesElse
  \/ ~ uncounted /\ (RtBatch \/ RtSendOne \/ RtBatchSent \/ RtElse)
  \/ record_work_queued
  \/ (MultiThread \/ ~ uncounted) /\ (WkTakes \/ WkUpserts \/ WkAcks \/ WkFails \/ WkElse)

GaugesSpec == GaugesInit /\ [][GaugesNext]_<<vars, gauges>>

-----------------------------------------------------------------------------
\* Nothing is on its way to the worker or in its hands.
Idle == /\ events = {} /\ outbox = {} /\ queue = <<>>
        /\ hand = <<>> /\ retries = <<>>

QuietRound == rt = "send" /\ rt' = "loop" /\ collected = 0

\* The round of the runtime task that finds everything done reports the window
\* of IngestionSummary.
IdleIsReported == [][QuietRound /\ Idle => ~ dirty']_<<vars, gauges>>
=============================================================================
