-------------------------------- MODULE Logs --------------------------------
(***************************************************************************)
(* Every write-ahead log and every failed-work journal, grown one record   *)
(* at a time over a few chunks, fingerprints, paths and ids.  They include *)
(* files no run of the program would write (an upgrade, a copied or a      *)
(* compacted file may hold them).  Only one of the two is grown.           *)
(***************************************************************************)
EXTENDS FailedJournal

CONSTANTS LegacyChunks, Paths, Stamps, Ids,
          MaxLog, MaxJournal      \* bounds: records

ASSUME LogsAssumption == Ids \subseteq Nat

VARIABLES log, journal

Fps == {Fingerprint(p, s) : p \in Paths, s \in Stamps}

WalRecords ==
  {WorkItem(c) : c \in LegacyChunks} \cup {SinkAck(c) : c \in LegacyChunks}
  \cup {WorkItemV2(f) : f \in Fps} \cup {SinkAckV2(f) : f \in Fps}
  \cup {DeleteDocument(p) : p \in Paths} \cup {DeleteAck(p) : p \in Paths}
JournalRecords ==
  {Exhausted(id, DeleteDocument(p), "retryable", 1) : id \in Ids, p \in Paths}
  \cup {Requeued(id) : id \in Ids}

GrowLog ==
  /\ journal = <<>> /\ Len(log) < MaxLog
  /\ \E r \in WalRecords : log' = Append(log, r)
  /\ UNCHANGED journal
GrowJournal ==
  /\ log = <<>> /\ Len(journal) < MaxJournal
  /\ \E r \in JournalRecords : journal' = Append(journal, r)
  /\ UNCHANGED log

LogsInit == log = <<>> /\ journal = <<>>
LogsNext == GrowLog \/ GrowJournal
LogsSpec == LogsInit /\ [][LogsNext]_<<log, journal>>

-----------------------------------------------------------------------------
\* A restart does not notice that the log was compacted: every path it would
\* have watched for deletion is still watched, and work of the current lifetime
\* of a document never becomes replay it was not before, unless the same version
\* was requeued after its acknowledgement.  Compacting once more changes nothing:
\* an operator may run compact-state as often as they like.
CompactionIsUnseen ==
  LET compacted == compact_wal_records(log)
  IN  /\ known_live_document_paths(log) \subseteq known_live_document_paths(compacted)
      /\ \A r \in Unacked(compacted) : IsTask(r) =>
           \/ r \in Unacked(log)
           \/ \E i, j \in DOMAIN log : i < j /\ log[i] = AckOf(r) /\ log[j] = r
      /\ compact_wal_records(compacted) = compacted

\* An operator may compact at any time: the same work stays pending, and no id
\* is handed out a second time.  Not one record less would do.
CompactionKeepsPending ==
  LET c == compact_failed_work_records(journal)
      without(i) == Keep(c, DOMAIN c \ {i})
  IN  /\ pending_failed_work(c) = pending_failed_work(journal)
      /\ next_failed_work_id(c) = next_failed_work_id(journal)
      /\ \A i \in DOMAIN c :
           \/ pending_failed_work(without(i)) # pending_failed_work(c)
           \/ next_failed_work_id(without(i)) # next_failed_work_id(c)
=============================================================================
