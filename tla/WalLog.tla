------------------------------- MODULE WalLog -------------------------------
(***************************************************************************)
(* The write-ahead log of state/wal.rs as a value: its records, and what   *)
(* the program derives from a log it has read back: the work still to be   *)
(* replayed, the documents believed to be live, the planner's memory, and  *)
(* the compacted log of state/compact.rs.                                  *)
(*                                                                         *)
(* A record carries a key: the chunk id of the two legacy records, the     *)
(* fingerprint of the two V2 records, the canonical path of the two delete *)
(* records.  A fingerprint is a path and a stamp, which stands for size,   *)
(* mtime and etag; file_version_id hashes all of it, so it is injective    *)
(* here.  The JSON encoding is left out: every definition below starts     *)
(* from the records that read_all has parsed.                              *)
(***************************************************************************)
EXTENDS Selection

WorkItem(chunk)      == [type |-> "work_item",       key |-> chunk]
SinkAck(chunk)       == [type |-> "sink_ack",        key |-> chunk]
WorkItemV2(fp)       == [type |-> "work_item_v2",    key |-> fp]
SinkAckV2(fp)        == [type |-> "sink_ack_v2",     key |-> fp]
DeleteDocument(path) == [type |-> "delete_document", key |-> path]
DeleteAck(path)      == [type |-> "delete_ack",      key |-> path]

Fingerprint(path, stamp) == [path |-> path, stamp |-> stamp]

WorkTypes   == {"work_item", "work_item_v2"}
FileTypes   == {"work_item_v2", "sink_ack_v2"}
DeleteTypes == {"delete_document", "delete_ack"}
LegacyTypes == {"work_item", "sink_ack"}

\* The acknowledgement AckingExecutor appends after it has executed record r.
AckOf(r) == CASE r.type = "work_item"       -> SinkAck(r.key)
              [] r.type = "work_item_v2"    -> SinkAckV2(r.key)
              [] r.type = "delete_document" -> DeleteAck(r.key)

\* Records a task has to act on; the others are acknowledgements.
IsTask(r) == r.type \in WorkTypes \cup {"delete_document"}

\* r is about the document at path p.
IsAbout(r, p) == \/ r.type \in FileTypes /\ r.key.path = p
                 \/ r.type \in DeleteTypes /\ r.key = p

\* No record after position i is about p and has one of the given types.
NoLater(log, i, p, types) ==
  \A j \in DOMAIN log : j > i /\ log[j].type \in types => ~ IsAbout(log[j], p)

-----------------------------------------------------------------------------
(* state/wal.rs *)

\* A work record is settled by an acknowledgement of the same chunk or file
\* version anywhere in the log, even before it.
Acked(log, r) == \E j \in DOMAIN log : log[j] = AckOf(r)

\* A delete stands until a later record of a delete replaces or settles it;
\* work on the same path does not.
PendingDelete(log, i) ==
  /\ log[i].type = "delete_document"
  /\ NoLater(log, i, log[i].key, DeleteTypes)

UnackedAt(log) ==
  {i \in DOMAIN log : \/ log[i].type \in WorkTypes /\ ~ Acked(log, log[i])
                      \/ PendingDelete(log, i)}

unacked_work_items(log) == Keep(log, UnackedAt(log))

\* The same records without their order.
Unacked(log) == {log[i] : i \in UnackedAt(log)}

\* Paths whose last record is about a file version and not about a delete.
known_live_document_paths(log) ==
  {log[i].key.path : i \in {j \in DOMAIN log :
      /\ log[j].type \in FileTypes
      /\ NoLater(log, j, log[j].key.path, DeleteTypes)}}

-----------------------------------------------------------------------------
(* Planner::from_wal_records *)

\* Mutant: only acknowledged versions count as planned.
WalVersionsAcked(log) ==
  {log[i].key : i \in {j \in DOMAIN log : log[j].type \in {"sink_ack", "sink_ack_v2"}}}

WalVersions(log) ==
  {log[i].key : i \in {j \in DOMAIN log : log[j].type \in FileTypes \cup LegacyTypes}}

WalDeletes(log) ==
  {log[i].key : i \in {j \in DOMAIN log : PendingDelete(log, j)}}

-----------------------------------------------------------------------------
(* state/compact.rs *)

\* Mutants of the disjunct about the V2 records, or of the one about deletes.
CompactedDropsAcks(log) ==      \* the last work record is kept, not its acknowledgement
  {i \in DOMAIN log :
     \/ log[i].type = "work_item_v2" /\ NoLater(log, i, log[i].key.path, {"work_item_v2", "delete_document"})
     \/ log[i].type = "delete_document" /\ NoLater(log, i, log[i].key, FileTypes \cup DeleteTypes)}
CompactedDropsDeletes(log) ==   \* deletes are forgotten
  {i \in DOMAIN log : /\ log[i].type \in FileTypes
                      /\ NoLater(log, i, log[i].key.path, FileTypes \cup {"delete_document"})}

\* What survives: the last record of each legacy chunk, the last V2 record of
\* each path that no delete has followed, and each delete that no record about
\* the same path has followed.
CompactedAt(log) ==
  {i \in DOMAIN log :
     \/ /\ log[i].type \in LegacyTypes
        /\ \A j \in DOMAIN log :
             j > i /\ log[j].type \in LegacyTypes => log[j].key # log[i].key
     \/ /\ log[i].type \in FileTypes
        /\ NoLater(log, i, log[i].key.path, FileTypes \cup {"delete_document"})
     \/ /\ log[i].type = "delete_document"
        /\ NoLater(log, i, log[i].key, FileTypes \cup DeleteTypes)}

compact_wal_records(log) == Keep(log, CompactedAt(log))
=============================================================================
