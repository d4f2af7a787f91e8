--------------------------- MODULE FailedJournal ----------------------------
(***************************************************************************)
(* The failed-work journal of state/failed.rs as a value: exhausted work   *)
(* with its id, marks of what an operator has requeued, and what is        *)
(* derived from them, with the compacted journal of state/compact.rs.      *)
(***************************************************************************)
EXTENDS WalLog

\* reason is the failure kind as far as the terminal reason depends on it.
Exhausted(id, work, reason, attempts) ==
  [type |-> "exhausted", id |-> id, work |-> work, reason |-> reason, attempts |-> attempts]
Requeued(id) == [type |-> "requeued", id |-> id]

ExhaustedAt(journal) == {i \in DOMAIN journal : journal[i].type = "exhausted"}

NoLaterOf(journal, i, types) ==
  \A j \in DOMAIN journal : j > i /\ journal[j].type \in types => journal[j].id # journal[i].id

\* The last record of its id, and not a mark of requeueing.
PendingAt(journal) ==
  {i \in ExhaustedAt(journal) : NoLaterOf(journal, i, {"exhausted", "requeued"})}

pending_failed_work(journal) == {journal[i] : i \in PendingAt(journal)}

\* One more than the largest id of an exhausted record.
next_failed_work_id(journal) ==
  LET ids == {0} \cup {journal[i].id : i \in ExhaustedAt(journal)}
  IN  1 + CHOOSE max \in ids : \A id \in ids : id <= max

-----------------------------------------------------------------------------
(* state/compact.rs *)

\* Mutants: nothing keeps the largest id; or its pair of records always does.
CompactedPendingOnly(journal) == PendingAt(journal)
CompactedAlwaysPair(journal) ==
  PendingAt(journal) \cup
    {i \in DOMAIN journal : /\ journal[i].id = next_failed_work_id(journal) - 1
                            /\ NoLaterOf(journal, i, {journal[i].type})}

\* The last record of the given type and id.
LastOf(journal, type, id) ==
  {i \in DOMAIN journal : /\ journal[i].type = type
                          /\ journal[i].id = id
                          /\ NoLaterOf(journal, i, {type})}

\* The pending records; and when the record of the largest id is not pending,
\* its last exhausted and its last requeued record, so that the next id stays
\* what it was.
CompactedJournalAt(journal) ==
  LET highest   == next_failed_work_id(journal) - 1
      exhausted == LastOf(journal, "exhausted", highest)
      requeued  == LastOf(journal, "requeued", highest)
  IN  PendingAt(journal)
      \cup IF \/ highest = 0
              \/ \E i \in PendingAt(journal) : journal[i].id = highest
              \/ exhausted = {} \/ requeued = {}
           THEN {} ELSE exhausted \cup requeued

compact_failed_work_records(journal) == Keep(journal, CompactedJournalAt(journal))
=============================================================================
