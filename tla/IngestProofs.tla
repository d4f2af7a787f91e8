---------------------------- MODULE IngestProofs ----------------------------
(***************************************************************************)
(* Theorems about Ingest for every value of its constants: its types, that *)
(* no work disappears, and the order of versions.  What the log shows as   *)
(* unacknowledged is on its way to the worker or in the failed-work        *)
(* journal, but for two windows that WorkIsLostOnly names, and work is     *)
(* given up only after its last attempt.                                   *)
(***************************************************************************)
EXTENDS Ingest, SequenceTheorems, TLAPS

USE DEF env, durable, planner, runtime, worker, ghosts, control

\* What is proved of logs and journals as values, of those of the daemon.
L == INSTANCE LogsProofs
       WITH log <- wal, journal <- failed, LegacyChunks <- LegacyChunks, Paths <- Paths,
            Stamps <- 0..MaxChanges, Ids <- Nat, MaxLog <- 0, MaxJournal <- 0

-----------------------------------------------------------------------------
(* Lemmas about the records and the operators on logs.                      *)

LEMMA Elements ==
  ASSUME NEW S, NEW s \in Seq(S)
  PROVE  Len(s) \in Nat /\ DOMAIN s = 1..Len(s) /\ \A i \in DOMAIN s : s[i] \in S
  BY LenProperties

LEMMA RecordKeys ==
  ASSUME NEW r \in WalRecords
  PROVE  /\ r.type \in LegacyTypes \cup FileTypes \cup DeleteTypes
         /\ r.type \in LegacyTypes => r.key \in LegacyChunks
         /\ r.type \in FileTypes   => r.key \in Fingerprints
         /\ r.type \in DeleteTypes => r.key \in Paths
  BY DEF WalRecords, LegacyTypes, FileTypes, DeleteTypes

LEMMA NewRecords ==
  /\ \A fp \in Fingerprints : WorkItemV2(fp) \in WalRecords
  /\ \A p \in Paths : DeleteDocument(p) \in WalRecords
  BY DEF WalRecords, FileTypes, DeleteTypes, WorkItemV2, DeleteDocument

LEMMA AckRecords ==
  ASSUME NEW r \in WalRecords, IsTask(r)
  PROVE  AckOf(r) \in WalRecords
  BY DEF WalRecords, LegacyTypes, FileTypes, DeleteTypes, WorkTypes, IsTask, AckOf,
         SinkAck, SinkAckV2, DeleteAck

LEMMA UnackedInLog ==
  ASSUME NEW log
  PROVE  UnackedAt(log) \subseteq DOMAIN log
  BY DEF UnackedAt

LEMMA LogDerived ==
  ASSUME NEW log \in Seq(WalRecords)
  PROVE  /\ known_live_document_paths(log) \subseteq Paths
         /\ WalVersions(log) \subseteq Fingerprints \cup LegacyChunks
         /\ WalDeletes(log) \subseteq Paths
         /\ {r.key.path : r \in {q \in Unacked(log) : q.type = "work_item_v2"}} \subseteq Paths
<1>1. \A i \in DOMAIN log : log[i] \in WalRecords
  OBVIOUS
<1>2. known_live_document_paths(log) \subseteq Paths
  BY <1>1, RecordKeys DEF known_live_document_paths, Fingerprints
<1>3. WalVersions(log) \subseteq Fingerprints \cup LegacyChunks
  BY <1>1, RecordKeys DEF WalVersions
<1>4. WalDeletes(log) \subseteq Paths
  BY <1>1, RecordKeys DEF WalDeletes, PendingDelete, DeleteTypes
<1>5. \A q \in Unacked(log) : q \in WalRecords
  BY <1>1, UnackedInLog DEF Unacked
<1>6. {r.key.path : r \in {q \in Unacked(log) : q.type = "work_item_v2"}} \subseteq Paths
  BY <1>5, RecordKeys DEF FileTypes, Fingerprints
<1> QED
  BY <1>2, <1>3, <1>4, <1>6

\* The id of the next exhausted record is larger than those of all before.
LEMMA NextId ==
  ASSUME NEW journal \in Seq(JournalRecords)
  PROVE  /\ next_failed_work_id(journal) \in Nat \ {0}
         /\ \A i \in ExhaustedAt(journal) : journal[i].id < next_failed_work_id(journal)
<1>1. L!AreEntries(JournalRecords)
  BY DEF L!AreEntries, JournalRecords
<1>2. /\ L!next_failed_work_id(journal) = next_failed_work_id(journal)
      /\ L!ExhaustedAt(journal) = ExhaustedAt(journal)
  BY DEF L!next_failed_work_id, L!ExhaustedAt, next_failed_work_id, ExhaustedAt
<1> QED
  BY <1>1, <1>2, L!NextFailedWorkId

-----------------------------------------------------------------------------
(* Type correctness.                                                        *)

Typed == TypeOK

LEMMA InitTyped == Init => Typed
<1> SUFFICES ASSUME Init PROVE Typed
  OBVIOUS
<1> USE ConstantsAssumption DEF Init
<1>1. FilesOK
  BY DEF FilesOK, Stamps, Gone
<1>2. wal \in Seq(WalRecords) /\ failed \in Seq(JournalRecords)
  <2>1. [type : LegacyTypes, key : LegacyChunks] \subseteq WalRecords
    BY DEF WalRecords
  <2>2. \A log \in Seq([type : LegacyTypes, key : LegacyChunks]) : log \in Seq(WalRecords)
    BY <2>1, SeqMonotonic
  <2>3. wal \in Seq(WalRecords)
    BY <2>2
  <2>4. failed \in Seq(JournalRecords)
    BY EmptySeq
  <2> QED
    BY <2>3, <2>4
<1>3. DurableOK
  BY <1>2 DEF DurableOK, Stamps, Gone
<1>4. RuntimeOK /\ QueueOK
  BY EmptySeq DEF RuntimeOK, QueueOK, RtStates, Stamps, NoStamp
<1>5. WorkerOK
  BY EmptySeq DEF WorkerOK, WkStates, Errors, Stamps, Gone
<1>6. ControlOK
  BY DEF ControlOK
<1> QED
  BY <1>1, <1>3, <1>4, <1>5, <1>6 DEF Typed, TypeOK

\* What a step leaves alone keeps its type.
LEMMA Untouched ==
  /\ FilesOK /\ UNCHANGED env => FilesOK'
  /\ DurableOK /\ UNCHANGED durable => DurableOK'
  /\ RuntimeOK /\ UNCHANGED <<runtime, wal>> => RuntimeOK'
  /\ QueueOK /\ UNCHANGED queue => QueueOK'
  /\ WorkerOK /\ UNCHANGED worker => WorkerOK'
  /\ ControlOK /\ UNCHANGED <<control, faults>> => ControlOK'
<1>1. FilesOK /\ UNCHANGED env => FilesOK'
  BY DEF FilesOK
<1>2. DurableOK /\ UNCHANGED durable => DurableOK'
  BY DEF DurableOK
<1>3. RuntimeOK /\ UNCHANGED <<runtime, wal>> => RuntimeOK'
  BY DEF RuntimeOK
<1>4. QueueOK /\ UNCHANGED queue => QueueOK'
  BY DEF QueueOK
<1>5. WorkerOK /\ UNCHANGED worker => WorkerOK'
  BY DEF WorkerOK, InHand
<1>6. ControlOK /\ UNCHANGED <<control, faults>> => ControlOK'
  BY DEF ControlOK
<1> QED
  BY <1>1, <1>2, <1>3, <1>4, <1>5, <1>6

LEMMA FilesTyped ==
  ASSUME Typed, NEW p \in Paths, WriteFile(p) \/ RemoveFile(p)
  PROVE  Typed'
<1>1. \A s \in Stamps : Change(p, s) => files' \in [Paths -> Stamps] /\ changes' \in Stamps
  BY ConstantsAssumption DEF Typed, TypeOK, FilesOK, Change, Stamps
<1>2. FilesOK'
  <2>1. CASE WriteFile(p)
    <3>1. PICK s \in 1..(changes + 1) : Change(p, s) /\ history' = [history EXCEPT ![p] = @ \cup {s}]
      BY <2>1 DEF WriteFile
    <3>2. s \in Stamps
      BY <3>1, ConstantsAssumption DEF Change, Typed, TypeOK, FilesOK, Stamps
    <3>3. removed' = removed
      BY <2>1 DEF WriteFile
    <3> QED
      BY <1>1, <3>1, <3>2, <3>3 DEF Typed, TypeOK, FilesOK
  <2>2. CASE RemoveFile(p)
    <3>1. Gone \in Stamps
      BY ConstantsAssumption DEF Gone, Stamps
    <3> QED
      BY <1>1, <2>2, <3>1 DEF RemoveFile, Typed, TypeOK, FilesOK
  <2> QED
    BY <2>1, <2>2
<1>3. UNCHANGED <<durable, runtime, queue, worker, control, faults>>
  BY DEF WriteFile, RemoveFile, Change
<1> QED
  BY <1>2, <1>3, Untouched DEF Typed, TypeOK

LEMMA LifeTyped ==
  ASSUME Typed, Start \/ Crash \/ RequestShutdown \/ Terminate
  PROVE  Typed'
<1>1. CASE Start
  <2>1. RuntimeOK'
    BY <1>1, LogDerived, ConstantsAssumption
    DEF Typed, TypeOK, DurableOK, RuntimeOK, Start, RtStates, Stamps, NoStamp
  <2>2. WorkerOK'
    BY <1>1 DEF Typed, TypeOK, WorkerOK, Start, WkStates
  <2>3. ControlOK'
    BY <1>1, LogDerived DEF Typed, TypeOK, DurableOK, ControlOK, Start, LogFault
  <2> QED
    BY <1>1, <2>1, <2>2, <2>3, Untouched DEF Start, Typed, TypeOK
<1>2. CASE Crash \/ Terminate
  <2>0. Down
    BY <1>2 DEF Crash, Terminate
  <2>1. RuntimeOK'
    <3>1. /\ last_seen_version' = [p \in {} |-> NoStamp]
          /\ planned_versions' = {} /\ planned_deletes' = {} /\ events' = {}
          /\ before' = 0 /\ outbox' = {} /\ rt' = "off"
      BY <2>0 DEF Down
    <3> QED
      BY <3>1 DEF RuntimeOK, RtStates
  <2>2. QueueOK' /\ WorkerOK'
    <3>1. /\ wk' = "off" /\ err' = "none" /\ text' = 0
          /\ hand' = <<>> /\ retries' = <<>> /\ queue' = <<>>
      BY <2>0 DEF Down, Gone
    <3>2. 0 \in Stamps /\ Capacity \in Nat
      BY ConstantsAssumption DEF Stamps
    <3> QED
      BY <3>1, <3>2 DEF QueueOK, WorkerOK, InHand, WkStates, Errors
  <2>3. ControlOK'
    <3>1. stopping' \in BOOLEAN /\ exit' = "none" /\ unwatched' = {} /\ overtaken' = overtaken /\ faults' = faults
      BY <1>2 DEF Crash, Terminate, Down
    <3>2. outages' = outages \/ outages' = outages + 1
      BY <1>2 DEF Crash, Terminate
    <3> QED
      BY <3>1, <3>2 DEF Typed, TypeOK, ControlOK
  <2> QED
    BY <2>0, <2>1, <2>2, <2>3, Untouched DEF Down, Typed, TypeOK
<1>3. CASE RequestShutdown
  <2>1. ControlOK'
    BY <1>3 DEF RequestShutdown, Typed, TypeOK, ControlOK
  <2> QED
    BY <1>3, <2>1, Untouched DEF RequestShutdown, Typed, TypeOK
<1> QED
  BY <1>1, <1>2, <1>3

LEMMA RuntimeTyped ==
  ASSUME Typed, RtNext
  PROVE  Typed'
<1> USE DEF RtGoto, RtFail, LogFault
<1>1. CASE RtReplay
  <2>1. RuntimeOK' /\ ControlOK'
    BY <1>1, UnackedInLog DEF RtReplay, Typed, TypeOK, RuntimeOK, ControlOK, RtStates
  <2> QED
    BY <1>1, <2>1, Untouched DEF RtReplay, Typed, TypeOK
<1>2. CASE RtSend
  <2>1. RuntimeOK' /\ ControlOK'
    BY <1>2 DEF RtSend, Typed, TypeOK, RuntimeOK, ControlOK, RtStates
  <2>2. QueueOK'
    BY <1>2, ConstantsAssumption DEF RtSend, Typed, TypeOK, QueueOK, RuntimeOK, DurableOK
  <2> QED
    BY <1>2, <2>1, <2>2, Untouched DEF RtSend, Typed, TypeOK
<1>3. CASE RtSent \/ RtStop
  <2>1. RuntimeOK' /\ ControlOK'
    BY <1>3 DEF RtSent, RtStop, Typed, TypeOK, RuntimeOK, ControlOK, RtStates
  <2> QED
    BY <1>3, <2>1, Untouched DEF RtSent, RtStop, Typed, TypeOK
<1>4. CASE RtPoll
  <2>1. \A p \in Paths : Event(p) \in Fingerprints
    BY DEF Typed, TypeOK, FilesOK, Event, Fingerprint, Fingerprints
  <2>2. Present \subseteq Paths
    BY DEF Present
  <2>3. events' \subseteq Fingerprints
    BY <1>4, <2>1, <2>2 DEF RtPoll, Typed, TypeOK, RuntimeOK
  <2>4. DOMAIN last_seen_version' \subseteq Paths
        /\ last_seen_version' \in [DOMAIN last_seen_version' -> Stamps]
    BY <1>4, <2>2 DEF RtPoll, Typed, TypeOK, RuntimeOK, FilesOK
  <2>5. RuntimeOK'
    BY <1>4, <2>3, <2>4 DEF RtPoll, Typed, TypeOK, RuntimeOK, DurableOK, RtStates
  <2>6. ControlOK'
    BY <1>4 DEF RtPoll, Typed, TypeOK, ControlOK
  <2> QED
    BY <1>4, <2>5, <2>6, Untouched DEF RtPoll, Typed, TypeOK
<1>5. CASE RtPlan
  <2>1. PICK ev \in events : IF ev.stamp = Gone THEN plan_file_delete(ev.path) ELSE plan_file_version(ev)
    BY <1>5 DEF RtPlan
  <2>2. ev \in Fingerprints /\ ev.path \in Paths
    BY DEF Typed, TypeOK, RuntimeOK, Fingerprints
  <2>3. /\ planned_versions' \subseteq planned_versions \cup {ev}
        /\ planned_deletes' \subseteq planned_deletes \cup {ev.path}
        /\ \/ PlanAppend(WorkItemV2(ev)) \/ PlanAppend(DeleteDocument(ev.path))
           \/ rt' = "tick" /\ UNCHANGED <<wal, control, faults>>
    <3>1. CASE ev.stamp = Gone
      <4>1. plan_file_delete(ev.path)
        BY <2>1, <3>1
      <4> QED
        BY <4>1 DEF plan_file_delete
    <3>2. CASE ev.stamp # Gone
      <4>1. plan_file_version(ev)
        BY <2>1, <3>2
      <4> QED
        BY <4>1 DEF plan_file_version
    <3> QED
      BY <3>1, <3>2
  <2>4. \A r \in WalRecords : PlanAppend(r) =>
           wal' \in {wal, Append(wal, r)} /\ rt' \in RtStates /\ ControlOK'
    BY DEF PlanAppend, Typed, TypeOK, ControlOK, RtStates
  <2>5. wal' \in Seq(WalRecords) /\ DOMAIN wal \subseteq DOMAIN wal' /\ rt' \in RtStates /\ ControlOK'
    <3>1. wal \in Seq(WalRecords)
      BY DEF Typed, TypeOK, DurableOK
    <3>2. \A r \in WalRecords : Append(wal, r) \in Seq(WalRecords) /\ DOMAIN wal \subseteq DOMAIN Append(wal, r)
      BY <3>1
    <3>3. WorkItemV2(ev) \in WalRecords /\ DeleteDocument(ev.path) \in WalRecords
      BY <2>2, NewRecords
    <3>4. CASE PlanAppend(WorkItemV2(ev))
      BY <2>4, <3>1, <3>2, <3>3, <3>4
    <3>5. CASE PlanAppend(DeleteDocument(ev.path))
      BY <2>4, <3>1, <3>2, <3>3, <3>5
    <3>6. CASE rt' = "tick" /\ UNCHANGED <<wal, control, faults>>
      BY <3>1, <3>6, Untouched DEF Typed, TypeOK, RtStates
    <3> QED
      BY <2>3, <3>4, <3>5, <3>6
  <2>6. UNCHANGED <<env, sink, failed, last_seen_version, before, outbox, queue, worker>> /\ events' \subseteq events
    BY <1>5 DEF RtPlan
  <2>7. DurableOK'
    BY <2>5, <2>6 DEF Typed, TypeOK, DurableOK
  <2>8. RuntimeOK'
    BY <2>2, <2>3, <2>5, <2>6 DEF Typed, TypeOK, RuntimeOK
  <2> QED
    BY <2>5, <2>6, <2>7, <2>8, Untouched DEF Typed, TypeOK
<1>6. CASE RtCollect
  <2>1. RuntimeOK'
    BY <1>6 DEF RtCollect, Typed, TypeOK, RuntimeOK, DurableOK, RtStates
  <2>2. ControlOK'
    BY <1>6 DEF RtCollect, Typed, TypeOK, ControlOK
  <2> QED
    BY <1>6, <2>1, <2>2, Untouched DEF RtCollect, Typed, TypeOK
<1> QED
  BY <1>1, <1>2, <1>3, <1>4, <1>5, <1>6 DEF RtNext

LEMMA ItemFields ==
  /\ \A item \in Items : item.record \in WalRecords /\ IsTask(item.record) /\ item.attempt \in 1..MaxAttempts
  /\ \A r \in WalRecords, n \in 1..MaxAttempts : IsTask(r) => Item(r, n) \in Items
  BY DEF Items, Item

\* What the worker works on.
LEMMA WorkerHolds ==
  ASSUME WorkerOK
  PROVE  /\ wk \notin {"off", "recv", "done"} => hand[1] \in Items /\ InHand \in WalRecords /\ DOMAIN hand = {1}
         /\ wk \in {"load", "upsert"} => InHand.key \in Fingerprints
         /\ wk = "delete" => InHand.key \in Paths
<1>1. wk \notin {"off", "recv", "done"} => hand[1] \in Items /\ DOMAIN hand = {1}
  <2>1. hand \in Seq(Items) /\ DOMAIN hand = 1..Len(hand)
    BY Elements DEF WorkerOK
  <2>2. wk \notin {"off", "recv", "done"} => Len(hand) = 1
    BY DEF WorkerOK
  <2>3. Len(hand) = 1 => hand[1] \in Items /\ DOMAIN hand = {1}
    BY <2>1, Elements
  <2> QED
    BY <2>2, <2>3
<1>2. wk \notin {"off", "recv", "done"} => InHand \in WalRecords
  BY <1>1, ItemFields DEF InHand
<1> QED
  BY <1>1, <1>2, RecordKeys DEF WorkerOK, FileTypes, DeleteTypes

LEMMA WorkerTyped ==
  ASSUME Typed, WkNext
  PROVE  Typed'
<1> USE DEF WkAt, WkGoto
<1>6. wk \notin {"off", "recv", "done"} => hand[1] \in Items
  BY WorkerHolds DEF Typed, TypeOK
<1>7. wk \in {"load", "upsert"} => InHand.key \in Fingerprints
  BY WorkerHolds DEF Typed, TypeOK
<1>1. CASE WkTake
  <2>1. ASSUME NEW item, Take(item), IsTask(item.record) => item \in Items
        PROVE  /\ wk' \in WkStates /\ hand' \in Seq(Items)
               /\ Len(hand') = IF wk' \in {"off", "recv", "done"} THEN 0 ELSE 1
               /\ wk' \in {"load", "upsert"} => InHand'.type = "work_item_v2"
               /\ wk' = "delete" => InHand'.type = "delete_document"
    BY <2>1, EmptySeq DEF Take, FirstStep, IsTask, WorkTypes, WkStates, InHand
  <2>2. /\ retries # <<>> => Head(retries) \in Items
        /\ queue # <<>> /\ IsTask(Head(queue)) => Item(Head(queue), 1) \in Items
    BY ItemFields, ConstantsAssumption DEF Typed, TypeOK, WorkerOK, QueueOK
  <2>3. WorkerOK' /\ QueueOK'
    <3>1. CASE retries # <<>> /\ Take(Head(retries)) /\ retries' = Tail(retries) /\ UNCHANGED queue
      BY <1>1, <2>1, <2>2, <3>1 DEF WkTake, Typed, TypeOK, WorkerOK, QueueOK
    <3>2. CASE /\ retries = <<>> /\ queue # <<>>
               /\ Take(Item(Head(queue), 1)) /\ queue' = Tail(queue) /\ UNCHANGED retries
      <4>1. Item(Head(queue), 1).record = Head(queue)
        BY DEF Item
      <4>2. /\ wk' \in WkStates /\ hand' \in Seq(Items)
            /\ Len(hand') = IF wk' \in {"off", "recv", "done"} THEN 0 ELSE 1
            /\ wk' \in {"load", "upsert"} => InHand'.type = "work_item_v2"
            /\ wk' = "delete" => InHand'.type = "delete_document"
        BY <2>1, <2>2, <3>2, <4>1
      <4>3. WorkerOK'
        BY <1>1, <3>2, <4>2 DEF WkTake, Typed, TypeOK, WorkerOK
      <4>4. QueueOK'
        BY <3>2, HeadTailProperties, ConstantsAssumption DEF Typed, TypeOK, QueueOK
      <4> QED
        BY <4>3, <4>4
    <3> QED
      BY <1>1, <3>1, <3>2 DEF WkTake
  <2>4. UNCHANGED <<env, durable, runtime, control, faults>>
    BY <1>1 DEF WkTake, Take
  <2> QED
    BY <2>3, <2>4, Untouched DEF Typed, TypeOK
<1>2. CASE WkEnd \/ WkLoad \/ WkLock
  <2>1. WorkerOK'
    BY <1>2, <1>7 DEF WkEnd, WkLoad, StepFault, WkLock, InHand, Fingerprints, Typed, TypeOK, FilesOK, WorkerOK, WkStates, Errors
  <2>2. UNCHANGED <<env, durable, runtime, queue, control>> /\ faults' \in Nat
    BY <1>2 DEF WkEnd, WkLoad, StepFault, WkLock, Typed, TypeOK, ControlOK
  <2>3. ControlOK'
    BY <2>2 DEF Typed, TypeOK, ControlOK
  <2> QED
    BY <2>1, <2>2, <2>3, Untouched DEF Typed, TypeOK
<1>3. CASE WkUpsert \/ WkDelete
  <2>1. ASSUME NEW p, NEW content \in Stamps, SinkRequest(p, content)
        PROVE  /\ sink' \in [Paths -> Stamps] /\ wk' \in {"ack", "fail"} /\ err' \in Errors
               /\ faults' \in Nat /\ UNCHANGED <<env, runtime, control>>
    <3>1. sink' = sink \/ sink' = [sink EXCEPT ![p] = content]
      BY <2>1 DEF SinkRequest, StepFault
    <3>2. sink' \in [Paths -> Stamps]
      BY <3>1 DEF Typed, TypeOK, DurableOK
    <3>3. err' = err \/ err' = "retryable" \/ err' = "fatal"
      BY <2>1 DEF SinkRequest, StepFault
    <3>4. err' \in Errors
      BY <3>3 DEF Typed, TypeOK, WorkerOK, Errors
    <3>5. faults' \in Nat /\ wk' \in {"ack", "fail"}
      BY <2>1 DEF SinkRequest, StepFault, Typed, TypeOK, ControlOK
    <3>6. UNCHANGED <<env, runtime, control>>
      BY <2>1 DEF SinkRequest, StepFault
    <3> QED
      BY <3>2, <3>4, <3>5, <3>6
  <2>2. Gone \in Stamps /\ text \in Stamps
    BY ConstantsAssumption DEF Gone, Stamps, Typed, TypeOK, WorkerOK
  <2>3. /\ sink' \in [Paths -> Stamps] /\ wk' \in {"ack", "fail"} /\ err' \in Errors
        /\ faults' \in Nat /\ UNCHANGED <<env, runtime, control>>
    BY <1>3, <2>1, <2>2 DEF WkUpsert, WkDelete
  <2>4. WorkerOK'
    BY <1>3, <2>2, <2>3 DEF WkUpsert, WkDelete, Typed, TypeOK, WorkerOK, WkStates
  <2>5. DurableOK' /\ ControlOK'
    BY <1>3, <2>3 DEF WkUpsert, WkDelete, Typed, TypeOK, DurableOK, ControlOK
  <2> QED
    BY <1>3, <2>3, <2>4, <2>5, Untouched DEF WkUpsert, WkDelete, Typed, TypeOK, RuntimeOK
<1>4. CASE WkAck
  <2>1. hand[1] \in Items /\ AckOf(InHand) \in WalRecords
    BY ItemFields, <1>6, <1>4, AckRecords DEF WkAck, InHand
  <2>2. wal' \in {wal, Append(wal, AckOf(InHand))}
    BY <1>4 DEF WkAck
  <2>3. wal' \in Seq(WalRecords) /\ DOMAIN wal \subseteq DOMAIN wal'
    BY <2>1, <2>2 DEF Typed, TypeOK, DurableOK
  <2>4. DurableOK' /\ RuntimeOK'
    <3>1. UNCHANGED <<sink, failed, runtime>>
      BY <1>4 DEF WkAck
    <3>2. DurableOK'
      BY <2>3, <3>1 DEF Typed, TypeOK, DurableOK
    <3>3. RuntimeOK'
      BY <2>3, <3>1 DEF Typed, TypeOK, RuntimeOK
    <3> QED
      BY <3>2, <3>3
  <2>5. WorkerOK'
    <3>1. CASE hand' = <<>> /\ wk' = "recv" /\ err' = err
      BY <1>4, <3>1 DEF WkAck, Typed, TypeOK, WorkerOK, InHand, WkStates
    <3>2. CASE hand' = hand /\ wk' = "fail" /\ err' = "fatal"
      BY <1>4, <3>2 DEF WkAck, Typed, TypeOK, WorkerOK, InHand, WkStates, Errors
    <3> QED
      BY <1>4, <3>1, <3>2 DEF WkAck
  <2>6. ControlOK'
    <3>1. (faults' = faults \/ faults' = faults + 1) /\ UNCHANGED control
      BY <1>4 DEF WkAck, LogFault
    <3> QED
      BY <3>1 DEF Typed, TypeOK, ControlOK
  <2> QED
    BY <1>4, <2>4, <2>5, <2>6, Untouched DEF WkAck, Typed, TypeOK
<1>5. CASE WkFail
  <2>1. hand[1] \in Items
    BY <1>5, <1>6 DEF WkFail
  <2>2. retries' \in Seq(Items)
    <3>1. CASE ShouldRetry
      <4>1. Item(InHand, hand[1].attempt + 1) \in Items
        BY ItemFields, <2>1, <3>1, ConstantsAssumption DEF ShouldRetry, InHand
      <4> QED
        BY <1>5, <3>1, <4>1 DEF WkFail, Typed, TypeOK, WorkerOK
    <3>2. CASE ~ ShouldRetry
      BY <1>5, <3>2 DEF WkFail, Typed, TypeOK, WorkerOK
    <3> QED
      BY <3>1, <3>2
  <2>3. failed' \in Seq(JournalRecords) /\ faults' \in Nat
    <3> DEFINE new == Exhausted(next_failed_work_id(failed), InHand, err, hand[1].attempt)
    <3>1. next_failed_work_id(failed) \in Nat \ {0}
      BY NextId DEF Typed, TypeOK, DurableOK
    <3>2. /\ failed' = failed \/ failed' = Append(failed, new)
          /\ faults' = faults \/ faults' = faults + 1
      BY <1>5 DEF WkFail, Exhaust, LogFault
    <3>3. new \in JournalRecords
      BY ItemFields, <2>1, <3>1 DEF JournalRecords, Exhausted, InHand, Typed, TypeOK, DurableOK, WorkerOK
    <3> HIDE DEF new
    <3>4. failed \in Seq(JournalRecords) /\ faults \in Nat
      BY DEF Typed, TypeOK, DurableOK, ControlOK
    <3> HIDE DEF JournalRecords
    <3> QED
      BY <3>2, <3>3, <3>4
  <2>4. WorkerOK'
    BY <1>5, <2>2 DEF WkFail, Typed, TypeOK, WorkerOK, InHand, WkStates, Errors
  <2>5. DurableOK' /\ ControlOK'
    BY <1>5, <2>3 DEF WkFail, Typed, TypeOK, DurableOK, ControlOK
  <2> QED
    BY <1>5, <2>3, <2>4, <2>5, Untouched DEF WkFail, Typed, TypeOK, RuntimeOK
<1> QED
  BY <1>1, <1>2, <1>3, <1>4, <1>5 DEF WkNext

LEMMA NextTyped == Typed /\ [Next]_vars => Typed'
<1> SUFFICES ASSUME Typed, [Next]_vars
             PROVE  Typed'
  OBVIOUS
<1>1. CASE UNCHANGED vars
  BY <1>1, Untouched DEF vars, Typed, TypeOK
<1>2. CASE Next
  BY <1>2, FilesTyped, LifeTyped, RuntimeTyped, WorkerTyped DEF Next
<1> QED
  BY <1>1, <1>2

\* The log grows by a planned task, or by the acknowledgement of the record the
\* worker holds when it has the lock.
LEMMA LogGrowth ==
  ASSUME Typed, [Next]_vars
  PROVE  \/ wal' = wal
         \/ \E fp : wal' = Append(wal, WorkItemV2(fp))
         \/ \E p : wal' = Append(wal, DeleteDocument(p))
         \/ wk = "locked" /\ wal' = Append(wal, AckOf(InHand))
<1>1. CASE UNCHANGED vars
  BY <1>1 DEF vars
<1>2. CASE \E p \in Paths : WriteFile(p) \/ RemoveFile(p)
  BY <1>2 DEF WriteFile, RemoveFile, Change
<1>3. CASE Start \/ Crash \/ RequestShutdown \/ Terminate
  BY <1>3 DEF Start, Crash, RequestShutdown, Terminate, Down
<1>4. CASE RtPlan
  <2>1. PICK ev \in events :
          IF ev.stamp = Gone THEN plan_file_delete(ev.path) ELSE plan_file_version(ev)
    BY <1>4 DEF RtPlan
  <2>2. CASE ev.stamp = Gone
    BY <2>1, <2>2 DEF plan_file_delete, PlanAppend, RtGoto
  <2>3. CASE ev.stamp # Gone
    BY <2>1, <2>3 DEF plan_file_version, PlanAppend, RtGoto
  <2> QED
    BY <2>2, <2>3
<1>5. CASE RtNext /\ ~ RtPlan
  BY <1>5 DEF RtNext, RtReplay, RtSend, RtSent, RtStop, RtPoll, RtCollect
<1>6. CASE WkAck
  BY <1>6 DEF WkAck, WkAt
<1>7. CASE WkNext /\ ~ WkAck
  BY <1>7 DEF WkNext, WkTake, WkEnd, WkLoad, StepFault, WkUpsert, WkDelete, WkLock, WkFail
<1> QED
  BY <1>1, <1>2, <1>3, <1>4, <1>5, <1>6, <1>7 DEF Next

\* What is in the log stays where it is.
LEMMA Growth ==
  ASSUME Typed, Typed', [Next]_vars
  PROVE  /\ Len(wal) \in Nat /\ Len(wal') \in Nat /\ Len(wal) <= Len(wal')
         /\ \A i \in DOMAIN wal : i \in DOMAIN wal' /\ wal'[i] = wal[i]
<1>1. wal \in Seq(WalRecords) /\ wal' \in Seq(WalRecords)
  BY DEF Typed, TypeOK, DurableOK
<1>2. wal' = wal \/ \E r : wal' = Append(wal, r)
  BY LogGrowth
<1> QED
  BY <1>1, <1>2

\* Every variable keeps its type (TypeOK), whatever the constants.
THEOREM TypeCorrect == Spec => []TypeOK
<1>1. Init => Typed
  BY InitTyped
<1>2. Typed /\ [Next]_vars => Typed'
  BY NextTyped
<1>3. Typed => TypeOK
  BY DEF Typed
<1> QED
  BY <1>1, <1>2, <1>3, PTL DEF Spec

-----------------------------------------------------------------------------
(* Lemmas about logs and journals.                                          *)

\* A record appended to a log leaves no other work unacknowledged than before.
LEMMA AppendUnacked ==
  ASSUME NEW log \in Seq(WalRecords), NEW r \in WalRecords
  PROVE  Unacked(Append(log, r)) \subseteq Unacked(log) \cup {r}
<1> DEFINE longer == Append(log, r)
<1>1. /\ DOMAIN log \subseteq DOMAIN longer
      /\ \A i \in DOMAIN log : longer[i] = log[i]
      /\ \A i \in DOMAIN longer : i \in DOMAIN log \/ longer[i] = r
  OBVIOUS
<1> HIDE DEF longer
<1>2. ASSUME NEW i \in DOMAIN log, i \in UnackedAt(longer)
      PROVE  i \in UnackedAt(log)
  <2>1. CASE longer[i].type \in WorkTypes /\ ~ Acked(longer, longer[i])
    BY <1>1, <2>1 DEF UnackedAt, Acked
  <2>2. CASE PendingDelete(longer, i)
    BY <1>1, <2>2 DEF UnackedAt, PendingDelete, NoLater
  <2> QED
    BY <1>2, <2>1, <2>2 DEF UnackedAt
<1>3. ASSUME NEW i \in UnackedAt(longer)
      PROVE  longer[i] \in Unacked(log) \cup {r}
  <2>1. i \in DOMAIN longer
    BY UnackedInLog
  <2> QED
    BY <1>1, <1>2, <2>1 DEF Unacked
<1>4. Unacked(longer) \subseteq Unacked(log) \cup {r}
  BY <1>3 DEF Unacked
<1> QED
  BY <1>4 DEF longer

\* The acknowledgement of a task settles it.
LEMMA AckSettles ==
  ASSUME NEW log \in Seq(WalRecords), NEW r \in WalRecords, IsTask(r)
  PROVE  Unacked(Append(log, AckOf(r))) \subseteq Unacked(log) \ {r}
<1> DEFINE longer == Append(log, AckOf(r))
           end == Len(log) + 1
<1>1. /\ longer[end] = AckOf(r) /\ end \in DOMAIN longer
      /\ \A i \in DOMAIN longer : i # end => end > i
  OBVIOUS
<1>2. AckOf(r) \in WalRecords /\ ~ IsTask(AckOf(r))
  BY AckRecords DEF IsTask, WorkTypes, AckOf, SinkAck, SinkAckV2, DeleteAck
<1>3. Unacked(longer) \subseteq Unacked(log) \cup {AckOf(r)}
  BY <1>2, AppendUnacked
<1> HIDE DEF longer, end
<1>4. ASSUME NEW i \in UnackedAt(longer)
      PROVE  longer[i] # AckOf(r) /\ longer[i] # r
  <2>1. i \in DOMAIN longer /\ IsTask(longer[i])
    BY DEF UnackedAt, PendingDelete, IsTask
  <2>2. i # end
    BY <1>1, <1>2, <2>1
  <2>3. CASE r.type \in WorkTypes
    <3>1. Acked(longer, r)
      BY <1>1 DEF Acked
    <3> QED
      BY <1>2, <2>1, <2>3, <3>1 DEF UnackedAt, PendingDelete, WorkTypes
  <2>4. CASE r.type = "delete_document"
    <3>1. AckOf(r).type \in DeleteTypes /\ IsAbout(AckOf(r), r.key)
      BY <2>4 DEF AckOf, DeleteAck, DeleteTypes, IsAbout
    <3>2. longer[i] = r => ~ NoLater(longer, i, r.key, DeleteTypes)
      BY <1>1, <2>1, <2>2, <3>1 DEF NoLater
    <3> QED
      BY <1>2, <2>1, <2>4, <3>2 DEF UnackedAt, PendingDelete, WorkTypes
  <2> QED
    BY <2>3, <2>4 DEF IsTask
<1>5. Unacked(longer) \subseteq Unacked(log) \ {r}
  BY <1>3, <1>4 DEF Unacked
<1> QED
  BY <1>5 DEF longer

\* Newly exhausted work is pending, and what was pending stays so: its id is
\* not taken from other work.
LEMMA AppendPending ==
  ASSUME NEW journal \in Seq(JournalRecords), NEW x \in JournalRecords,
         x.type = "exhausted", x.id = next_failed_work_id(journal)
  PROVE  pending_failed_work(Append(journal, x)) = pending_failed_work(journal) \cup {x}
<1> DEFINE longer == Append(journal, x)
           end == Len(journal) + 1
<1>1. /\ DOMAIN longer = DOMAIN journal \cup {end}
      /\ \A i \in DOMAIN journal : longer[i] = journal[i] /\ i < end /\ ~ (i > end)
      /\ longer[end] = x /\ ~ (end > end)
  OBVIOUS
<1>2. \A i \in ExhaustedAt(journal) : journal[i].id # x.id
  <2>1. \A i \in ExhaustedAt(journal) : journal[i].id \in Nat
    BY DEF ExhaustedAt, JournalRecords
  <2> QED
    BY <2>1, NextId
<1> HIDE DEF longer, end
<1>3. PendingAt(longer) = PendingAt(journal) \cup {end}
  <2>1. \A j \in DOMAIN longer : ~ (j > end)
    BY <1>1
  <2>2. end \in PendingAt(longer)
    BY <1>1, <2>1 DEF PendingAt, ExhaustedAt, NoLaterOf
  <2>3. ASSUME NEW i \in DOMAIN journal
        PROVE  i \in PendingAt(longer) <=> i \in PendingAt(journal)
    BY <1>1, <1>2 DEF PendingAt, ExhaustedAt, NoLaterOf
  <2> QED
    BY <1>1, <2>2, <2>3 DEF PendingAt, ExhaustedAt
<1>4. PendingAt(journal) \subseteq DOMAIN journal
  BY DEF PendingAt, ExhaustedAt
<1> QED
  BY <1>1, <1>3, <1>4 DEF pending_failed_work, longer

-----------------------------------------------------------------------------
(* The inductive invariant.                                                 *)

\* A retry is taken before anything else, so that at most one waits, and none
\* while the worker works.
RetryNext == retries # <<>> => wk = "recv" /\ \E item : retries = <<item>>

\* Outside of sending nothing is left to send, and a tick looks back to a
\* length the log has had.
NothingUnsent == /\ rt \in {"loop", "tick"} => outbox = {}
                 /\ before <= Len(wal)

\* What was given up was tried as often as the policy allows, if it could be
\* tried again.
WorkInv == Typed /\ RetryNext /\ NothingUnsent /\ GivenUpLast

LEMMA InitWork == Init => WorkInv
<1> SUFFICES ASSUME Init PROVE WorkInv
  OBVIOUS
<1>1. Typed
  BY InitTyped
<1>2. Len(wal) \in Nat
  BY <1>1, Elements DEF Typed, TypeOK, DurableOK
<1> QED
  BY <1>1, <1>2 DEF Init, WorkInv, RetryNext, NothingUnsent, GivenUpLast, ExhaustedAt

\* Neither retries nor the runtime's cursors are disturbed by what a step does
\* not touch.
LEMMA RetryNextKept == ASSUME WorkInv, Typed', [Next]_vars PROVE RetryNext'
<1> USE DEF WorkInv
<1>2. CASE UNCHANGED <<wk, retries>>
  BY <1>2 DEF RetryNext
<1>3. CASE Start
  BY <1>3 DEF Start, RetryNext
<1>4. CASE Crash \/ Terminate
  BY <1>4 DEF Crash, Terminate, Down, RetryNext
<1>5. CASE WkTake
  <2>1. CASE retries # <<>>
    <3>1. retries' = Tail(retries) /\ \E item : retries = <<item>>
      BY <1>5, <2>1 DEF WkTake, RetryNext
    <3>2. \A item : Tail(<<item>>) = <<>>
      OBVIOUS
    <3> QED
      BY <3>1, <3>2 DEF RetryNext
  <2>2. CASE retries = <<>>
    BY <1>5, <2>2 DEF WkTake, RetryNext
  <2> QED
    BY <2>1, <2>2
<1>6. CASE WkFail
  <2>1. retries = <<>> /\ wk' = "recv"
    BY <1>6 DEF WkFail, WkAt, WkGoto, RetryNext
  <2>2. retries' = retries \/ \E item : retries' = Append(retries, item)
    BY <1>6, Zenon DEF WkFail
  <2>3. \A item : Append(<<>>, item) = <<item>>
    OBVIOUS
  <2> QED
    BY <2>1, <2>2, <2>3 DEF RetryNext
<1>7. CASE WkNext /\ ~ WkTake /\ ~ WkFail
  <2>1. retries' = retries
    BY <1>7 DEF WkNext, WkEnd, WkLoad, WkUpsert, WkDelete, WkLock, WkAck
  <2>2. retries = <<>>
    BY <1>7 DEF WkNext, WkAt, WkEnd, WkLoad, WkUpsert, WkDelete, WkLock, WkAck, RetryNext
  <2> QED
    BY <2>1, <2>2 DEF RetryNext
<1>8. CASE RtNext
  <2>1. UNCHANGED worker
    BY <1>8 DEF RtNext, RtReplay, RtSend, RtSent, RtStop, RtPoll, RtPlan, RtCollect
  <2> QED
    BY <1>2, <2>1
<1>9. CASE RequestShutdown \/ \E p \in Paths : WriteFile(p) \/ RemoveFile(p)
  <2>1. UNCHANGED worker
    BY <1>9 DEF RequestShutdown, WriteFile, RemoveFile, Change
  <2> QED
    BY <1>2, <2>1
<1>1. CASE UNCHANGED vars
  BY <1>1, <1>2 DEF vars
<1> QED
  BY <1>1, <1>3, <1>4, <1>5, <1>6, <1>7, <1>8, <1>9 DEF Next

LEMMA NothingUnsentKept == ASSUME WorkInv, Typed', [Next]_vars PROVE NothingUnsent'
<1> USE DEF WorkInv
<1>1. Len(wal) \in Nat /\ Len(wal') \in Nat /\ Len(wal) <= Len(wal') /\ before \in Nat
  BY Growth DEF Typed, TypeOK, RuntimeOK
<1>2. CASE UNCHANGED <<rt, outbox, before>>
  BY <1>1, <1>2 DEF NothingUnsent
<1>3. CASE Start \/ Crash \/ Terminate
  BY <1>1, <1>3 DEF Start, Crash, Terminate, Down, NothingUnsent
<1>4. CASE RtReplay \/ RtSend \/ RtSent \/ RtStop
  BY <1>1, <1>4 DEF RtReplay, RtSend, RtSent, RtStop, RtGoto, RtFail, NothingUnsent
<1>5. CASE RtPoll
  BY <1>1, <1>5 DEF RtPoll, RtFail, NothingUnsent
<1>6. CASE RtPlan \/ RtCollect
  <2>1. rt = "tick" /\ (before' = before \/ before' = 0)
    BY <1>6 DEF RtPlan, RtCollect
  <2>2. outbox' = outbox \/ rt' = "send"
    BY <1>6 DEF RtPlan, RtCollect, RtGoto
  <2> QED
    BY <1>1, <2>1, <2>2 DEF NothingUnsent
<1>7. CASE WkNext
  <2>1. UNCHANGED runtime
    BY <1>7 DEF WkNext, WkTake, Take, WkEnd, WkLoad, StepFault, WkUpsert, WkDelete, SinkRequest,
                WkLock, WkAck, WkFail, WkGoto
  <2> QED
    BY <1>2, <2>1
<1>8. CASE RequestShutdown \/ \E p \in Paths : WriteFile(p) \/ RemoveFile(p)
  <2>1. UNCHANGED runtime
    BY <1>8 DEF RequestShutdown, WriteFile, RemoveFile, Change
  <2> QED
    BY <1>2, <2>1
<1> QED
  BY <1>2, <1>3, <1>4, <1>5, <1>6, <1>7, <1>8 DEF Next, RtNext, vars

\* A new exhausted record has had its last attempt: no retry waits while the
\* worker works, so that the bound on them leaves room for this one.
LEMMA GivenUpLastKept == ASSUME WorkInv, Typed', [Next]_vars PROVE GivenUpLast'
<1> USE DEF WorkInv
<1>1. CASE failed' = failed
  BY <1>1 DEF GivenUpLast, ExhaustedAt
<1>2. CASE WkFail
  <2>1. hand[1] \in Items /\ hand[1].attempt \in 1..MaxAttempts
    BY <1>2, WorkerHolds, ItemFields DEF WkFail, WkAt, Typed, TypeOK
  <2>2. retries = <<>> /\ Len(<<>>) = 0
    BY <1>2 DEF WkFail, WkAt, RetryNext
  <2>3. err = "retryable" /\ ~ ShouldRetry => hand[1].attempt = MaxAttempts
    BY <2>1, <2>2, ConstantsAssumption DEF ShouldRetry
  <2>4. \/ failed' = failed
        \/ /\ failed' = Append(failed, Exhausted(next_failed_work_id(failed), InHand, err, hand[1].attempt))
           /\ ~ ShouldRetry
    BY <1>2, Zenon DEF WkFail, Exhaust
  <2>5. ASSUME NEW r, failed' = Append(failed, r), r.reason = "retryable" => r.attempts = MaxAttempts
        PROVE  GivenUpLast'
    <3>1. failed \in Seq(JournalRecords)
      BY DEF Typed, TypeOK, DurableOK
    <3>2. \A i \in DOMAIN failed' : (i \in DOMAIN failed /\ failed'[i] = failed[i]) \/ failed'[i] = r
      BY <2>5, <3>1
    <3> QED
      BY <2>5, <3>2 DEF GivenUpLast, ExhaustedAt
  <2> QED
    BY <1>1, <2>3, <2>4, <2>5 DEF Exhausted
<1>3. CASE UNCHANGED vars
  BY <1>1, <1>3 DEF vars
<1>4. CASE WkNext /\ ~ WkFail
  BY <1>1, <1>4 DEF WkNext, WkTake, WkEnd, WkLoad, WkUpsert, WkDelete, WkLock, WkAck
<1>5. CASE RtNext
  BY <1>1, <1>5 DEF RtNext, RtReplay, RtSend, RtSent, RtStop, RtPoll, RtPlan, RtCollect
<1>6. CASE Start \/ Crash \/ Terminate \/ RequestShutdown
  BY <1>1, <1>6 DEF Start, Crash, Terminate, Down, RequestShutdown
<1>7. CASE \E p \in Paths : WriteFile(p) \/ RemoveFile(p)
  BY <1>1, <1>7 DEF WriteFile, RemoveFile, Change
<1> QED
  BY <1>2, <1>3, <1>4, <1>5, <1>6, <1>7 DEF Next

LEMMA WorkInvariance == Spec => []WorkInv
<1>1. Init => WorkInv
  BY InitWork
<1>2. WorkInv /\ [Next]_vars => WorkInv'
  <2> SUFFICES ASSUME WorkInv, [Next]_vars PROVE WorkInv'
    OBVIOUS
  <2>1. Typed'
    BY NextTyped DEF WorkInv
  <2> QED
    BY <2>1, RetryNextKept, NothingUnsentKept, GivenUpLastKept DEF WorkInv
<1> QED
  BY <1>1, <1>2, PTL DEF Spec

\* Transient errors never cost work an attempt (GivenUpLast), whatever the
\* policy: the bound on queued retries, which the worker checks before it
\* retries, is never what gives work up.
THEOREM TriedToTheEnd == Spec => []GivenUpLast
<1>1. WorkInv => GivenUpLast
  BY DEF WorkInv
<1> QED
  BY <1>1, WorkInvariance, PTL

-----------------------------------------------------------------------------
(* Where work can be, and where it is lost.                                 *)

Sending(r)  == \E i \in Planned \cup outbox : wal[i] = r
Queued(r)   == \E i \in DOMAIN queue : queue[i] = r
Held(r)     == \E i \in DOMAIN hand : hand[i].record = r
Retrying(r) == \E i \in DOMAIN retries : retries[i].record = r

\* The log is taken by the worker at the end of a tick: what the tick planned
\* is not sent.
TickSkipped == rt = "tick" /\ WalLocked /\ rt' = "loop"

\* The journal cannot be written when work is given up.
JournalFailed == wk = "fail" /\ wk' = "recv" /\ failed' = failed /\ faults' # faults

\* Unacknowledged work leaves the running process at no other step.
WorkIsLostOnly == [][NoLostWork /\ ~ NoLostWork' => TickSkipped \/ JournalFailed]_vars

LEMMA InFlightParts ==
  /\ \A r : r \in InFlight <=> Sending(r) \/ Queued(r) \/ Held(r) \/ Retrying(r)
  /\ \A r : r \in InFlight' <=> Sending(r)' \/ Queued(r)' \/ Held(r)' \/ Retrying(r)'
  BY DEF InFlight, Sending, Queued, Held, Retrying

\* A step that moves nothing but perhaps shortens or lengthens the wait.
LEMMA WorkStays ==
  ASSUME NoLostWork, Running' => Running, UNCHANGED <<wal, failed, queue, hand, retries>>,
         \A i \in Planned \cup outbox : i \in (Planned \cup outbox)'
  PROVE  NoLostWork'
<1>1. \A r : /\ (Sending(r) => Sending(r)') /\ (Queued(r) => Queued(r)')
             /\ (Held(r) => Held(r)') /\ (Retrying(r) => Retrying(r)')
  BY DEF Sending, Queued, Held, Retrying
<1>2. Journaled' = Journaled
  BY DEF Journaled
<1> QED
  BY <1>1, <1>2, InFlightParts DEF NoLostWork

LEMMA RuntimeKeepsWork ==
  ASSUME WorkInv, Typed', RtNext, NoLostWork, ~ TickSkipped
  PROVE  NoLostWork'
<1> USE DEF WorkInv
<1>1. wal \in Seq(WalRecords) /\ DOMAIN wal = 1..Len(wal) /\ Len(wal) \in Nat /\ before \in Nat
  BY Elements DEF Typed, TypeOK, DurableOK, RuntimeOK
<1>2. CASE RtReplay
  <2>1. CASE outbox' = UnackedAt(wal)
    <3>1. wal' = wal
      BY <1>2 DEF RtReplay
    <3>2. \A r \in Unacked(wal)' : Sending(r)'
      BY <2>1, <3>1 DEF Unacked, Sending
    <3> QED
      BY <3>2, InFlightParts DEF NoLostWork
  <2>2. CASE exit' # "none"
    BY <2>2 DEF NoLostWork, Running
  <2> QED
    BY <1>2, <2>1, <2>2 DEF RtReplay, RtFail
<1>3. CASE RtSend
  <2>1. PICK i \in outbox : queue' = Append(queue, wal[i]) /\ outbox' = outbox \ {i}
    BY <1>3 DEF RtSend
  <2>2. /\ rt \in {"send_replay", "send"} /\ rt' \in {rt, "exited"}
        /\ UNCHANGED <<wal, failed, hand, retries, exit>>
    BY <1>3 DEF RtSend, RtGoto
  <2>3. Planned = {} /\ Planned' = {}
    BY <2>2 DEF Planned
  <2>4. queue \in Seq(WalRecords) /\ queue' \in Seq(WalRecords)
    BY DEF Typed, TypeOK, QueueOK
  <2>5. /\ \A k \in DOMAIN queue : k \in DOMAIN queue' /\ queue'[k] = queue[k]
        /\ \E k \in DOMAIN queue' : queue'[k] = wal[i]
    BY <2>1, <2>4
  <2>6. \A r : /\ Sending(r) => Sending(r)' \/ Queued(r)'
               /\ Queued(r) => Queued(r)'
               /\ (Held(r) => Held(r)') /\ (Retrying(r) => Retrying(r)')
    BY <2>1, <2>2, <2>3, <2>5 DEF Sending, Queued, Held, Retrying
  <2>7. (Running' => Running) /\ Journaled' = Journaled
    BY <2>2 DEF Running, Journaled
  <2> QED
    BY <2>2, <2>6, <2>7, InFlightParts DEF NoLostWork
<1>4. CASE RtSent \/ RtStop
  <2>1. /\ UNCHANGED <<wal, failed, queue, hand, retries, outbox, exit>>
        /\ rt \in {"send_replay", "send", "loop"}
    BY <1>4 DEF RtSent, RtStop, RtGoto
  <2>2. Planned = {} /\ (Running' => Running)
    BY <2>1 DEF Planned, Running
  <2> QED
    BY <2>1, <2>2, WorkStays
<1>5. CASE RtPoll
  <2>1. UNCHANGED <<wal, failed, queue, hand, retries, outbox>> /\ rt = "loop"
    BY <1>5 DEF RtPoll
  <2>2. exit' = exit \/ exit' = "runtime_failed"
    BY <1>5 DEF RtPoll, RtFail
  <2>3. Planned = {} /\ (Running' => Running)
    BY <2>1, <2>2 DEF Planned, Running, Typed, TypeOK, ControlOK
  <2> QED
    BY <2>1, <2>2, <2>3, WorkStays
<1>6. CASE RtPlan
  <2>1. rt = "tick" /\ UNCHANGED <<before, outbox, failed, queue, hand, retries>>
    BY <1>6 DEF RtPlan
  <2>2. \/ rt' = "tick" /\ UNCHANGED <<wal, exit>>
        \/ rt' = "tick" /\ exit' = exit /\ \E r \in WalRecords : wal' = Append(wal, r)
        \/ exit' = "runtime_failed"
    <3>1. PICK ev \in events :
            IF ev.stamp = Gone THEN plan_file_delete(ev.path) ELSE plan_file_version(ev)
      BY <1>6 DEF RtPlan
    <3>2. ev \in Fingerprints /\ ev.path \in Paths
      BY DEF Typed, TypeOK, RuntimeOK, Fingerprints
    <3>3. WorkItemV2(ev) \in WalRecords /\ DeleteDocument(ev.path) \in WalRecords
      BY <3>2, NewRecords
    <3>4. CASE ev.stamp = Gone
      BY <3>1, <3>3, <3>4 DEF plan_file_delete, PlanAppend, RtGoto, RtFail
    <3>5. CASE ev.stamp # Gone
      BY <3>1, <3>3, <3>5 DEF plan_file_version, PlanAppend, RtGoto, RtFail
    <3> QED
      BY <3>4, <3>5
  <2>3. CASE rt' = "tick" /\ UNCHANGED <<wal, exit>>
    <3>1. Planned' = Planned /\ (Running' => Running)
      BY <2>1, <2>3 DEF Planned, Running
    <3> QED
      BY <2>1, <2>3, <3>1, WorkStays
  <2>4. ASSUME NEW r \in WalRecords, wal' = Append(wal, r), rt' = "tick", exit' = exit
        PROVE  NoLostWork'
    <3>1. /\ wal'[Len(wal) + 1] = r /\ Len(wal') = Len(wal) + 1
          /\ \A i \in DOMAIN wal : wal'[i] = wal[i]
      BY <1>1, <2>4
    <3>2. Planned \subseteq DOMAIN wal /\ outbox \subseteq DOMAIN wal
      BY <1>1 DEF Planned, Typed, TypeOK, RuntimeOK
    <3>3. Planned \subseteq Planned' /\ Len(wal) + 1 \in Planned'
      BY <1>1, <2>1, <2>4, <3>1 DEF Planned, NothingUnsent
    <3>4. Sending(r)'
      BY <3>1, <3>3 DEF Sending
    <3>5. \A q : /\ (Sending(q) => Sending(q)') /\ (Queued(q) => Queued(q)')
                 /\ (Held(q) => Held(q)') /\ (Retrying(q) => Retrying(q)')
      BY <2>1, <3>1, <3>2, <3>3 DEF Sending, Queued, Held, Retrying
    <3>6. Unacked(wal') \subseteq Unacked(wal) \cup {r}
      BY <1>1, <2>4, AppendUnacked
    <3>7. (Running' => Running) /\ Journaled' = Journaled
      BY <2>1, <2>4 DEF Running, Journaled
    <3> QED
      BY <3>4, <3>5, <3>6, <3>7, InFlightParts DEF NoLostWork
  <2>5. CASE exit' = "runtime_failed"
    BY <2>5 DEF NoLostWork, Running
  <2> QED
    BY <2>2, <2>3, <2>4, <2>5
<1>7. CASE RtCollect
  <2>1. rt = "tick" /\ UNCHANGED <<wal, failed, queue, hand, retries>> /\ outbox = {}
    BY <1>7 DEF RtCollect, NothingUnsent
  <2>2. \/ outbox' = (before + 1)..Len(wal) /\ exit' = exit
        \/ exit' = "runtime_failed"
    BY <1>7, <2>1 DEF RtCollect, TickSkipped, RtGoto, RtFail
  <2>3. CASE outbox' = (before + 1)..Len(wal) /\ exit' = exit
    <3>1. Planned \cup outbox \subseteq outbox' /\ (Running' => Running)
      BY <2>1, <2>3 DEF Planned, Running
    <3> QED
      BY <2>1, <3>1, WorkStays
  <2>4. CASE exit' = "runtime_failed"
    BY <2>4 DEF NoLostWork, Running
  <2> QED
    BY <2>2, <2>3, <2>4
<1> QED
  BY <1>2, <1>3, <1>4, <1>5, <1>6, <1>7 DEF RtNext

\* Every task has a first step.
LEMMA TasksStart == ASSUME NEW r, IsTask(r) PROVE FirstStep(r) # "recv"
  BY DEF IsTask, WorkTypes, FirstStep

LEMMA UnackedAreTasks == ASSUME NEW log, NEW r \in Unacked(log) PROVE IsTask(r)
  BY DEF Unacked, UnackedAt, PendingDelete, IsTask

\* A record that is taken and dropped was none to be acknowledged.
LEMMA TakeKeepsWork == ASSUME WorkInv, Typed', WkTake, NoLostWork PROVE NoLostWork'
<1> USE DEF WorkInv
<1>1. /\ UNCHANGED <<wal, failed, rt, before, outbox, exit>>
      /\ wk = "recv"
  BY DEF WkTake, Take, WkAt, WkGoto
<1>2. hand = <<>>
  BY <1>1 DEF Typed, TypeOK, WorkerOK
<1>3. /\ Planned' = Planned /\ Journaled' = Journaled /\ Running' = Running
      /\ \A r : Sending(r) => Sending(r)'
      /\ \A r : ~ Held(r)
  BY <1>1, <1>2 DEF Planned, Journaled, Running, Sending, Held
<1>4. queue \in Seq(WalRecords) /\ queue' \in Seq(WalRecords)
  BY DEF Typed, TypeOK, QueueOK
<1>5. ASSUME NEW item, hand' = IF FirstStep(item.record) = "recv" THEN <<>> ELSE <<item>>,
             IsTask(item.record)
      PROVE  Held(item.record)'
  <2>1. hand' = <<item>>
    BY <1>5, TasksStart
  <2> QED
    BY <2>1 DEF Held
<1>6. ASSUME NEW r, IsTask(r), Queued(r) \/ Retrying(r)
      PROVE  Queued(r)' \/ Retrying(r)' \/ Held(r)'
  <2>1. CASE retries # <<>>
    <3>1. PICK item : retries = <<item>>
      BY <2>1 DEF RetryNext
    <3>2. Head(retries) = item /\ queue' = queue
      BY <2>1, <3>1 DEF WkTake
    <3>3. Retrying(r) => item.record = r
      BY <3>1 DEF Retrying
    <3>4. hand' = IF FirstStep(item.record) = "recv" THEN <<>> ELSE <<item>>
      BY <2>1, <3>2 DEF WkTake, Take
    <3> QED
      BY <1>5, <1>6, <3>2, <3>3, <3>4 DEF Queued
  <2>2. CASE retries = <<>>
    <3>1. queue # <<>> /\ queue' = Tail(queue)
      BY <2>2 DEF WkTake
    <3>2. hand' = IF FirstStep(Item(Head(queue), 1).record) = "recv" THEN <<>> ELSE <<Item(Head(queue), 1)>>
      BY <2>2 DEF WkTake, Take
    <3>3. Item(Head(queue), 1).record = Head(queue)
      BY DEF Item
    <3>4. \A i \in DOMAIN queue : i = 1 \/ (i - 1 \in DOMAIN queue' /\ queue'[i - 1] = queue[i])
      BY <1>4, <3>1
    <3>5. Head(queue) = queue[1]
      BY <1>4, <3>1
    <3>6. Queued(r) => r = Head(queue) \/ Queued(r)'
      BY <3>4, <3>5 DEF Queued
    <3>7. ~ Retrying(r)
      BY <2>2 DEF Retrying
    <3> QED
      BY <1>5, <1>6, <3>2, <3>3, <3>6, <3>7
  <2> QED
    BY <2>1, <2>2
<1> QED
  BY <1>1, <1>3, <1>6, InFlightParts, UnackedAreTasks DEF NoLostWork

\* An acknowledgement takes work out of the log and out of the hand.
LEMMA AckKeepsWork == ASSUME WorkInv, Typed', WkAck, NoLostWork PROVE NoLostWork'
<1> USE DEF WorkInv
<1>1. /\ UNCHANGED <<failed, rt, before, outbox, exit, queue, retries>>
      /\ wk = "locked"
  BY DEF WkAck, WkAt, WkGoto
<1>2. /\ DOMAIN hand = {1} /\ InHand \in WalRecords /\ IsTask(InHand)
  BY <1>1, WorkerHolds, ItemFields DEF Typed, TypeOK, InHand
<1>3. wal \in Seq(WalRecords) /\ wal' \in Seq(WalRecords) /\ before \in Nat /\ outbox \subseteq DOMAIN wal
  BY DEF Typed, TypeOK, DurableOK, RuntimeOK
<1>4. wal' = wal \/ wal' = Append(wal, AckOf(InHand))
  BY DEF WkAck
<1>5. \A i \in Planned \cup outbox : i \in (Planned \cup outbox)' /\ wal'[i] = wal[i]
  BY <1>1, <1>3, <1>4 DEF Planned
<1>6. /\ Journaled' = Journaled /\ Running' = Running
      /\ \A r : /\ (Sending(r) => Sending(r)') /\ (Queued(r) => Queued(r)')
                /\ Retrying(r) => Retrying(r)'
  BY <1>1, <1>5 DEF Journaled, Running, Sending, Queued, Retrying
<1>7. Unacked(wal') \subseteq Unacked(wal)
  BY <1>2, <1>3, <1>4, AckSettles
<1>8. CASE hand' = hand
  <2>1. \A r : Held(r) => Held(r)'
    BY <1>8 DEF Held
  <2> QED
    BY <1>6, <1>7, <2>1, InFlightParts DEF NoLostWork
<1>9. CASE wal' = Append(wal, AckOf(InHand))
  <2>1. Unacked(wal') \subseteq Unacked(wal) \ {InHand}
    BY <1>2, <1>3, <1>9, AckSettles
  <2>2. \A r : Held(r) => r = InHand
    BY <1>2 DEF Held, InHand
  <2> QED
    BY <1>6, <2>1, <2>2, InFlightParts DEF NoLostWork
<1> QED
  BY <1>8, <1>9 DEF WkAck

\* Failed work is scheduled again or journaled.
\* Work that is given up is in the journal, with all that was there.
LEMMA FailJournals ==
  ASSUME WorkInv, WkFail
  PROVE  /\ Journaled \subseteq Journaled'
         /\ failed' # failed => InHand \in Journaled'
<1> USE DEF WorkInv
<1> DEFINE new == Exhausted(next_failed_work_id(failed), InHand, err, hand[1].attempt)
<1>1. wk = "fail" /\ (failed' = failed \/ failed' = Append(failed, new))
  BY Zenon DEF WkFail, WkAt, Exhaust, LogFault
<1>2. CASE failed' = failed
  BY <1>2 DEF Journaled
<1>3. CASE failed' = Append(failed, new)
  <2>1. new.type = "exhausted" /\ new.id = next_failed_work_id(failed) /\ new.work = InHand
    BY DEF Exhausted
  <2>2. hand[1] \in Items /\ err \in Errors /\ failed \in Seq(JournalRecords)
    BY <1>1, WorkerHolds DEF Typed, TypeOK, WorkerOK, DurableOK
  <2>3. new \in JournalRecords
    BY <2>2, NextId, ItemFields DEF JournalRecords, Exhausted, InHand
  <2> HIDE DEF new
  <2>4. pending_failed_work(failed') = pending_failed_work(failed) \cup {new}
    BY <1>3, <2>1, <2>2, <2>3, AppendPending
  <2> QED
    BY <2>1, <2>4 DEF Journaled
<1> QED
  BY <1>1, <1>2, <1>3

LEMMA FailKeepsWork ==
  ASSUME WorkInv, Typed', WkFail, NoLostWork, ~ JournalFailed
  PROVE  NoLostWork'
<1> USE DEF WorkInv
<1>1. /\ UNCHANGED <<wal, rt, before, outbox, exit, queue>>
      /\ wk = "fail" /\ wk' = "recv"
  BY DEF WkFail, WkAt, WkGoto
<1>2. DOMAIN hand = {1}
  BY <1>1, WorkerHolds DEF Typed, TypeOK
<1>3. retries \in Seq(Items) /\ retries' \in Seq(Items) /\ failed \in Seq(JournalRecords)
      /\ failed' \in Seq(JournalRecords) /\ faults \in Nat
  BY DEF Typed, TypeOK, WorkerOK, DurableOK, ControlOK
<1>4. \/ failed' = failed /\ retries' = Append(retries, Item(InHand, hand[1].attempt + 1))
      \/ /\ retries' = retries
         /\ failed' = Append(failed, Exhausted(next_failed_work_id(failed), InHand, err, hand[1].attempt))
      \/ retries' = retries /\ failed' = failed /\ faults' = faults + 1
  BY Zenon DEF WkFail, Exhaust, LogFault
<1>5. ~ (failed' = failed /\ faults' = faults + 1)
  BY <1>1, <1>3 DEF JournalFailed
<1>6. /\ Planned' = Planned /\ Running' = Running
      /\ \A r : (Sending(r) => Sending(r)') /\ (Queued(r) => Queued(r)')
  BY <1>1 DEF Planned, Running, Sending, Queued
<1>7. /\ Journaled \subseteq Journaled'
      /\ failed' # failed => InHand \in Journaled'
  BY FailJournals DEF WorkInv
<1>8. \A r : Retrying(r) => Retrying(r)'
  <2>1. \A i \in DOMAIN retries : i \in DOMAIN retries' /\ retries'[i] = retries[i]
    BY <1>3, <1>4
  <2> QED
    BY <2>1 DEF Retrying
<1>9. \A r : Held(r) => r = InHand
  BY <1>2 DEF Held, InHand
<1>10. ASSUME NEW r, Held(r)
       PROVE  Retrying(r)' \/ r \in Journaled'
  <2>1. r = InHand
    BY <1>9, <1>10
  <2>2. CASE retries' = Append(retries, Item(InHand, hand[1].attempt + 1))
    <3>1. retries'[Len(retries) + 1] = Item(r, hand[1].attempt + 1) /\ Len(retries) + 1 \in DOMAIN retries'
      BY <1>3, <2>1, <2>2
    <3>2. retries'[Len(retries) + 1].record = r
      BY <3>1 DEF Item
    <3> QED
      BY <3>1, <3>2 DEF Retrying
  <2>3. CASE failed' = Append(failed, Exhausted(next_failed_work_id(failed), InHand, err, hand[1].attempt))
    <3>1. failed' # failed
      <4>1. Len(failed') = Len(failed) + 1 /\ Len(failed) \in Nat
        BY <1>3, <2>3
      <4> QED
        BY <4>1
    <3> QED
      BY <1>7, <2>1, <3>1
  <2> QED
    BY <1>4, <1>5, <2>2, <2>3
<1> QED
  BY <1>1, <1>6, <1>7, <1>8, <1>10, InFlightParts DEF NoLostWork

\* The other steps of the worker leave the work where it is.
LEMMA WorkerKeepsWork ==
  ASSUME WorkInv, Typed', WkNext, NoLostWork, ~ JournalFailed
  PROVE  NoLostWork'
<1>1. CASE WkEnd \/ WkLoad \/ WkUpsert \/ WkDelete \/ WkLock
  <2>1. UNCHANGED <<wal, failed, queue, hand, retries, rt, exit, before, outbox>>
    BY <1>1 DEF WkEnd, WkLoad, WkUpsert, WkDelete, SinkRequest, StepFault, WkLock, WkGoto
  <2>2. Planned' = Planned /\ Running' = Running
    BY <2>1 DEF Planned, Running
  <2> QED
    BY <2>1, <2>2, WorkStays
<1> QED
  BY <1>1, TakeKeepsWork, AckKeepsWork, FailKeepsWork DEF WkNext

-----------------------------------------------------------------------------
LEMMA KeepsWork ==
  ASSUME WorkInv, Typed', [Next]_vars, NoLostWork, ~ TickSkipped, ~ JournalFailed
  PROVE  NoLostWork'
<1>1. CASE \/ UNCHANGED vars \/ RequestShutdown
           \/ \E p \in Paths : WriteFile(p) \/ RemoveFile(p)
  <2>1. UNCHANGED <<wal, failed, queue, hand, retries, rt, exit, before, outbox>>
    BY <1>1 DEF vars, RequestShutdown, WriteFile, RemoveFile, Change
  <2>2. Planned' = Planned /\ Running' = Running
    BY <2>1 DEF Planned, Running
  <2> QED
    BY <2>1, <2>2, WorkStays
<1>2. CASE Start \/ Crash \/ Terminate
  BY <1>2 DEF Start, Crash, Terminate, Down, NoLostWork, Running
<1> QED
  BY <1>1, <1>2, RuntimeKeepsWork, WorkerKeepsWork DEF Next

\* Unacknowledged work leaves the running process in two windows only: when a
\* tick finds the log taken by the worker at its end and does not send what it
\* planned, and when work is given up and the journal cannot be written.  With
\* any threads, any faults, any policy.
THEOREM LosesWorkInTwoWindows == Spec => WorkIsLostOnly
<1>1. WorkInv /\ WorkInv' /\ [Next]_vars
      => [NoLostWork /\ ~ NoLostWork' => TickSkipped \/ JournalFailed]_vars
  BY KeepsWork DEF WorkInv
<1> QED
  BY <1>1, WorkInvariance, PTL DEF Spec, WorkIsLostOnly

\* On a single thread, and while the log and the journal can be written, no
\* work is ever lost: whatever crashes, fails in the sink or is shut down.
THEOREM NoWorkIsLost == ASSUME ~ MultiThread, ~ LogFaults PROVE Spec => []NoLostWork
<1>1. Init => NoLostWork
  BY DEF Init, NoLostWork, Running
<1>2. ASSUME WorkInv, Typed', [Next]_vars, NoLostWork
      PROVE  NoLostWork'
  <2>1. TickSkipped => FALSE
    <3> SUFFICES ASSUME TickSkipped PROVE FALSE
      OBVIOUS
    <3>1. rt = "tick" /\ rt' = "loop" /\ WalLocked
      BY DEF TickSkipped
    <3>2. RtNext
      BY <1>2, <3>1 DEF Next, vars, Start, Crash, Terminate, Down, RequestShutdown, WriteFile,
                        RemoveFile, Change, WkNext, WkTake, Take, WkEnd, WkLoad, StepFault,
                        WkUpsert, WkDelete, SinkRequest, WkLock, WkAck, WkFail, WkGoto
    <3>3. RtScheduled
      BY <3>2 DEF RtNext, RtReplay, RtSend, RtSent, RtStop, RtPoll, RtPlan, RtCollect
    <3> QED
      BY <3>1, <3>3 DEF RtScheduled
  <2>2. JournalFailed => FALSE
    <3> SUFFICES ASSUME JournalFailed PROVE FALSE
      OBVIOUS
    <3>1. wk = "fail" /\ wk' = "recv" /\ failed' = failed /\ faults' # faults
      BY DEF JournalFailed
    <3>2. faults' = faults \/ LogFault \/ StepFault
      BY <1>2, <3>1, Zenon DEF WkFail, Exhaust, Next, vars, Start, Crash, Terminate, Down,
           RequestShutdown, WriteFile, RemoveFile, Change, WkNext, WkTake, Take, WkEnd, WkLoad,
           WkUpsert, WkDelete, SinkRequest, WkLock, WkAck, RtNext, RtReplay, RtSend, RtSent,
           RtStop, RtPoll, RtPlan, PlanAppend, plan_file_version, plan_file_delete, RtCollect
    <3> QED
      BY <3>1, <3>2 DEF LogFault, StepFault, WkGoto
  <2> QED
    BY <1>2, <2>1, <2>2, KeepsWork
<1>3. WorkInv /\ WorkInv' /\ [Next]_vars /\ NoLostWork => NoLostWork'
  BY <1>2 DEF WorkInv
<1> QED
  BY <1>1, <1>3, WorkInvariance, PTL DEF Spec

-----------------------------------------------------------------------------
(* When every write gives a file a fresh fingerprint, the stamps in the     *)
(* files, the records and the sink are ordered (InOrder), whatever the      *)
(* number of files, faults, crashes and restarts.  From it follow that an   *)
(* acknowledgement means applied, that Ingest implements DocSync, and, with *)
(* what the planner remembers, that nothing is planned twice (PlannedOnce). *)

IInv == Typed /\ InOrder

-----------------------------------------------------------------------------
(* What the owner's steps keep, and what the steps of the program keep.     *)

\* A stamp of the past stays one, and what was had or removed once stays so.
Kept == /\ \A q \in Paths, s \in Stamps : Past(q, s) => Past(q, s)'
        /\ \A q \in Paths : history[q] \subseteq history'[q]
        /\ removed \subseteq removed'

LEMMA KeptRecords ==
  ASSUME Kept, NEW r \in WalRecords, RecordInOrder(r)
  PROVE  /\ r.type \in FileTypes =>
              /\ r.key.stamp <= changes'
              /\ files'[r.key.path] # Gone => r.key.stamp <= files'[r.key.path]
              /\ history'[r.key.path] # {}
         /\ r.type = "delete_document" => r.key \in removed'
<1>1. r.type \in FileTypes => r.key.path \in Paths /\ r.key.stamp \in Stamps
  BY RecordKeys DEF Fingerprints
<1> QED
  BY <1>1 DEF Kept, RecordInOrder, Past

LEMMA OwnerKeeps ==
  ASSUME FreshStamps, IInv, NEW p \in Paths, WriteFile(p) \/ RemoveFile(p)
  PROVE  Kept /\ FilesInOrder'
<1> USE DEF IInv, InOrder, Typed, TypeOK, FilesOK, DurableOK, Stamps, Gone
<1>1. CASE WriteFile(p)
  <2>1. /\ files' = [files EXCEPT ![p] = changes + 1] /\ changes' = changes + 1
        /\ history' = [history EXCEPT ![p] = @ \cup {changes + 1}]
        /\ removed' = removed /\ sink' = sink
    BY <1>1 DEF WriteFile, Change
  <2>2. Kept
    BY <2>1 DEF Kept, Past
  <2>3. FilesInOrder'
    BY <2>1 DEF FilesInOrder, Past
  <2> QED
    BY <2>2, <2>3
<1>2. CASE RemoveFile(p)
  <2>1. /\ files' = [files EXCEPT ![p] = 0] /\ changes' = changes + 1
        /\ history' = history /\ removed' = removed \cup {p} /\ sink' = sink
    BY <1>2 DEF RemoveFile, Change
  <2>2. Kept
    BY <2>1 DEF Kept, Past
  <2>3. FilesInOrder'
    BY <2>1 DEF FilesInOrder, Past
  <2> QED
    BY <2>2, <2>3
<1> QED
  BY <1>1, <1>2

\* A step that leaves the files alone keeps the order of what it does not touch.
LEMMA ProgramKeeps ==
  ASSUME UNCHANGED env
  PROVE  /\ FilesInOrder /\ UNCHANGED sink => FilesInOrder'
         /\ RuntimeInOrder /\ UNCHANGED <<last_seen_version, events>> => RuntimeInOrder'
         /\ RecordsInOrder /\ UNCHANGED <<wal, queue, hand, retries>> => RecordsInOrder'
         /\ UpsertInOrder /\ UNCHANGED <<sink, worker>> => UpsertInOrder'
         /\ AckInOrder /\ UNCHANGED <<sink, worker>> => AckInOrder'
<1>1. FilesInOrder /\ UNCHANGED sink => FilesInOrder'
  BY DEF FilesInOrder, Past
<1>2. RuntimeInOrder /\ UNCHANGED <<last_seen_version, events>> => RuntimeInOrder'
  BY DEF RuntimeInOrder, Past
<1>3. RecordsInOrder /\ UNCHANGED <<wal, queue, hand, retries>> => RecordsInOrder'
  BY DEF RecordsInOrder, RecordInOrder, Past
<1>4. UpsertInOrder /\ UNCHANGED <<sink, worker>> => UpsertInOrder'
  BY DEF UpsertInOrder, Past, InHand
<1>5. AckInOrder /\ UNCHANGED <<sink, worker>> => AckInOrder'
  BY DEF AckInOrder, InHand
<1> QED
  BY <1>1, <1>2, <1>3, <1>4, <1>5

-----------------------------------------------------------------------------
(* The inductive invariant.                                                 *)

LEMMA InitInOrder == Init => InOrder
<1> SUFFICES ASSUME Init PROVE InOrder
  OBVIOUS
<1> USE DEF Init
<1>1. FilesInOrder
  BY DEF FilesInOrder, Past, Gone
<1>2. RuntimeInOrder
  BY DEF RuntimeInOrder
<1>3. RecordsInOrder
  <2>1. \A i \in DOMAIN wal : wal[i].type \in LegacyTypes
    <3>1. wal \in Seq([type : LegacyTypes, key : LegacyChunks])
      BY ConstantsAssumption
    <3>2. \A i \in DOMAIN wal : wal[i] \in [type : LegacyTypes, key : LegacyChunks]
      BY <3>1, Elements
    <3> QED
      BY <3>2
  <2> QED
    BY <2>1 DEF RecordsInOrder, RecordInOrder, LegacyTypes, FileTypes
<1>4. UpsertInOrder /\ AckInOrder
  BY DEF UpsertInOrder, AckInOrder
<1> QED
  BY <1>1, <1>2, <1>3, <1>4 DEF InOrder

LEMMA OwnerInOrder ==
  ASSUME FreshStamps, IInv, NEW p \in Paths, WriteFile(p) \/ RemoveFile(p)
  PROVE  InOrder'
<1>1. Kept /\ FilesInOrder'
  BY OwnerKeeps
<1>2. UNCHANGED <<durable, runtime, queue, worker>>
  BY DEF WriteFile, RemoveFile, Change
<1> USE DEF IInv, InOrder, Typed, TypeOK
<1>3. RuntimeInOrder'
  <2>1. \A q \in DOMAIN last_seen_version : q \in Paths
    BY DEF RuntimeOK
  <2>2. \A ev \in events : ev.path \in Paths /\ ev.stamp \in Stamps
    BY DEF RuntimeOK, Fingerprints
  <2> QED
    BY <1>1, <1>2, <2>1, <2>2 DEF RuntimeInOrder, Kept, Past
<1>4. RecordsInOrder'
  <2>1. /\ \A i \in DOMAIN wal : wal[i] \in WalRecords
        /\ \A i \in DOMAIN queue : queue[i] \in WalRecords
        /\ \A i \in DOMAIN hand : hand[i].record \in WalRecords
        /\ \A i \in DOMAIN retries : retries[i].record \in WalRecords
    BY Elements, ItemFields DEF DurableOK, QueueOK, WorkerOK
  <2> QED
    BY <1>1, <1>2, <2>1, KeptRecords DEF RecordsInOrder, RecordInOrder, Past
<1>5. UpsertInOrder'
  <2>1. wk = "upsert" => InHand.key.path \in Paths /\ text \in Stamps
    BY WorkerHolds DEF WorkerOK, Fingerprints
  <2> QED
    BY <1>1, <1>2, <2>1 DEF UpsertInOrder, Kept, Past, InHand
<1>6. AckInOrder'
  BY <1>2 DEF AckInOrder, InHand
<1> QED
  BY <1>1, <1>3, <1>4, <1>5, <1>6

\* The records and items that are in order now.
OrderedRecords == {r \in WalRecords : RecordInOrder(r)}
OrderedItems   == {item \in Items : item.record \in OrderedRecords}

LEMMA OrderedSeqs ==
  ASSUME IInv
  PROVE  /\ wal \in Seq(OrderedRecords) /\ queue \in Seq(OrderedRecords)
         /\ hand \in Seq(OrderedItems) /\ retries \in Seq(OrderedItems)
<1> USE DEF IInv, InOrder, Typed, TypeOK
<1>1. \A S, T : \A s \in Seq(S) : (\A i \in DOMAIN s : s[i] \in T) => s \in Seq(T)
  BY Elements, SeqDef
<1>2. wal \in Seq(WalRecords) /\ queue \in Seq(WalRecords) /\ hand \in Seq(Items) /\ retries \in Seq(Items)
  BY DEF DurableOK, QueueOK, WorkerOK
<1>3. /\ \A i \in DOMAIN wal : wal[i] \in OrderedRecords
      /\ \A i \in DOMAIN queue : queue[i] \in OrderedRecords
      /\ \A i \in DOMAIN hand : hand[i] \in OrderedItems
      /\ \A i \in DOMAIN retries : retries[i] \in OrderedItems
  BY <1>2, Elements, ItemFields DEF RecordsInOrder, OrderedRecords, OrderedItems
<1> QED
  BY <1>1, <1>2, <1>3

LEMMA OrderedNext ==
  ASSUME UNCHANGED env,
         wal' \in Seq(OrderedRecords), queue' \in Seq(OrderedRecords),
         hand' \in Seq(OrderedItems), retries' \in Seq(OrderedItems)
  PROVE  RecordsInOrder'
<1>1. /\ \A i \in DOMAIN wal' : wal'[i] \in OrderedRecords
      /\ \A i \in DOMAIN queue' : queue'[i] \in OrderedRecords
      /\ \A i \in DOMAIN hand' : hand'[i].record \in OrderedRecords
      /\ \A i \in DOMAIN retries' : retries'[i].record \in OrderedRecords
  BY Elements DEF OrderedItems
<1> QED
  BY <1>1 DEF RecordsInOrder, OrderedRecords, RecordInOrder, Past

LEMMA LifeInOrder ==
  ASSUME IInv, Start \/ Crash \/ RequestShutdown \/ Terminate
  PROVE  InOrder'
<1> USE DEF IInv, InOrder
<1>1. CASE Start
  <2>1. UNCHANGED <<env, durable, events, queue, hand, retries>> /\ wk' = "recv"
    BY <1>1 DEF Start
  <2>2. RuntimeInOrder'
    <3>1. \A p \in known_live_document_paths(wal) : history[p] # {}
      BY DEF known_live_document_paths, RecordsInOrder, RecordInOrder
    <3>2. DOMAIN last_seen_version' = known_live_document_paths(wal)
      BY <1>1 DEF Start
    <3> QED
      BY <2>1, <3>1, <3>2 DEF RuntimeInOrder, Past
  <2>3. UpsertInOrder' /\ AckInOrder'
    BY <2>1 DEF UpsertInOrder, AckInOrder
  <2> QED
    BY <2>1, <2>2, <2>3, ProgramKeeps
<1>2. CASE Crash \/ Terminate
  <2>1. /\ UNCHANGED <<env, durable>> /\ wk' = "off" /\ events' = {}
        /\ queue' = <<>> /\ hand' = <<>> /\ retries' = <<>>
        /\ last_seen_version' = [p \in {} |-> NoStamp]
    BY <1>2 DEF Crash, Terminate, Down
  <2>2. RuntimeInOrder' /\ UpsertInOrder' /\ AckInOrder'
    BY <2>1 DEF RuntimeInOrder, UpsertInOrder, AckInOrder
  <2>3. RecordsInOrder'
    BY <2>1, OrderedSeqs, OrderedNext, EmptySeq
  <2> QED
    BY <2>1, <2>2, <2>3, ProgramKeeps
<1>3. CASE RequestShutdown
  BY <1>3, ProgramKeeps DEF RequestShutdown
<1> QED
  BY <1>1, <1>2, <1>3

LEMMA RuntimeKeepsOrder ==
  ASSUME IInv, RtNext
  PROVE  InOrder'
<1> USE DEF IInv, InOrder
<1>1. UNCHANGED <<env, sink, worker>>
  BY DEF RtNext, RtReplay, RtSend, RtSent, RtStop, RtPoll, RtPlan, RtCollect
<1>2. CASE RtReplay \/ RtSent \/ RtStop \/ RtCollect
  <2>1. UNCHANGED <<wal, queue, last_seen_version, events>>
    BY <1>2 DEF RtReplay, RtSent, RtStop, RtCollect
  <2> QED
    BY <1>1, <2>1, ProgramKeeps
<1>3. CASE RtSend
  <2>1. PICK i \in outbox : queue' = Append(queue, wal[i])
    BY <1>3 DEF RtSend
  <2>2. wal[i] \in OrderedRecords
    BY OrderedSeqs, Elements DEF Typed, TypeOK, RuntimeOK
  <2>3. queue' \in Seq(OrderedRecords)
    BY <2>1, <2>2, OrderedSeqs
  <2>4. UNCHANGED <<wal, last_seen_version, events>>
    BY <1>3 DEF RtSend
  <2>5. RecordsInOrder'
    BY <1>1, <2>3, <2>4, OrderedSeqs, OrderedNext
  <2> QED
    BY <1>1, <2>4, <2>5, ProgramKeeps
<1>4. CASE RtPoll
  <2>1. UNCHANGED <<wal, queue>>
    BY <1>4 DEF RtPoll
  <2>2. RuntimeInOrder'
    <3>1. CASE UNCHANGED <<last_seen_version, events>>
      BY <1>1, <3>1, ProgramKeeps
    <3>2. CASE /\ last_seen_version' = [p \in Present |-> files[p]]
               /\ events' = {Event(p) : p \in {q \in Present : ~ Noticed(q)}}
                            \cup {Event(p) : p \in DOMAIN last_seen_version \ Present}
      <4>1. \A p \in Present : p \in Paths /\ history[p] # {} /\ files[p] # Gone /\ Past(p, files[p])
        BY DEF Present, FilesInOrder, Past, Typed, TypeOK, FilesOK, Stamps
      <4>2. \A p \in DOMAIN last_seen_version \ Present : p \in removed /\ history[p] # {} /\ files[p] = Gone
        BY DEF Present, FilesInOrder, RuntimeInOrder, Typed, TypeOK, RuntimeOK
      <4>3. \A ev \in events' : /\ history[ev.path] # {}
                                /\ IF ev.stamp = Gone THEN ev.path \in removed ELSE Past(ev.path, ev.stamp)
        BY <3>2, <4>1, <4>2 DEF Event, Fingerprint
      <4> QED
        BY <1>1, <3>2, <4>1, <4>3 DEF RuntimeInOrder, Past
    <3> QED
      BY <1>4, <3>1, <3>2 DEF RtPoll
  <2> QED
    BY <1>1, <2>1, <2>2, ProgramKeeps
<1>5. CASE RtPlan
  <2>1. PICK ev \in events :
          IF ev.stamp = Gone THEN plan_file_delete(ev.path) ELSE plan_file_version(ev)
    BY <1>5 DEF RtPlan
  <2>2. UNCHANGED <<last_seen_version, queue>> /\ events' \subseteq events
    BY <1>5 DEF RtPlan
  <2> DEFINE new == IF ev.stamp = Gone THEN DeleteDocument(ev.path) ELSE WorkItemV2(ev)
  <2>3. wal' = wal \/ wal' = Append(wal, new)
    BY <2>1 DEF plan_file_delete, plan_file_version, PlanAppend, LogFault
  <2>4. new \in OrderedRecords
    <3>1. ev \in Fingerprints /\ ev.path \in Paths
      BY DEF Typed, TypeOK, RuntimeOK, Fingerprints
    <3>2. new \in WalRecords
      BY <3>1, NewRecords
    <3>3. RecordInOrder(new)
      BY DEF RuntimeInOrder, RecordInOrder, DeleteDocument, WorkItemV2, FileTypes
    <3> QED
      BY <3>2, <3>3 DEF OrderedRecords
  <2> HIDE DEF new
  <2>5. wal' \in Seq(OrderedRecords)
    <3>1. wal \in Seq(OrderedRecords)
      BY OrderedSeqs
    <3>2. Append(wal, new) \in Seq(OrderedRecords)
      BY <2>4, <3>1, AppendProperties
    <3> QED
      BY <2>3, <3>1, <3>2
  <2>6. RecordsInOrder'
    BY <1>1, <2>2, <2>5, OrderedSeqs, OrderedNext
  <2>7. RuntimeInOrder'
    BY <1>1, <2>2 DEF RuntimeInOrder, Past
  <2> QED
    BY <1>1, <2>6, <2>7, ProgramKeeps
<1> QED
  BY <1>2, <1>3, <1>4, <1>5 DEF RtNext

\* What the worker holds is in order, and an acknowledgement of it would be.
LEMMA HeldInOrder ==
  ASSUME IInv, wk \notin {"off", "recv", "done"}
  PROVE  /\ InHand \in OrderedRecords /\ hand[1] \in OrderedItems /\ IsTask(InHand)
         /\ AckOf(InHand) \in OrderedRecords
<1>1. hand[1] \in Items /\ InHand \in WalRecords /\ DOMAIN hand = {1} /\ IsTask(InHand)
  BY WorkerHolds, ItemFields DEF IInv, Typed, TypeOK, InHand
<1>2. RecordInOrder(InHand)
  BY <1>1 DEF IInv, InOrder, RecordsInOrder, InHand
<1>3. RecordInOrder(AckOf(InHand))
  <2>1. CASE InHand.type = "work_item_v2"
    BY <1>2, <2>1 DEF RecordInOrder, AckOf, SinkAckV2, FileTypes
  <2>2. CASE InHand.type \in {"work_item", "delete_document"}
    BY <2>2 DEF RecordInOrder, AckOf, SinkAck, DeleteAck, FileTypes
  <2> QED
    BY <1>1, <2>1, <2>2 DEF IsTask, WorkTypes
<1> QED
  BY <1>1, <1>2, <1>3, AckRecords DEF OrderedRecords, OrderedItems, InHand

LEMMA WorkerKeepsOrder ==
  ASSUME IInv, WkNext
  PROVE  InOrder'
<1> USE DEF IInv, InOrder, WkAt, WkGoto
<1>1. UNCHANGED <<env, last_seen_version, events>>
  BY DEF WkNext, WkTake, Take, WkEnd, WkLoad, StepFault, WkUpsert, WkDelete, SinkRequest, StepFault, WkLock, WkAck, WkFail
<1>2. RuntimeInOrder'
  BY <1>1, ProgramKeeps
<1>3. CASE WkTake
  <2>1. UNCHANGED <<sink, wal, text>>
    BY <1>3 DEF WkTake
  <2>2. wal \in Seq(OrderedRecords) /\ queue \in Seq(OrderedRecords) /\ retries \in Seq(OrderedItems)
    BY OrderedSeqs
  <2>3. PICK item : Take(item) /\ (IsTask(item.record) => item \in OrderedItems)
                    /\ queue' \in Seq(OrderedRecords) /\ retries' \in Seq(OrderedItems)
    <3>1. CASE retries # <<>> /\ Take(Head(retries)) /\ retries' = Tail(retries) /\ UNCHANGED queue
      BY <2>2, <3>1, HeadTailProperties
    <3>2. CASE /\ retries = <<>> /\ queue # <<>>
               /\ Take(Item(Head(queue), 1)) /\ queue' = Tail(queue) /\ UNCHANGED retries
      <4>1. Head(queue) \in OrderedRecords /\ Tail(queue) \in Seq(OrderedRecords)
        BY <2>2, <3>2, HeadTailProperties
      <4>2. Item(Head(queue), 1).record = Head(queue)
        BY DEF Item
      <4>3. IsTask(Head(queue)) => Item(Head(queue), 1) \in OrderedItems
        BY <4>1, <4>2, ItemFields, ConstantsAssumption DEF OrderedItems, OrderedRecords
      <4> QED
        BY <2>2, <3>2, <4>1, <4>2, <4>3
    <3> QED
      BY <1>3, <3>1, <3>2 DEF WkTake
  <2>4. wk' = FirstStep(item.record) /\ hand' = IF wk' = "recv" THEN <<>> ELSE <<item>>
    BY <2>3 DEF Take
  <2>5. hand' \in Seq(OrderedItems)
    BY <2>3, <2>4, EmptySeq DEF FirstStep, IsTask, WorkTypes
  <2>6. RecordsInOrder'
    BY <1>1, <2>1, <2>2, <2>3, <2>5, OrderedNext
  <2>7. UpsertInOrder' /\ AckInOrder'
    BY <2>4 DEF UpsertInOrder, AckInOrder, FirstStep, InHand
  <2> QED
    BY <1>1, <1>2, <2>1, <2>6, <2>7, ProgramKeeps
<1>4. CASE WkEnd
  BY <1>1, <1>2, <1>4, ProgramKeeps DEF WkEnd, UpsertInOrder, AckInOrder
<1>5. CASE WkLoad
  <2>1. UNCHANGED <<sink, wal, queue, hand, retries>>
    BY <1>5 DEF WkLoad, StepFault
  <2>2. UpsertInOrder'
    <3>1. InHand.key \in Fingerprints /\ InHand \in OrderedRecords /\ InHand.type = "work_item_v2"
      BY <1>5, WorkerHolds, HeldInOrder DEF WkLoad, StepFault, Typed, TypeOK, WorkerOK
    <3> DEFINE p == InHand.key.path
    <3>2. p \in Paths /\ InHand' = InHand /\ UNCHANGED <<env, sink>>
      BY <1>1, <2>1, <3>1 DEF Fingerprints, InHand
    <3>3. CASE wk' = "upsert"
      <4>1. files[p] # Gone /\ text' = files[p]
        BY <1>5, <3>3 DEF WkLoad, StepFault
      <4>2. InHand.key.stamp <= files[p]
        BY <3>1, <4>1 DEF OrderedRecords, RecordInOrder, FileTypes, Past
      <4>3. sink[p] <= files[p] /\ files[p] \in history[p] /\ Past(p, files[p])
        BY <3>2, <4>1 DEF FilesInOrder, Past, Typed, TypeOK, FilesOK, Stamps
      <4> HIDE DEF p
      <4>4. p = InHand'.key.path
        BY <3>2 DEF p
      <4> QED
        BY <3>2, <4>1, <4>2, <4>3, <4>4 DEF UpsertInOrder, Past
    <3>4. CASE wk' # "upsert"
      BY <3>4 DEF UpsertInOrder
    <3> QED
      BY <3>3, <3>4
  <2>3. AckInOrder'
    BY <1>5 DEF WkLoad, StepFault, AckInOrder
  <2> QED
    BY <1>1, <1>2, <2>1, <2>2, <2>3, ProgramKeeps
<1>6. CASE WkUpsert
  <2> DEFINE p == InHand.key.path
  <2>1. wk = "upsert" /\ SinkRequest(p, text) /\ UNCHANGED <<wal, queue, hand, retries>>
    BY <1>6 DEF WkUpsert
  <2>2. p \in Paths /\ InHand.type = "work_item_v2" /\ Past(p, text) /\ InHand.key.stamp <= text
    BY <2>1, WorkerHolds DEF UpsertInOrder, Fingerprints, Typed, TypeOK, WorkerOK
  <2>3. InHand' = InHand
    BY <2>1 DEF InHand
  <2> HIDE DEF p
  <2>4. FilesInOrder'
    <3>1. sink' = sink \/ sink' = [sink EXCEPT ![p] = text]
      BY <2>1 DEF SinkRequest, StepFault
    <3> QED
      BY <1>1, <2>2, <3>1 DEF FilesInOrder, Past, Typed, TypeOK, DurableOK
  <2>5. UpsertInOrder'
    BY <2>1 DEF SinkRequest, StepFault, UpsertInOrder
  <2>6. AckInOrder'
    <3>1. CASE sink' = [sink EXCEPT ![p] = text]
      BY <2>2, <2>3, <3>1 DEF p, AckInOrder, Typed, TypeOK, DurableOK
    <3>2. CASE wk' = "fail"
      BY <3>2 DEF AckInOrder
    <3> QED
      BY <2>1, <3>1, <3>2 DEF SinkRequest, StepFault
  <2> QED
    BY <1>1, <1>2, <2>1, <2>4, <2>5, <2>6, ProgramKeeps
<1>10. CASE WkDelete
  <2> DEFINE p == InHand.key
  <2>1. wk = "delete" /\ SinkRequest(p, Gone) /\ UNCHANGED <<wal, queue, hand, retries>>
    BY <1>10 DEF WkDelete
  <2>2. p \in Paths /\ InHand.type = "delete_document"
    BY <2>1, WorkerHolds DEF Typed, TypeOK, WorkerOK
  <2>3. InHand' = InHand
    BY <2>1 DEF InHand
  <2> HIDE DEF p
  <2>4. FilesInOrder'
    <3>1. sink' = sink \/ sink' = [sink EXCEPT ![p] = Gone]
      BY <2>1 DEF SinkRequest, StepFault
    <3>2. \A q \in Paths : sink'[q] = sink[q] \/ sink'[q] = 0
      BY <2>2, <3>1 DEF Gone, Typed, TypeOK, DurableOK
    <3>3. \A q \in Paths : 0 <= changes /\ 0 <= files[q]
      BY DEF Typed, TypeOK, FilesOK, Stamps
    <3> QED
      BY <1>1, <3>2, <3>3 DEF FilesInOrder, Past
  <2>5. UpsertInOrder'
    BY <2>1 DEF SinkRequest, StepFault, UpsertInOrder
  <2>6. AckInOrder'
    <3>1. CASE sink' = [sink EXCEPT ![p] = Gone]
      BY <2>2, <2>3, <3>1 DEF p, AckInOrder, Typed, TypeOK, DurableOK
    <3>2. CASE wk' = "fail"
      BY <3>2 DEF AckInOrder
    <3> QED
      BY <2>1, <3>1, <3>2 DEF SinkRequest, StepFault
  <2> QED
    BY <1>1, <1>2, <2>1, <2>4, <2>5, <2>6, ProgramKeeps
<1>7. CASE WkLock
  <2>1. wk = "ack" /\ wk' = "locked" /\ UNCHANGED <<sink, wal, queue, hand, retries>>
    BY <1>7 DEF WkLock
  <2>2. AckInOrder' /\ UpsertInOrder'
    BY <2>1 DEF AckInOrder, UpsertInOrder, InHand
  <2> QED
    BY <1>1, <1>2, <2>1, <2>2, ProgramKeeps
<1>8. CASE WkAck
  <2>1. /\ wal' = wal \/ wal' = Append(wal, AckOf(InHand))
        /\ hand' = hand \/ hand' = <<>>
        /\ wk' \in {"recv", "fail"} /\ UNCHANGED <<sink, queue, retries>>
    BY <1>8 DEF WkAck
  <2>2. wal' \in Seq(OrderedRecords)
    <3>1. wal \in Seq(OrderedRecords) /\ AckOf(InHand) \in OrderedRecords
      BY <1>8, OrderedSeqs, HeldInOrder DEF WkAck
    <3> QED
      BY <2>1, <3>1, AppendProperties
  <2>3. RecordsInOrder'
    BY <1>1, <2>1, <2>2, OrderedSeqs, OrderedNext, EmptySeq
  <2>4. AckInOrder' /\ UpsertInOrder'
    BY <2>1 DEF AckInOrder, UpsertInOrder
  <2> QED
    BY <1>1, <1>2, <2>1, <2>3, <2>4, ProgramKeeps
<1>9. CASE WkFail
  <2>1. hand' = <<>> /\ wk' = "recv" /\ UNCHANGED <<sink, wal, queue>>
    BY <1>9 DEF WkFail
  <2>2. /\ ShouldRetry => retries' = Append(retries, Item(InHand, hand[1].attempt + 1))
        /\ ~ ShouldRetry => retries' = retries
    BY <1>9, Zenon DEF WkFail
  <2>3. retries' \in Seq(OrderedItems)
    <3>1. InHand \in OrderedRecords /\ IsTask(InHand) /\ hand[1] \in OrderedItems
      BY <1>9, HeldInOrder DEF WkFail
    <3>2. ShouldRetry => hand[1].attempt + 1 \in 1..MaxAttempts
      BY <3>1, ItemFields, ConstantsAssumption DEF ShouldRetry, OrderedItems
    <3>3. ShouldRetry => Item(InHand, hand[1].attempt + 1) \in OrderedItems
      BY <3>1, <3>2, ItemFields DEF OrderedItems, OrderedRecords, Item
    <3>4. retries \in Seq(OrderedItems)
      BY OrderedSeqs
    <3> QED
      BY <2>2, <3>3, <3>4, AppendProperties
  <2>4. RecordsInOrder'
    BY <1>1, <2>1, <2>3, OrderedSeqs, OrderedNext, EmptySeq
  <2>5. AckInOrder' /\ UpsertInOrder'
    BY <2>1 DEF AckInOrder, UpsertInOrder
  <2> QED
    BY <1>1, <1>2, <2>1, <2>4, <2>5, ProgramKeeps
<1> QED
  BY <1>3, <1>4, <1>5, <1>6, <1>7, <1>8, <1>9, <1>10 DEF WkNext

-----------------------------------------------------------------------------
(* Theorems.                                                                *)

LEMMA InductiveStep ==
  ASSUME FreshStamps, IInv, [Next]_vars
  PROVE  IInv'
<1>1. Typed'
  BY NextTyped DEF IInv
<1>2. CASE UNCHANGED vars
  BY <1>1, <1>2, ProgramKeeps DEF vars, IInv, InOrder
<1>3. CASE Next
  BY <1>1, <1>3, OwnerInOrder, LifeInOrder, RuntimeKeepsOrder, WorkerKeepsOrder DEF Next, IInv
<1> QED
  BY <1>1, <1>2, <1>3 DEF IInv

\* IInv is an inductive invariant when every write is fresh.
LEMMA Invariance == ASSUME FreshStamps PROVE Spec => []IInv
<1>1. Init => IInv
  BY InitTyped, InitInOrder DEF IInv
<1>2. IInv /\ [Next]_vars => IInv'
  BY InductiveStep
<1> QED
  BY <1>1, <1>2, PTL DEF Spec

\* With fresh fingerprints, nothing the program holds, in memory, in the log or
\* in the sink, is ever ahead of the files, and the worker comes to acknowledge
\* a record only when the sink holds it.
THEOREM OrderKept == ASSUME FreshStamps PROVE Spec => []InOrder
<1>1. IInv => InOrder
  BY DEF IInv
<1> QED
  BY <1>1, Invariance, PTL

\* What AckMeansApplied says of one step of the log.
AppliedStep ==
  \A i \in (Len(wal) + 1)..Len(wal') :
    /\ wal'[i].type = "sink_ack_v2" => sink[wal'[i].key.path] >= wal'[i].key.stamp
    /\ wal'[i].type = "delete_ack"  => sink[wal'[i].key] = Gone

LEMMA StepApplies ==
  ASSUME IInv, [Next]_vars
  PROVE  AppliedStep
<1>1. wal \in Seq(WalRecords) /\ Len(wal) \in Nat
  BY Elements DEF IInv, Typed, TypeOK, DurableOK
<1>2. CASE wal' = wal
  BY <1>1, <1>2 DEF AppliedStep
<1>3. ASSUME NEW r, wal' = Append(wal, r),
             r.type = "sink_ack_v2" => sink[r.key.path] >= r.key.stamp,
             r.type = "delete_ack"  => sink[r.key] = Gone
      PROVE  AppliedStep
  <2>1. Len(wal') = Len(wal) + 1 /\ wal'[Len(wal) + 1] = r
    BY <1>1, <1>3
  <2> QED
    BY <1>1, <1>3, <2>1 DEF AppliedStep
<1>4. CASE \E fp : wal' = Append(wal, WorkItemV2(fp))
  BY <1>3, <1>4 DEF WorkItemV2
<1>5. CASE \E p : wal' = Append(wal, DeleteDocument(p))
  BY <1>3, <1>5 DEF DeleteDocument
<1>6. CASE wk = "locked" /\ wal' = Append(wal, AckOf(InHand))
  <2>1. InHand \in WalRecords /\ IsTask(InHand)
    BY <1>6, HeldInOrder DEF OrderedRecords
  <2>2. CASE InHand.type = "work_item_v2"
    <3>1. InHand.key.stamp <= sink[InHand.key.path] /\ InHand.key.path \in Paths /\ InHand.key.stamp \in Stamps
      BY <1>6, <2>1, <2>2, RecordKeys DEF IInv, InOrder, AckInOrder, Fingerprints, FileTypes
    <3>2. sink[InHand.key.path] \in Stamps
      BY <3>1 DEF IInv, Typed, TypeOK, DurableOK
    <3>3. sink[InHand.key.path] >= InHand.key.stamp
      BY <3>1, <3>2 DEF Stamps
    <3> QED
      BY <1>3, <1>6, <2>2, <3>3 DEF AckOf, SinkAckV2
  <2>3. CASE InHand.type = "delete_document"
    <3>1. sink[InHand.key] = Gone
      BY <1>6, <2>3 DEF IInv, InOrder, AckInOrder
    <3> QED
      BY <1>3, <1>6, <2>3, <3>1 DEF AckOf, DeleteAck
  <2>4. CASE InHand.type = "work_item"
    BY <1>3, <1>6, <2>4 DEF AckOf, SinkAck
  <2> QED
    BY <2>1, <2>2, <2>3, <2>4 DEF IsTask, WorkTypes
<1> QED
  BY <1>2, <1>4, <1>5, <1>6, LogGrowth DEF IInv

\* With fresh fingerprints an acknowledgement is never ahead of the sink
\* (AckMeansApplied), for any number of documents, retries, faults, crashes and
\* restarts: compaction and replay may rely on what the log says is done.
THEOREM AckedIsApplied == ASSUME FreshStamps PROVE Spec => AckMeansApplied
<1>1. IInv /\ [Next]_vars => AppliedStep
  BY StepApplies
<1>2. Spec => [][AppliedStep]_wal
  BY <1>1, Invariance, PTL DEF Spec
<1> QED
  BY <1>2, PTL DEF AckMeansApplied, AppliedStep

-----------------------------------------------------------------------------
(* Refinement of DocSync.                                                   *)

LEMMA AbstractInit == Init => Abstract!Init
  BY ConstantsAssumption DEF Init, Abstract!Init, Stamps, Gone, Abstract!Gone

\* The owner's steps are the abstract ones, an executed request of the sink is
\* a publication or a retraction, and every other step a stuttering step.
LEMMA AbstractStep ==
  ASSUME FreshStamps, IInv, [Next]_vars
  PROVE  [Abstract!Next]_(Abstract!vars)
<1> USE DEF Abstract!vars, Abstract!Gone, Gone
<1>1. CASE UNCHANGED vars
  BY <1>1 DEF vars
<1>2. ASSUME NEW p \in Paths, WriteFile(p) PROVE Abstract!Next
  <2>1. /\ files' = [files EXCEPT ![p] = changes + 1]
        /\ history' = [history EXCEPT ![p] = @ \cup {changes + 1}]
        /\ removed' = removed /\ sink' = sink /\ changes < MaxChanges
    BY <1>2 DEF WriteFile, Change
  <2>2. changes + 1 \in Stamps \ {0}
    BY <2>1, ConstantsAssumption DEF IInv, Typed, TypeOK, FilesOK, Stamps
  <2>3. Abstract!WriteFile(p)
    BY <2>1, <2>2 DEF Abstract!WriteFile
  <2> QED
    BY <2>3 DEF Abstract!Next
<1>3. ASSUME NEW p \in Paths, RemoveFile(p) PROVE Abstract!Next
  BY <1>3 DEF RemoveFile, Change, Abstract!Next, Abstract!RemoveFile
<1>4. CASE WkUpsert
  <2> DEFINE p == InHand.key.path
  <2>1. wk = "upsert" /\ UNCHANGED env /\ (sink' = sink \/ sink' = [sink EXCEPT ![p] = text])
    BY <1>4 DEF WkUpsert, WkAt, SinkRequest, StepFault, WkGoto
  <2>2. p \in Paths /\ text \in history[p] /\ sink[p] <= text /\ text \in Stamps
    BY <2>1, WorkerHolds DEF IInv, InOrder, UpsertInOrder, Typed, TypeOK, WorkerOK, Fingerprints
  <2>3. text >= sink[p]
    BY <2>2 DEF IInv, Typed, TypeOK, DurableOK, Stamps
  <2> HIDE DEF p
  <2>4. CASE sink' = [sink EXCEPT ![p] = text]
    <3>1. Abstract!Publish(p)
      BY <2>1, <2>2, <2>3, <2>4 DEF Abstract!Publish
    <3> QED
      BY <2>2, <3>1 DEF Abstract!Next
  <2> QED
    BY <2>1, <2>4
<1>5. CASE WkDelete
  <2> DEFINE p == InHand.key
  <2>1. wk = "delete" /\ UNCHANGED env /\ (sink' = sink \/ sink' = [sink EXCEPT ![p] = 0])
    BY <1>5 DEF WkDelete, WkAt, SinkRequest, StepFault, WkGoto
  <2>2. p \in Paths /\ p \in removed
    BY <2>1, WorkerHolds, HeldInOrder
    DEF IInv, Typed, TypeOK, WorkerOK, OrderedRecords, RecordInOrder
  <2> HIDE DEF p
  <2>3. CASE sink' = [sink EXCEPT ![p] = 0]
    <3>1. Abstract!Retract(p)
      BY <2>1, <2>2, <2>3 DEF Abstract!Retract
    <3> QED
      BY <2>2, <3>1 DEF Abstract!Next
  <2> QED
    BY <2>1, <2>3
<1>6. CASE Start \/ Crash \/ RequestShutdown \/ Terminate
  BY <1>6 DEF Start, Crash, RequestShutdown, Terminate, Down
<1>7. CASE RtNext
  BY <1>7 DEF RtNext, RtReplay, RtSend, RtSent, RtStop, RtPoll, RtPlan, RtCollect
<1>8. CASE WkNext /\ ~ WkUpsert /\ ~ WkDelete
  BY <1>8 DEF WkNext, WkTake, Take, WkEnd, WkLoad, StepFault, WkLock, WkAck, WkFail, WkGoto
<1> QED
  BY <1>1, <1>2, <1>3, <1>4, <1>5, <1>6, <1>7, <1>8 DEF Next

\* Ingest implements the safety part of DocSync (SafeSync): whatever the faults
\* and restarts, the sink only ever moves to a content the file has had that is
\* not older, or to nothing after the file was removed.
THEOREM ImplementsDocSync == ASSUME FreshStamps PROVE Spec => SafeSync
<1>1. Init => Abstract!Init
  BY AbstractInit
<1>2. IInv /\ [Next]_vars => [Abstract!Next]_(Abstract!vars)
  BY AbstractStep
<1> QED
  BY <1>1, <1>2, Invariance, PTL DEF Spec, SafeSync, Abstract!SafeSpec

-----------------------------------------------------------------------------
(* Each version of a file is planned once, and a delete again only after   *)
(* something has come between (PlannedOnce), over any number of crashes    *)
(* and restarts, while the log can be read.  The inductive invariant.      *)

\* What the worker has or will get is in the log.
FromLog == /\ \A i \in DOMAIN queue : \E j \in DOMAIN wal : wal[j] = queue[i]
           /\ \A i \in DOMAIN hand : \E j \in DOMAIN wal : wal[j] = hand[i].record
           /\ \A i \in DOMAIN retries : \E j \in DOMAIN wal : wal[j] = retries[i].record

InLog(r) == \E i \in DOMAIN wal : wal[i] = r

\* Only work that was planned is acknowledged, and no work is planned for a
\* file that is not there.
AcksHaveWork == \A i \in DOMAIN wal : wal[i].type = "sink_ack_v2" => InLog(WorkItemV2(wal[i].key))
WorkHasFile  == \A i \in DOMAIN wal : wal[i].type = "work_item_v2" => wal[i].key.stamp # Gone

\* While the runtime task plans, the planner remembers just what is in the log.
Planning    == rt \notin {"off", "exited"}
Remembered  == Planning => \A fp \in Fingerprints : fp \in planned_versions <=> InLog(WorkItemV2(fp))

OneEventEach == \A e, f \in events : e.path = f.path => e = f

\* A version that was planned before its file was seen to be gone does not
\* come back: neither in the file nor in what was seen of it.
GoneForGood ==
  \A i \in DOMAIN wal : wal[i].type = "work_item_v2" =>
    LET p == wal[i].key.path
    IN  /\ Fingerprint(p, Gone) \in events => wal[i].key.stamp # files[p]
        /\ \A d \in DOMAIN wal : d > i /\ wal[d] = DeleteDocument(p) =>
             wal[i].key.stamp # files[p] /\ wal[i].key \notin events

\* Nothing has come after the delete at d that lets it be planned again.
Open(d) == \A k \in DOMAIN wal :
             k > d /\ wal[k].type \in {"work_item_v2", "delete_ack"} => ~ IsAbout(wal[k], wal[d].key)

OpenRemembered ==
  Planning => \A d \in DOMAIN wal : wal[d].type = "delete_document" /\ Open(d) => wal[d].key \in planned_deletes

PlanInv == /\ IInv /\ FromLog /\ AcksHaveWork /\ WorkHasFile /\ Remembered
           /\ OneEventEach /\ GoneForGood /\ OpenRemembered /\ PlannedOnce

-----------------------------------------------------------------------------
(* Lemmas about logs and their records.                                     *)

\* The positions of a log that has grown by one record.
LEMMA Longer ==
  ASSUME NEW S, NEW log \in Seq(S), NEW r, NEW longer, longer = Append(log, r)
  PROVE  LET last == Len(log) + 1 IN
         /\ Len(log) \in Nat /\ last \in DOMAIN longer /\ longer[last] = r
         /\ \A i \in DOMAIN log : i \in Nat /\ i < last /\ i \in DOMAIN longer /\ longer[i] = log[i]
         /\ \A i \in DOMAIN longer : i \in Nat /\ (i = last \/ i \in DOMAIN log)
  OBVIOUS

\* A record is what its type and key say.
LEMMA Rebuilt ==
  ASSUME NEW r \in WalRecords
  PROVE  /\ r.type = "work_item_v2" => r.key \in Fingerprints /\ r = WorkItemV2(r.key)
         /\ r.type = "sink_ack_v2" => r.key \in Fingerprints
         /\ r.type = "delete_document" => r.key \in Paths /\ r = DeleteDocument(r.key)
  BY RecordKeys DEF WalRecords, LegacyTypes, FileTypes, DeleteTypes, WorkItemV2, DeleteDocument

LEMMA LogKeeps ==
  ASSUME Typed, Typed', [Next]_vars
  PROVE  \A r : InLog(r) => InLog(r)'
  BY Growth DEF InLog

\* What the invariant says of the log alone.
LogInv == AcksHaveWork /\ WorkHasFile /\ PlannedOnce

\* A step that neither writes the log nor changes a file, and of the planner
\* either leaves everything or lets the task end.
LEMMA LogStays ==
  ASSUME PlanInv, UNCHANGED <<wal, files>>, events' \subseteq events,
         Planning' => Planning /\ UNCHANGED planner
  PROVE  LogInv' /\ Remembered' /\ OneEventEach' /\ GoneForGood' /\ OpenRemembered'
<1> USE DEF PlanInv
<1>1. LogInv'
  BY DEF LogInv, AcksHaveWork, WorkHasFile, PlannedOnce, InLog
<1>2. Remembered'
  BY DEF Remembered, InLog
<1>3. OneEventEach'
  BY DEF OneEventEach
<1>4. GoneForGood'
  BY DEF GoneForGood
<1>5. OpenRemembered'
  BY DEF OpenRemembered, Open
<1> QED
  BY <1>1, <1>2, <1>3, <1>4, <1>5

-----------------------------------------------------------------------------
(* What the worker has or will get comes from the log.                      *)

LEMMA TakenFromLog == ASSUME PlanInv, Typed', WkTake PROVE FromLog'
<1> USE DEF PlanInv, IInv, FromLog
<1>1. wal' = wal
  BY DEF WkTake
<1>2. ASSUME NEW S, NEW s \in Seq(S), s # <<>>
      PROVE  /\ 1 \in DOMAIN s /\ Head(s) = s[1]
             /\ \A i \in DOMAIN Tail(s) : i + 1 \in DOMAIN s /\ Tail(s)[i] = s[i + 1]
  BY <1>2
<1>3. queue \in Seq(WalRecords) /\ retries \in Seq(Items)
  BY DEF Typed, TypeOK, QueueOK, WorkerOK
<1>4. ASSUME NEW item, Take(item), InLog(item.record)
      PROVE  \A i \in DOMAIN hand' : InLog(hand'[i].record)
  <2>1. hand' = <<>> \/ hand' = <<item>>
    BY <1>4 DEF Take
  <2> QED
    BY <1>4, <2>1
<1>5. CASE retries # <<>>
  <2>1. Take(Head(retries)) /\ retries' = Tail(retries) /\ queue' = queue
    BY <1>5 DEF WkTake
  <2>2. InLog(Head(retries).record)
    BY <1>2, <1>3, <1>5 DEF InLog
  <2>3. \A i \in DOMAIN retries' : InLog(retries'[i].record)
    BY <1>2, <1>3, <1>5, <2>1 DEF InLog
  <2> QED
    BY <1>1, <1>4, <2>1, <2>2, <2>3 DEF InLog
<1>6. CASE retries = <<>>
  <2>1. queue # <<>> /\ Take(Item(Head(queue), 1)) /\ queue' = Tail(queue) /\ retries' = retries
    BY <1>6 DEF WkTake
  <2>2. Item(Head(queue), 1).record = Head(queue)
    BY DEF Item
  <2>3. InLog(Head(queue))
    BY <1>2, <1>3, <2>1 DEF InLog
  <2>4. \A i \in DOMAIN queue' : InLog(queue'[i])
    BY <1>2, <1>3, <2>1 DEF InLog
  <2> QED
    BY <1>1, <1>4, <2>1, <2>2, <2>3, <2>4 DEF InLog
<1> QED
  BY <1>5, <1>6

LEMMA FromLogKept == ASSUME PlanInv, Typed', [Next]_vars PROVE FromLog'
<1> USE DEF PlanInv, IInv
<1>1. \A r : InLog(r) => InLog(r)'
  BY LogKeeps
<1>2. /\ \A i \in DOMAIN queue : InLog(queue[i])
      /\ \A i \in DOMAIN hand : InLog(hand[i].record)
      /\ \A i \in DOMAIN retries : InLog(retries[i].record)
  BY DEF FromLog, InLog
<1>3. ASSUME /\ \A i \in DOMAIN queue' : queue'[i] \in {queue[j] : j \in DOMAIN queue} \cup {wal[j] : j \in DOMAIN wal}
             /\ hand' = hand \/ hand' = <<>>
             /\ \A i \in DOMAIN retries' : \/ i \in DOMAIN retries /\ retries'[i] = retries[i]
                                           \/ 1 \in DOMAIN hand /\ retries'[i].record = InHand
      PROVE  FromLog'
  <2>1. \A i \in DOMAIN queue' : InLog(queue'[i])
    BY <1>2, <1>3 DEF InLog
  <2>2. \A i \in DOMAIN hand' : InLog(hand'[i].record)
    BY <1>2, <1>3
  <2>3. \A i \in DOMAIN retries' : InLog(retries'[i].record)
    BY <1>2, <1>3 DEF InHand
  <2>4. /\ \A i \in DOMAIN queue' : \E j \in DOMAIN wal' : wal'[j] = queue'[i]
        /\ \A i \in DOMAIN hand' : \E j \in DOMAIN wal' : wal'[j] = hand'[i].record
        /\ \A i \in DOMAIN retries' : \E j \in DOMAIN wal' : wal'[j] = retries'[i].record
    BY <1>1, <2>1, <2>2, <2>3 DEF InLog
  <2> QED
    BY <2>4 DEF FromLog
<1>4. CASE UNCHANGED <<queue, hand, retries>>
  BY <1>3, <1>4
<1>5. CASE RtSend
  <2>1. PICK i \in outbox : queue' = Append(queue, wal[i])
    BY <1>5 DEF RtSend
  <2>2. queue \in Seq(WalRecords) /\ i \in DOMAIN wal
    BY DEF Typed, TypeOK, QueueOK, RuntimeOK
  <2>3. UNCHANGED <<hand, retries>>
    BY <1>5 DEF RtSend
  <2>4. \A k \in DOMAIN queue' : (k \in DOMAIN queue /\ queue'[k] = queue[k]) \/ queue'[k] = wal[i]
    BY <2>1, <2>2
  <2> QED
    BY <1>3, <2>2, <2>3, <2>4
<1>6. CASE WkFail
  <2>1. queue' = queue /\ hand' = <<>>
    BY <1>6 DEF WkFail
  <2>2. retries' = retries \/ retries' = Append(retries, Item(InHand, hand[1].attempt + 1))
    BY <1>6, Zenon DEF WkFail
  <2>3. retries \in Seq(Items) /\ 1 \in DOMAIN hand
    BY <1>6, WorkerHolds DEF Typed, TypeOK, WorkerOK, WkFail, WkAt
  <2>4. \A i \in DOMAIN retries' : \/ i \in DOMAIN retries /\ retries'[i] = retries[i]
                                   \/ retries'[i].record = InHand
    BY <2>2, <2>3 DEF Item
  <2> QED
    BY <1>3, <2>1, <2>3, <2>4
<1>7. CASE WkAck
  <2>1. UNCHANGED <<queue, retries>> /\ (hand' = hand \/ hand' = <<>>)
    BY <1>7 DEF WkAck
  <2> QED
    BY <1>3, <2>1
<1>8. CASE WkNext /\ ~ WkTake /\ ~ WkFail /\ ~ WkAck
  BY <1>4, <1>8 DEF WkNext, WkEnd, WkLoad, WkUpsert, WkDelete, WkLock
<1>9. CASE RtNext /\ ~ RtSend
  BY <1>4, <1>9 DEF RtNext, RtReplay, RtSent, RtStop, RtPoll, RtPlan, RtCollect
<1>10. CASE Start \/ RequestShutdown \/ \E p \in Paths : WriteFile(p) \/ RemoveFile(p)
  BY <1>4, <1>10 DEF Start, RequestShutdown, WriteFile, RemoveFile, Change
<1>11. CASE Crash \/ Terminate
  BY <1>3, <1>11 DEF Crash, Terminate, Down
<1>12. CASE UNCHANGED vars
  BY <1>4, <1>12 DEF vars
<1> QED
  BY <1>5, <1>6, <1>7, <1>8, <1>9, <1>10, <1>11, <1>12, TakenFromLog DEF Next

-----------------------------------------------------------------------------
(* What each step does to the log, the planner and the events.              *)

\* A file changes: its new fingerprint has never been planned.
LEMMA OwnerPlans ==
  ASSUME FreshStamps, PlanInv, NEW p \in Paths, WriteFile(p) \/ RemoveFile(p)
  PROVE  LogInv' /\ Remembered' /\ OneEventEach' /\ GoneForGood' /\ OpenRemembered'
<1> USE DEF PlanInv
<1>1. UNCHANGED <<wal, events, rt, planner>>
  BY DEF WriteFile, RemoveFile, Change
<1>2. LogInv' /\ Remembered' /\ OneEventEach' /\ OpenRemembered'
  BY <1>1 DEF LogInv, AcksHaveWork, WorkHasFile, PlannedOnce, Remembered, InLog, OneEventEach,
              OpenRemembered, Open, Planning
<1>3. ASSUME NEW i \in DOMAIN wal, wal[i].type = "work_item_v2"
      PROVE  wal[i].key.stamp # files[wal[i].key.path] => wal[i].key.stamp # files'[wal[i].key.path]
  <2>1. wal[i].key.stamp <= changes /\ wal[i].key.stamp # 0
    BY <1>3 DEF IInv, InOrder, RecordsInOrder, RecordInOrder, Past, FileTypes, WorkHasFile, Gone
  <2>2. files' = [files EXCEPT ![p] = changes + 1] \/ files' = [files EXCEPT ![p] = 0]
    BY DEF WriteFile, RemoveFile, Change, Gone
  <2>3. changes \in Nat /\ files \in [Paths -> Stamps]
    BY DEF IInv, Typed, TypeOK, FilesOK, Stamps
  <2>4. wal[i].key.path \in Paths /\ wal[i].key.stamp \in Nat
    BY <1>3, Rebuilt DEF IInv, Typed, TypeOK, DurableOK, Fingerprints, Stamps
  <2> QED
    BY <2>1, <2>2, <2>3, <2>4
<1>4. GoneForGood'
  BY <1>1, <1>3 DEF GoneForGood
<1> QED
  BY <1>2, <1>4

\* The planner starts from the log, which shows each delete that is still open.
LEMMA StartPlans ==
  ASSUME ~ LogFaults, LegacyChunks \cap Fingerprints = {}, PlanInv, Start
  PROVE  LogInv' /\ Remembered' /\ OneEventEach' /\ GoneForGood' /\ OpenRemembered'
<1> USE DEF PlanInv
<1>1. /\ UNCHANGED <<wal, events, files>>
      /\ planned_versions' = WalVersions(wal) /\ planned_deletes' = WalDeletes(wal)
  BY DEF Start, LogFault
<1>2. \A i \in DOMAIN wal : wal[i] \in WalRecords /\ i \in Nat
  BY DEF IInv, Typed, TypeOK, DurableOK
<1>3. LogInv' /\ OneEventEach' /\ GoneForGood'
  BY <1>1 DEF LogInv, AcksHaveWork, WorkHasFile, PlannedOnce, InLog, OneEventEach, GoneForGood
<1>4. ASSUME NEW fp \in Fingerprints
      PROVE  fp \in WalVersions(wal) <=> InLog(WorkItemV2(fp))
  <2>1. InLog(WorkItemV2(fp)) => fp \in WalVersions(wal)
    BY DEF InLog, WalVersions, WorkItemV2, FileTypes
  <2>2. ASSUME NEW i \in DOMAIN wal, wal[i].type \in FileTypes \cup LegacyTypes, wal[i].key = fp
        PROVE  InLog(WorkItemV2(fp))
    <3>1. wal[i].type \in FileTypes
      BY <1>2, <2>2, RecordKeys
    <3>2. CASE wal[i].type = "work_item_v2"
      BY <1>2, <2>2, <3>2, Rebuilt DEF InLog
    <3>3. CASE wal[i].type = "sink_ack_v2"
      BY <2>2, <3>3 DEF AcksHaveWork
    <3> QED
      BY <3>1, <3>2, <3>3 DEF FileTypes
  <2> QED
    BY <2>1, <2>2 DEF WalVersions
<1>5. Remembered'
  BY <1>1, <1>4 DEF Remembered, InLog
<1>6. ASSUME NEW d \in DOMAIN wal, wal[d].type = "delete_document", Open(d)
      PROVE  wal[d].key \in WalDeletes(wal)
  <2>1. ASSUME NEW j \in DOMAIN wal, j > d, wal[j].type \in DeleteTypes, IsAbout(wal[j], wal[d].key)
        PROVE  FALSE
    <3>1. wal[j].key = wal[d].key
      BY <2>1 DEF IsAbout, DeleteTypes, FileTypes
    <3>2. wal[j].type = "delete_document"
      BY <1>6, <2>1 DEF Open, DeleteTypes
    <3>3. wal[j] = wal[d]
      BY <1>2, <1>6, <3>1, <3>2, Rebuilt
    <3>4. PICK k \in (d + 1)..(j - 1) :
            IsAbout(wal[k], wal[d].key) /\ wal[k].type \in {"work_item_v2", "delete_ack"}
      BY <1>6, <2>1, <3>3 DEF PlannedOnce
    <3>5. k \in DOMAIN wal /\ k > d
      BY DEF IInv, Typed, TypeOK, DurableOK
    <3> QED
      BY <1>6, <3>4, <3>5 DEF Open
  <2> QED
    BY <1>6, <2>1 DEF WalDeletes, PendingDelete, NoLater
<1>7. OpenRemembered'
  BY <1>1, <1>6 DEF OpenRemembered, Open
<1> QED
  BY <1>3, <1>5, <1>7

\* A scan sees each file once, as it is now.
LEMMA PollPlans ==
  ASSUME ~ LogFaults, PlanInv, RtPoll
  PROVE  LogInv' /\ Remembered' /\ OneEventEach' /\ GoneForGood' /\ OpenRemembered'
<1> USE DEF PlanInv
<1>1. /\ UNCHANGED <<wal, files, planner>> /\ Planning
      /\ events' = {Event(p) : p \in {q \in Present : ~ Noticed(q)}}
                   \cup {Event(p) : p \in DOMAIN last_seen_version \ Present}
  BY DEF RtPoll, LogFault, Planning
<1>2. LogInv' /\ Remembered' /\ OpenRemembered'
  BY <1>1 DEF LogInv, AcksHaveWork, WorkHasFile, PlannedOnce, InLog, Remembered, OpenRemembered, Open
<1>3. \A e \in events' : e = Fingerprint(e.path, files[e.path])
  BY <1>1 DEF Event, Fingerprint
<1>4. OneEventEach'
  BY <1>3 DEF OneEventEach
<1>5. \A e \in events' : e.stamp = files[e.path]
  BY <1>3 DEF Fingerprint
<1>6. ASSUME NEW i \in DOMAIN wal, wal[i].type = "work_item_v2"
      PROVE  /\ Fingerprint(wal[i].key.path, Gone) \in events' => wal[i].key.stamp # files[wal[i].key.path]
             /\ wal[i].key.stamp # files[wal[i].key.path] => wal[i].key \notin events'
  <2>1. wal[i].key.stamp # Gone
    BY <1>6 DEF WorkHasFile
  <2> QED
    BY <1>5, <2>1 DEF Fingerprint
<1>7. GoneForGood'
  BY <1>1, <1>6 DEF GoneForGood
<1> QED
  BY <1>2, <1>4, <1>7

\* A new version is planned, and its file was there when it was seen.
LEMMA VersionPlans ==
  ASSUME PlanInv, IInv', RtPlan, NEW ev \in events, ev.stamp # Gone, events' = events \ {ev},
         wal' = Append(wal, WorkItemV2(ev)), rt' = "tick", ev \notin planned_versions,
         planned_versions' = planned_versions \cup {ev}, planned_deletes' = planned_deletes \ {ev.path}
  PROVE  LogInv' /\ Remembered' /\ OneEventEach' /\ GoneForGood' /\ OpenRemembered'
<1> USE DEF PlanInv
<1> DEFINE last == Len(wal) + 1
           r == WorkItemV2(ev)
<1>1. wal \in Seq(WalRecords) /\ files' = files /\ Planning
  BY DEF IInv, Typed, TypeOK, DurableOK, RtPlan, Planning
<1>2. ev \in Fingerprints /\ ev.path \in Paths
  BY DEF IInv, Typed, TypeOK, RuntimeOK, Fingerprints
<1>3. r.type = "work_item_v2" /\ r.key = ev
  BY DEF WorkItemV2
<1>4. /\ last \in DOMAIN wal' /\ wal'[last] = r
      /\ \A i \in DOMAIN wal : i \in Nat /\ i < last /\ i \in DOMAIN wal' /\ wal'[i] = wal[i]
      /\ \A i \in DOMAIN wal' : i \in Nat /\ (i = last \/ i \in DOMAIN wal)
  BY <1>1, Longer
<1> HIDE DEF last, r
<1>5. \A i \in DOMAIN wal : wal[i] # r
  BY <1>1, <1>2 DEF Remembered, InLog, r
<1>6. \A q : InLog(q)' <=> InLog(q) \/ q = r
  BY <1>4 DEF InLog
<1>7. AcksHaveWork' /\ WorkHasFile'
  BY <1>3, <1>4, <1>6 DEF AcksHaveWork, WorkHasFile
<1>8. PlannedOnce'
  <2> SUFFICES ASSUME NEW i \in DOMAIN wal', NEW j \in DOMAIN wal', i < j, wal'[i] = wal'[j],
                      wal'[i].type \in {"work_item_v2", "delete_document"}
               PROVE  /\ wal'[i].type = "delete_document"
                      /\ \E k \in (i + 1)..(j - 1) : IsAbout(wal'[k], wal'[i].key)
                                                     /\ wal'[k].type \in {"work_item_v2", "delete_ack"}
    BY DEF PlannedOnce
  <2>1. i \in DOMAIN wal /\ j \in DOMAIN wal
    BY <1>4, <1>5
  <2>2. /\ wal[i].type = "delete_document"
        /\ \E k \in (i + 1)..(j - 1) : IsAbout(wal[k], wal[i].key)
                                       /\ wal[k].type \in {"work_item_v2", "delete_ack"}
    BY <1>4, <2>1 DEF PlannedOnce
  <2>3. \A k \in (i + 1)..(j - 1) : k \in DOMAIN wal
    BY <1>1, <2>1
  <2> QED
    BY <1>4, <2>1, <2>2, <2>3
<1>9. Remembered'
  <2>1. \A fp \in Fingerprints : fp \in planned_versions' <=> InLog(WorkItemV2(fp)) \/ fp = ev
    BY <1>1 DEF Remembered
  <2>2. \A fp : WorkItemV2(fp) = r <=> fp = ev
    BY DEF r, WorkItemV2
  <2> QED
    BY <1>6, <2>1, <2>2 DEF Remembered
<1>10. OneEventEach'
  BY DEF OneEventEach
<1>11. GoneForGood'
  <2> SUFFICES ASSUME NEW i \in DOMAIN wal', wal'[i].type = "work_item_v2"
               PROVE  LET p == wal'[i].key.path
                      IN  /\ Fingerprint(p, Gone) \in events' => wal'[i].key.stamp # files'[p]
                          /\ \A d \in DOMAIN wal' : d > i /\ wal'[d] = DeleteDocument(p) =>
                               wal'[i].key.stamp # files'[p] /\ wal'[i].key \notin events'
    BY DEF GoneForGood
  <2>1. CASE i = last
    <3>1. Fingerprint(ev.path, Gone) \notin events'
      <4>1. Fingerprint(ev.path, Gone).path = ev.path /\ Fingerprint(ev.path, Gone).stamp = Gone
        BY DEF Fingerprint
      <4> QED
        BY <4>1 DEF OneEventEach
    <3>2. \A d \in DOMAIN wal' : ~ (d > last)
      BY <1>4
    <3> QED
      BY <1>3, <1>4, <2>1, <3>1, <3>2
  <2>2. CASE i \in DOMAIN wal
    <3>1. \A p : \A d \in DOMAIN wal' : wal'[d] = DeleteDocument(p) => d \in DOMAIN wal
      BY <1>3, <1>4 DEF DeleteDocument
    <3> QED
      BY <1>1, <1>4, <2>2, <3>1 DEF GoneForGood
  <2> QED
    BY <1>4, <2>1, <2>2
<1>12. OpenRemembered'
  <2> SUFFICES ASSUME NEW d \in DOMAIN wal', wal'[d].type = "delete_document", Open(d)'
               PROVE  wal'[d].key \in planned_deletes'
    BY DEF OpenRemembered
  <2>1. d \in DOMAIN wal /\ wal'[d] = wal[d] /\ last > d
    BY <1>3, <1>4
  <2>2. Open(d)
    BY <1>4, <2>1 DEF Open
  <2>3. wal[d].key # ev.path
    BY <1>3, <1>4, <2>1 DEF Open, IsAbout, FileTypes
  <2> QED
    BY <1>1, <2>1, <2>2, <2>3 DEF OpenRemembered
<1> QED
  BY <1>7, <1>8, <1>9, <1>10, <1>11, <1>12 DEF LogInv

\* A delete is planned when no delete of the document is open.
LEMMA DeletePlans ==
  ASSUME PlanInv, IInv', RtPlan, NEW ev \in events, ev.stamp = Gone, events' = events \ {ev},
         wal' = Append(wal, DeleteDocument(ev.path)), rt' = "tick", ev.path \notin planned_deletes,
         planned_versions' = planned_versions, planned_deletes' = planned_deletes \cup {ev.path}
  PROVE  LogInv' /\ Remembered' /\ OneEventEach' /\ GoneForGood' /\ OpenRemembered'
<1> USE DEF PlanInv
<1> DEFINE last == Len(wal) + 1
           r == DeleteDocument(ev.path)
<1>1. wal \in Seq(WalRecords) /\ files' = files /\ Planning
  BY DEF IInv, Typed, TypeOK, DurableOK, RtPlan, Planning
<1>2. ev \in Fingerprints /\ ev = Fingerprint(ev.path, Gone)
  BY DEF IInv, Typed, TypeOK, RuntimeOK, Fingerprints, Fingerprint
<1>3. r.type = "delete_document" /\ r.key = ev.path
  BY DEF DeleteDocument
<1>4. /\ last \in DOMAIN wal' /\ wal'[last] = r
      /\ \A i \in DOMAIN wal : i \in Nat /\ i < last /\ i \in DOMAIN wal' /\ wal'[i] = wal[i]
      /\ \A i \in DOMAIN wal' : i \in Nat /\ (i = last \/ i \in DOMAIN wal)
  BY <1>1, Longer
<1> HIDE DEF last, r
<1>5. \A q : InLog(q)' <=> InLog(q) \/ q = r
  BY <1>4 DEF InLog
<1>6. AcksHaveWork' /\ WorkHasFile'
  BY <1>3, <1>4, <1>5 DEF AcksHaveWork, WorkHasFile
<1>7. PlannedOnce'
  <2> SUFFICES ASSUME NEW i \in DOMAIN wal', NEW j \in DOMAIN wal', i < j, wal'[i] = wal'[j],
                      wal'[i].type \in {"work_item_v2", "delete_document"}
               PROVE  /\ wal'[i].type = "delete_document"
                      /\ \E k \in (i + 1)..(j - 1) : IsAbout(wal'[k], wal'[i].key)
                                                     /\ wal'[k].type \in {"work_item_v2", "delete_ack"}
    BY DEF PlannedOnce
  <2>1. i \in DOMAIN wal /\ wal'[i] = wal[i]
    BY <1>4
  <2>2. \A k \in (i + 1)..(j - 1) : k \in DOMAIN wal /\ wal'[k] = wal[k]
    <3>1. \A k \in (i + 1)..(j - 1) : k \in DOMAIN wal
      BY <1>1, <1>4, <2>1 DEF last
    <3> QED
      BY <1>4, <3>1
  <2>3. CASE j \in DOMAIN wal
    <3>1. /\ wal[i].type = "delete_document"
          /\ \E k \in (i + 1)..(j - 1) : IsAbout(wal[k], wal[i].key)
                                         /\ wal[k].type \in {"work_item_v2", "delete_ack"}
      BY <1>4, <2>1, <2>3 DEF PlannedOnce
    <3> QED
      BY <2>1, <2>2, <3>1
  <2>4. CASE j = last
    <3>1. wal[i].type = "delete_document" /\ wal[i].key = ev.path
      BY <1>3, <1>4, <2>1, <2>4
    <3>2. ~ Open(i)
      BY <1>1, <2>1, <3>1 DEF OpenRemembered
    <3>3. PICK k \in DOMAIN wal : /\ k > i /\ wal[k].type \in {"work_item_v2", "delete_ack"}
                                  /\ IsAbout(wal[k], wal[i].key)
      BY <3>2 DEF Open
    <3>4. k \in (i + 1)..(j - 1)
      BY <1>1, <1>4, <2>1, <2>4, <3>3 DEF last
    <3> QED
      BY <2>1, <2>2, <3>1, <3>3, <3>4
  <2> QED
    BY <1>4, <2>3, <2>4
<1>8. Remembered'
  <2>1. \A fp : WorkItemV2(fp) # r
    BY <1>3 DEF WorkItemV2
  <2> QED
    BY <1>1, <1>5, <2>1 DEF Remembered
<1>9. OneEventEach'
  BY DEF OneEventEach
<1>10. GoneForGood'
  <2> SUFFICES ASSUME NEW i \in DOMAIN wal', wal'[i].type = "work_item_v2"
               PROVE  LET p == wal'[i].key.path
                      IN  /\ Fingerprint(p, Gone) \in events' => wal'[i].key.stamp # files'[p]
                          /\ \A d \in DOMAIN wal' : d > i /\ wal'[d] = DeleteDocument(p) =>
                               wal'[i].key.stamp # files'[p] /\ wal'[i].key \notin events'
    BY DEF GoneForGood
  <2>1. i \in DOMAIN wal /\ wal'[i] = wal[i]
    BY <1>3, <1>4
  <2>2. Fingerprint(wal[i].key.path, Gone) \in events' => wal[i].key.stamp # files[wal[i].key.path]
    BY <1>4, <2>1 DEF GoneForGood
  <2>3. ASSUME NEW d \in DOMAIN wal', d > i, wal'[d] = DeleteDocument(wal[i].key.path)
        PROVE  wal[i].key.stamp # files[wal[i].key.path] /\ wal[i].key \notin events'
    <3>1. CASE d = last
      <4>1. wal[i].key.path = ev.path
        BY <1>3, <1>4, <2>3, <3>1 DEF DeleteDocument
      <4>2. wal[i].key.stamp # files[wal[i].key.path]
        BY <1>2, <1>4, <2>1, <4>1 DEF GoneForGood
      <4>3. wal[i].key \notin events'
        BY <4>1 DEF OneEventEach
      <4> QED
        BY <4>2, <4>3
    <3>2. CASE d \in DOMAIN wal
      BY <1>4, <2>1, <2>3, <3>2 DEF GoneForGood
    <3> QED
      BY <1>4, <3>1, <3>2
  <2> QED
    BY <1>1, <2>1, <2>2, <2>3
<1>11. OpenRemembered'
  <2> SUFFICES ASSUME NEW d \in DOMAIN wal', wal'[d].type = "delete_document", Open(d)'
               PROVE  wal'[d].key \in planned_deletes'
    BY DEF OpenRemembered
  <2>1. CASE d = last
    BY <1>3, <1>4, <2>1
  <2>2. CASE d \in DOMAIN wal
    <3>1. Open(d)
      BY <1>4, <2>2 DEF Open
    <3> QED
      BY <1>1, <1>4, <2>2, <3>1 DEF OpenRemembered
  <2> QED
    BY <1>4, <2>1, <2>2
<1> QED
  BY <1>6, <1>7, <1>8, <1>9, <1>10, <1>11 DEF LogInv

\* A version in the log from before a delete is not seen again, so that what
\* the planner skips has no delete open.
LEMMA RtPlanPlans ==
  ASSUME ~ LogFaults, PlanInv, IInv', RtPlan
  PROVE  LogInv' /\ Remembered' /\ OneEventEach' /\ GoneForGood' /\ OpenRemembered'
<1> USE DEF PlanInv
<1>1. PICK ev \in events :
        /\ events' = events \ {ev}
        /\ IF ev.stamp = Gone THEN plan_file_delete(ev.path) ELSE plan_file_version(ev)
  BY DEF RtPlan
<1>2. UNCHANGED files /\ Planning /\ ev \in Fingerprints
  BY DEF RtPlan, Planning, IInv, Typed, TypeOK, RuntimeOK
<1>3. CASE rt' = "exited"
  <2>1. wal' = wal
    <3>1. CASE ev.stamp = Gone
      BY <1>1, <1>3, <3>1 DEF plan_file_delete, PlanAppend, RtGoto, LogFault
    <3>2. CASE ev.stamp # Gone
      BY <1>1, <1>3, <3>2 DEF plan_file_version, PlanAppend, RtGoto, LogFault
    <3> QED
      BY <3>1, <3>2
  <2>2. ~ Planning'
    BY <1>3 DEF Planning
  <2> QED
    BY <1>1, <1>2, <2>1, <2>2, LogStays
<1>4. CASE rt' # "exited" /\ ev.stamp = Gone
  <2>1. /\ rt' = "tick" /\ planned_deletes' = planned_deletes \cup {ev.path}
        /\ planned_versions' = planned_versions
        /\ IF ev.path \in planned_deletes THEN wal' = wal
                                          ELSE wal' = Append(wal, DeleteDocument(ev.path))
    BY <1>1, <1>4 DEF plan_file_delete, PlanAppend, RtGoto, RtFail
  <2>2. CASE ev.path \in planned_deletes
    <3>1. UNCHANGED planner
      BY <2>1, <2>2
    <3> QED
      BY <1>1, <1>2, <2>1, <2>2, <3>1, LogStays
  <2>3. CASE ev.path \notin planned_deletes
    BY <1>1, <1>4, <2>1, <2>3, DeletePlans
  <2> QED
    BY <2>2, <2>3
<1>5. CASE rt' # "exited" /\ ev.stamp # Gone
  <2>1. /\ rt' = "tick" /\ planned_deletes' = planned_deletes \ {ev.path}
        /\ planned_versions' = planned_versions \cup {ev}
        /\ IF ev \in planned_versions THEN wal' = wal
                                      ELSE wal' = Append(wal, WorkItemV2(ev))
    BY <1>1, <1>5 DEF plan_file_version, PlanAppend, RtGoto, RtFail
  <2>2. CASE ev \in planned_versions
    <3>1. PICK i \in DOMAIN wal : wal[i] = WorkItemV2(ev)
      BY <1>2, <2>2 DEF Remembered, InLog
    <3>2. wal[i].type = "work_item_v2" /\ wal[i].key = ev
      BY <3>1 DEF WorkItemV2
    <3>3. ASSUME NEW d \in DOMAIN wal, wal[d].type = "delete_document", Open(d)
          PROVE  wal[d].key # ev.path
      <4> SUFFICES ASSUME wal[d].key = ev.path PROVE FALSE
        OBVIOUS
      <4>1. wal[d] = DeleteDocument(ev.path)
        BY <3>3, Rebuilt DEF IInv, Typed, TypeOK, DurableOK
      <4>2. ~ (d > i)
        BY <3>2, <4>1 DEF GoneForGood
      <4>3. i # d
        BY <3>2, <3>3
      <4>4. ~ (i > d)
        BY <3>2, <3>3 DEF Open, IsAbout, FileTypes
      <4>5. i \in Nat /\ d \in Nat
        BY DEF IInv, Typed, TypeOK, DurableOK
      <4> QED
        BY <4>2, <4>3, <4>4, <4>5
    <3>4. OpenRemembered'
      BY <1>2, <2>1, <2>2, <3>3 DEF OpenRemembered, Open
    <3>5. LogInv' /\ OneEventEach' /\ GoneForGood'
      BY <1>1, <1>2, <2>1, <2>2 DEF LogInv, AcksHaveWork, WorkHasFile, PlannedOnce, InLog,
                                    OneEventEach, GoneForGood
    <3>6. Remembered'
      BY <1>2, <2>1, <2>2 DEF Remembered, InLog
    <3> QED
      BY <3>4, <3>5, <3>6
  <2>3. CASE ev \notin planned_versions
    BY <1>1, <1>5, <2>1, <2>3, VersionPlans
  <2> QED
    BY <2>2, <2>3
<1> QED
  BY <1>3, <1>4, <1>5

\* An acknowledgement is one of work in the log, and opens no delete.
LEMMA AckPlans ==
  ASSUME ~ LogFaults, PlanInv, WkAck
  PROVE  LogInv' /\ Remembered' /\ OneEventEach' /\ GoneForGood' /\ OpenRemembered'
<1> USE DEF PlanInv
<1> DEFINE last == Len(wal) + 1
           r == AckOf(InHand)
<1>1. /\ wal' = Append(wal, r) /\ UNCHANGED <<files, events, planner, rt>> /\ wk = "locked"
      /\ wal \in Seq(WalRecords)
  BY DEF WkAck, WkAt, WkGoto, LogFault, IInv, Typed, TypeOK, DurableOK
<1>2. /\ last \in DOMAIN wal' /\ wal'[last] = r
      /\ \A i \in DOMAIN wal : i \in Nat /\ i < last /\ i \in DOMAIN wal' /\ wal'[i] = wal[i]
      /\ \A i \in DOMAIN wal' : i \in Nat /\ (i = last \/ i \in DOMAIN wal)
  BY <1>1, Longer
<1>3. DOMAIN hand = {1} /\ InHand \in WalRecords /\ IsTask(InHand)
  BY <1>1, WorkerHolds, ItemFields DEF IInv, Typed, TypeOK, InHand
<1>4. r.type \in {"sink_ack", "sink_ack_v2", "delete_ack"}
  BY <1>3 DEF AckOf, IsTask, WorkTypes, SinkAck, SinkAckV2, DeleteAck
<1>5. r.type = "sink_ack_v2" => InLog(WorkItemV2(r.key))
  <2>1. InLog(InHand)
    BY <1>3 DEF FromLog, InLog, InHand
  <2>2. r.type = "sink_ack_v2" => InHand.type = "work_item_v2" /\ r.key = InHand.key
    BY <1>3 DEF AckOf, IsTask, WorkTypes, SinkAck, SinkAckV2, DeleteAck
  <2> QED
    BY <1>3, <2>1, <2>2, Rebuilt
<1> HIDE DEF last, r
<1>6. \A q : q.type = "work_item_v2" => (InLog(q)' <=> InLog(q))
  BY <1>2, <1>4 DEF InLog
<1>7. \A fp : WorkItemV2(fp).type = "work_item_v2"
  BY DEF WorkItemV2
<1>8. \A i \in DOMAIN wal' : wal'[i].type \in {"work_item_v2", "delete_document"} => i \in DOMAIN wal
  BY <1>2, <1>4
<1>9. AcksHaveWork' /\ WorkHasFile'
  <2>1. \A i \in DOMAIN wal' : wal'[i].type = "sink_ack_v2" => InLog(WorkItemV2(wal'[i].key))
    BY <1>2, <1>5 DEF AcksHaveWork
  <2>2. \A key : InLog(WorkItemV2(key)) => InLog(WorkItemV2(key))'
    BY <1>6, <1>7
  <2>3. \A i \in DOMAIN wal' : wal'[i].type = "sink_ack_v2" =>
          \E j \in DOMAIN wal' : wal'[j] = WorkItemV2(wal'[i].key)
    BY <2>1, <2>2 DEF InLog
  <2> QED
    BY <1>2, <1>8, <2>3 DEF AcksHaveWork, WorkHasFile, InLog
<1>10. PlannedOnce'
  <2> SUFFICES ASSUME NEW i \in DOMAIN wal', NEW j \in DOMAIN wal', i < j, wal'[i] = wal'[j],
                      wal'[i].type \in {"work_item_v2", "delete_document"}
               PROVE  /\ wal'[i].type = "delete_document"
                      /\ \E k \in (i + 1)..(j - 1) : IsAbout(wal'[k], wal'[i].key)
                                                     /\ wal'[k].type \in {"work_item_v2", "delete_ack"}
    BY DEF PlannedOnce
  <2>1. i \in DOMAIN wal /\ j \in DOMAIN wal
    BY <1>8
  <2>2. /\ wal[i].type = "delete_document"
        /\ \E k \in (i + 1)..(j - 1) : IsAbout(wal[k], wal[i].key)
                                       /\ wal[k].type \in {"work_item_v2", "delete_ack"}
    BY <1>2, <2>1 DEF PlannedOnce
  <2>3. \A k \in (i + 1)..(j - 1) : k \in DOMAIN wal
    BY <1>1, <2>1
  <2> QED
    BY <1>2, <2>1, <2>2, <2>3
<1>11. Remembered'
  BY <1>1, <1>6, <1>7 DEF Remembered, Planning
<1>12. OneEventEach'
  BY <1>1 DEF OneEventEach
<1>13. GoneForGood'
  <2>1. \A p : \A d \in DOMAIN wal' : wal'[d] = DeleteDocument(p) => d \in DOMAIN wal
    BY <1>8 DEF DeleteDocument
  <2> QED
    BY <1>1, <1>2, <1>8, <2>1 DEF GoneForGood
<1>14. OpenRemembered'
  <2>1. \A d \in DOMAIN wal' : wal'[d].type = "delete_document" /\ Open(d)' => d \in DOMAIN wal /\ Open(d)
    BY <1>2, <1>8 DEF Open
  <2> QED
    BY <1>1, <1>2, <2>1 DEF OpenRemembered, Planning
<1> QED
  BY <1>9, <1>10, <1>11, <1>12, <1>13, <1>14 DEF LogInv

-----------------------------------------------------------------------------
LEMMA PlanInvKept ==
  ASSUME FreshStamps, ~ LogFaults, LegacyChunks \cap Fingerprints = {}, PlanInv, [Next]_vars
  PROVE  PlanInv'
<1>1. IInv'
  BY InductiveStep DEF PlanInv
<1>2. FromLog'
  BY <1>1, FromLogKept DEF IInv
<1>3. CASE Crash \/ Terminate
  <2>1. UNCHANGED <<wal, files>> /\ events' = {} /\ ~ Planning'
    BY <1>3 DEF Crash, Terminate, Down, Planning
  <2> QED
    BY <1>1, <1>2, <2>1, LogStays DEF PlanInv, LogInv
<1>4. CASE UNCHANGED vars \/ RequestShutdown
  BY <1>1, <1>2, <1>4, LogStays DEF vars, RequestShutdown, PlanInv, LogInv, Planning
<1>5. CASE RtReplay \/ RtSend \/ RtSent \/ RtStop \/ RtCollect
  <2>1. UNCHANGED <<wal, files, planner>> /\ events' = events
    BY <1>5 DEF RtReplay, RtSend, RtSent, RtStop, RtCollect
  <2>2. Planning
    BY <1>5 DEF RtReplay, RtSend, RtSent, RtStop, RtCollect, Planning
  <2> QED
    BY <1>1, <1>2, <2>1, <2>2, LogStays DEF PlanInv, LogInv
<1>6. CASE WkNext /\ ~ WkAck
  <2>1. UNCHANGED <<wal, files, planner, events, rt>>
    BY <1>6 DEF WkNext, WkTake, Take, WkEnd, WkLoad, StepFault, WkUpsert, WkDelete, SinkRequest,
                WkLock, WkFail, WkGoto
  <2> QED
    BY <1>1, <1>2, <2>1, LogStays DEF PlanInv, LogInv, Planning
<1> QED
  BY <1>1, <1>2, <1>3, <1>4, <1>5, <1>6, OwnerPlans, StartPlans, PollPlans, RtPlanPlans, AckPlans
     DEF PlanInv, LogInv, Next, RtNext, WkNext

LEMMA LegacyOnly == ASSUME Init PROVE \A i \in DOMAIN wal : wal[i].type \in LegacyTypes
<1>1. wal \in Seq([type : LegacyTypes, key : LegacyChunks])
  BY ConstantsAssumption DEF Init
<1>2. \A i \in DOMAIN wal : wal[i] \in [type : LegacyTypes, key : LegacyChunks]
  BY <1>1, Elements
<1> QED
  BY <1>2

LEMMA InitPlan == Init => PlanInv
<1> SUFFICES ASSUME Init PROVE PlanInv
  OBVIOUS
<1>1. IInv
  BY InitTyped, InitInOrder DEF IInv
<1>2. \A i \in DOMAIN wal : wal[i].type \notin {"work_item_v2", "sink_ack_v2", "delete_document"}
  BY LegacyOnly DEF LegacyTypes
<1>3. FromLog /\ ~ Planning /\ OneEventEach
  BY DEF Init, FromLog, Planning, OneEventEach
<1> QED
  BY <1>1, <1>2, <1>3 DEF PlanInv, AcksHaveWork, WorkHasFile, Remembered, GoneForGood,
                          OpenRemembered, PlannedOnce

\* No version of a file is planned twice and no delete while it is open, after
\* any crashes and restarts, with any number of files and on any threads, while
\* writes are fresh and the log can be read when the program starts.
THEOREM PlansOnce ==
  ASSUME FreshStamps, ~ LogFaults, LegacyChunks \cap Fingerprints = {}
  PROVE  Spec => []PlannedOnce
<1>1. Init => PlanInv
  BY InitPlan
<1>2. PlanInv /\ [Next]_vars => PlanInv'
  BY PlanInvKept
<1>3. PlanInv => PlannedOnce
  BY DEF PlanInv
<1> QED
  BY <1>1, <1>2, <1>3, PTL DEF Spec

=============================================================================
