---------------------------- MODULE RestartProofs ---------------------------
(***************************************************************************)
(* What holds over any number of lives of the daemon.  No update of a file *)
(* is lost (NoLostUpdate), whatever the order in which files change,       *)
(* requests fail and the process restarts; and whatever an operator runs   *)
(* between two lives, and wherever a command is killed, no id is used      *)
(* twice and work marked as requeued is in the log (of Operator).          *)
(***************************************************************************)
EXTENDS Operator, IngestProofs, FiniteSetTheorems

USE DEF env, durable, planner, runtime, worker, ghosts, control

-----------------------------------------------------------------------------
(* The inductive invariant: what the tailer, the planner and the log know   *)
(* of the files.                                                            *)

WorkOf(r, p) == r.type = "work_item_v2" /\ r.key.path = p

Idle == rt \in {"off", "replay"} => queue = <<>> /\ hand = <<>> /\ retries = <<>> /\ outbox = {}

\* Events are left over only while they are planned.
AllPlanned == rt \notin {"tick", "exited"} => events = {}

EventsSeen == \A ev \in events : ev.stamp = Gone <=> ev.path \notin DOMAIN last_seen_version

DeletesSeen == \A i \in Planned : wal[i].type = "delete_document" => wal[i].key \notin DOMAIN last_seen_version

\* No scan of this process has found a file whose removal is unwatched.
UnwatchedUnseen == \A p \in unwatched \cap DOMAIN last_seen_version : last_seen_version[p] = NoStamp

\* What Start has found in the log it starts with.
AtReplay ==
  rt = "replay" =>
    \A p \in Paths : /\ Overtaken(p) => p \in overtaken
                     /\ (\E r \in Unacked(wal) : WorkOf(r, p)) =>
                          p \in unwatched \/ p \in DOMAIN last_seen_version \ planned_deletes

\* A version that was seen is planned, or about to be.
SeenPlanned ==
  exit = "none" =>
    \A p \in DOMAIN last_seen_version : last_seen_version[p] # NoStamp =>
      LET fp == Fingerprint(p, last_seen_version[p]) IN fp \in events \/ InLog(WorkItemV2(fp))

\* The versions of a document are planned in the order they were written.
Rising ==
  \A i \in DOMAIN wal : wal[i].type = "work_item_v2" =>
    /\ \A j \in DOMAIN wal : j > i /\ WorkOf(wal[j], wal[i].key.path) => wal[i].key.stamp <= wal[j].key.stamp
    /\ \A ev \in events : ev.path = wal[i].key.path /\ ev.stamp # Gone => wal[i].key.stamp <= ev.stamp

ScanInv == /\ Idle /\ AllPlanned /\ EventsSeen /\ DeletesSeen /\ UnwatchedUnseen
           /\ AtReplay /\ SeenPlanned /\ Rising

Base == PlanInv /\ WorkInv /\ ScanInv

-----------------------------------------------------------------------------
(* The steps of the runtime task, and the others.                           *)

\* What planning an event comes to: the log is taken, there is nothing to plan,
\* or a record is appended.
PlanFails == rt' = "exited" /\ exit' # "none" /\ wal' = wal

PlanMarks(ev) ==
  IF ev.stamp = Gone
  THEN planned_deletes' = planned_deletes \cup {ev.path} /\ planned_versions' = planned_versions
  ELSE planned_deletes' = planned_deletes \ {ev.path} /\ planned_versions' = planned_versions \cup {ev}

PlanOf(ev)  == IF ev.stamp = Gone THEN DeleteDocument(ev.path) ELSE WorkItemV2(ev)
IsKnown(ev) == IF ev.stamp = Gone THEN ev.path \in planned_deletes ELSE ev \in planned_versions

PlanSkips(ev)   == /\ rt' = "tick" /\ UNCHANGED <<exit, wal>> /\ PlanMarks(ev) /\ IsKnown(ev)
PlanAppends(ev) == /\ rt' = "tick" /\ exit' = exit /\ PlanMarks(ev) /\ ~ IsKnown(ev)
                   /\ wal' = Append(wal, PlanOf(ev))

LEMMA PlanSteps ==
  ASSUME ~ LogFaults, RtPlan
  PROVE  /\ rt = "tick"
         /\ UNCHANGED <<env, sink, failed, last_seen_version, before, outbox, queue, worker, ghosts>>
         /\ \E ev \in events : /\ events' = events \ {ev}
                               /\ PlanFails \/ PlanSkips(ev) \/ PlanAppends(ev)
<1>1. PICK ev \in events :
        /\ events' = events \ {ev}
        /\ IF ev.stamp = Gone THEN plan_file_delete(ev.path) ELSE plan_file_version(ev)
  BY DEF RtPlan
<1>2. UNCHANGED <<env, sink, failed, last_seen_version, before, outbox, queue, worker>> /\ rt = "tick"
  BY DEF RtPlan
<1>3. ASSUME NEW r, PlanAppend(r)
      PROVE  /\ UNCHANGED ghosts
             /\ \/ PlanFails
                \/ rt' = "tick" /\ exit' = exit /\ wal' = Append(wal, r)
  BY <1>3, Zenon DEF PlanAppend, LogFault, RtGoto, RtFail, PlanFails
<1>4. PlanMarks(ev)
  BY <1>1 DEF plan_file_delete, plan_file_version, PlanMarks
<1>5. CASE IsKnown(ev)
  <2>1. RtGoto("tick") /\ wal' = wal
    BY <1>1, <1>5 DEF plan_file_delete, plan_file_version, IsKnown
  <2> QED
    BY <1>1, <1>2, <1>4, <1>5, <2>1 DEF RtGoto, PlanSkips
<1>6. CASE ~ IsKnown(ev)
  <2>1. PlanAppend(PlanOf(ev))
    BY <1>1, <1>6 DEF plan_file_delete, plan_file_version, IsKnown, PlanOf
  <2> QED
    BY <1>1, <1>2, <1>3, <1>4, <1>6, <2>1 DEF PlanAppends
<1> QED
  BY <1>5, <1>6

\* Any other step leaves the scan and the plan alone.
Elsewhere ==
  /\ UNCHANGED <<last_seen_version, planner, events, before, exit, ghosts>>
  /\ rt' = rt \/ (rt \in {"send_replay", "send", "loop"} /\ rt' \in {"send_replay", "send", "loop", "exited"})
  /\ wal' = wal \/ WkAck

LEMMA RuntimeSteps ==
  ASSUME [Next]_vars
  PROVE  Start \/ Down \/ RtReplay \/ RtPoll \/ RtPlan \/ RtCollect \/ Elsewhere
<1>1. CASE UNCHANGED vars \/ RequestShutdown \/ \E p \in Paths : WriteFile(p) \/ RemoveFile(p)
  BY <1>1 DEF vars, RequestShutdown, WriteFile, RemoveFile, Change, Elsewhere
<1>2. CASE Crash \/ Terminate
  BY <1>2 DEF Crash, Terminate
<1>3. CASE RtSend \/ RtSent \/ RtStop
  BY <1>3 DEF RtSend, RtSent, RtStop, RtGoto, Elsewhere
<1>4. CASE WkAck
  BY <1>4 DEF WkAck, WkGoto, Elsewhere
<1>5. CASE WkNext /\ ~ WkAck
  BY <1>5 DEF WkNext, WkTake, Take, WkEnd, WkLoad, StepFault, WkUpsert, WkDelete, SinkRequest,
              WkLock, WkFail, WkGoto, Elsewhere
<1> QED
  BY <1>1, <1>2, <1>3, <1>4, <1>5 DEF Next, RtNext

\* The other steps of the runtime task, while the log can be read.
LEMMA ReplaySteps ==
  ASSUME ~ LogFaults, RtReplay
  PROVE  /\ rt = "replay" /\ rt' = "send_replay" /\ outbox' = UnackedAt(wal)
         /\ UNCHANGED <<env, durable, last_seen_version, planner, events, before, queue, worker, control>>
  BY DEF RtReplay, LogFault, RtGoto

LEMMA PollSteps ==
  ASSUME ~ LogFaults, RtPoll
  PROVE  /\ rt = "loop" /\ rt' = "tick" /\ before' = Len(wal)
         /\ last_seen_version' = [p \in Present |-> files[p]]
         /\ events' = {Event(p) : p \in {q \in Present : ~ Noticed(q)}}
                      \cup {Event(p) : p \in DOMAIN last_seen_version \ Present}
         /\ unwatched' = unwatched \ Present
         /\ overtaken' = {p \in overtaken \cap Present : Event(p) \in WalVersions(wal)}
         /\ UNCHANGED <<env, durable, planner, exit, outbox, queue, worker>>
  BY DEF RtPoll, LogFault

LEMMA CollectSteps ==
  ASSUME ~ LogFaults, RtCollect
  PROVE  /\ rt = "tick" /\ events = {} /\ before' = 0
         /\ UNCHANGED <<env, durable, last_seen_version, planner, events, queue, worker, exit, overtaken>>
         /\ \/ /\ rt' = "send" /\ outbox' = (before + 1)..Len(wal) /\ unwatched' = unwatched
            \/ /\ rt' = "loop" /\ outbox' = outbox
               /\ unwatched' = unwatched \cup
                    {p \in Paths : \E i \in (before + 1)..Len(wal) : wal[i] = DeleteDocument(p)}
  BY DEF RtCollect, LogFault, RtGoto

-----------------------------------------------------------------------------
(* The scan part of the invariant is kept.                                  *)

LEMMA IdleKept == ASSUME Base, [Next]_vars PROVE Idle'
<1> USE DEF Base
<1>1. CASE Start
  BY <1>1 DEF Start, ScanInv, Idle
<1>2. CASE Down
  BY <1>2 DEF Down, Idle
<1>3. CASE RtReplay \/ RtPoll \/ RtPlan \/ RtCollect
  <2>1. rt' \notin {"off", "replay"}
    BY <1>3 DEF RtReplay, RtPoll, RtPlan, plan_file_delete, plan_file_version, PlanAppend, RtCollect,
                RtGoto, RtFail
  <2> QED
    BY <2>1 DEF Idle
<1>4. CASE Elsewhere /\ rt \notin {"off", "replay"}
  BY <1>4 DEF Elsewhere, Idle
<1>5. CASE Elsewhere /\ rt \in {"off", "replay"}
  <2>0. queue = <<>> /\ hand = <<>> /\ retries = <<>> /\ outbox = {} /\ Len(<<>>) = 0
    BY <1>5 DEF ScanInv, Idle
  <2>1. queue = <<>> /\ hand = <<>> /\ retries = <<>> /\ outbox = {} /\ wk \in {"off", "recv", "done"}
    BY <2>0 DEF WorkInv, Typed, TypeOK, WorkerOK
  <2>2. CASE Start \/ Down \/ RtReplay \/ RtPoll \/ RtPlan \/ RtCollect
    BY <1>1, <1>2, <1>3, <2>2
  <2>3. CASE UNCHANGED vars \/ RequestShutdown \/ \E p \in Paths : WriteFile(p) \/ RemoveFile(p)
    BY <2>1, <2>3 DEF vars, RequestShutdown, WriteFile, RemoveFile, Change, Idle
  <2>4. CASE WkNext
    BY <2>1, <2>4 DEF WkNext, WkTake, WkEnd, WkLoad, WkUpsert, WkDelete, WkLock, WkAck, WkFail, WkAt, WkGoto, Idle
  <2> QED
    BY <1>5, <2>2, <2>3, <2>4 DEF Next, RtNext, Crash, Terminate, RtSend, RtSent, RtStop
<1> QED
  BY <1>1, <1>2, <1>3, <1>4, <1>5, RuntimeSteps

\* With nothing to work on the worker does not write the log.
LEMMA NoAckInIdle == ASSUME Base, WkAck PROVE rt \notin {"off", "replay"}
<1>1. wk = "locked"
  BY DEF WkAck, WkAt
<1>2. Len(hand) = 1
  BY <1>1 DEF Base, WorkInv, Typed, TypeOK, WorkerOK
<1> QED
  BY <1>2 DEF Base, ScanInv, Idle

LEMMA EventsKept == ASSUME ~ LogFaults, Base, [Next]_vars PROVE AllPlanned' /\ EventsSeen'
<1> USE DEF Base, ScanInv
<1>1. CASE Elsewhere
  BY <1>1 DEF Elsewhere, AllPlanned, EventsSeen
<1>6. CASE Start
  <2>1. events' = {}
    BY <1>6 DEF Start, AllPlanned
  <2> QED
    BY <2>1 DEF AllPlanned, EventsSeen
<1>2. CASE Down
  BY <1>2 DEF Down, AllPlanned, EventsSeen
<1>3. CASE RtReplay \/ RtCollect
  BY <1>3, ReplaySteps, CollectSteps DEF AllPlanned, EventsSeen
<1>4. CASE RtPlan
  BY <1>4, PlanSteps DEF PlanFails, PlanSkips, PlanAppends, AllPlanned, EventsSeen
<1>5. CASE RtPoll
  <2>1. rt' = "tick" /\ DOMAIN last_seen_version' = Present
    BY <1>5, PollSteps
  <2>2. \A ev \in events' : ev = Event(ev.path) /\ (ev.path \in Present <=> ev.stamp # Gone)
    <3>1. \A p : Event(p).path = p /\ Event(p).stamp = files[p]
      BY DEF Event, Fingerprint
    <3>2. \A ev \in events' : \E p \in Paths : ev = Event(p)
      BY <1>5, PollSteps DEF Present, WorkInv, Typed, TypeOK, RuntimeOK
    <3> QED
      BY <3>1, <3>2 DEF Present
  <2> QED
    BY <2>1, <2>2 DEF AllPlanned, EventsSeen
<1> QED
  BY <1>1, <1>2, <1>3, <1>4, <1>5, <1>6, RuntimeSteps

\* A new record at the end of the log.
LEMMA Appended ==
  ASSUME Base, NEW r, wal' = Append(wal, r)
  PROVE  LET last == Len(wal) + 1 IN
         /\ Len(wal) \in Nat /\ last \in DOMAIN wal' /\ wal'[last] = r
         /\ \A i \in DOMAIN wal : i \in Nat /\ i < last /\ i \in DOMAIN wal' /\ wal'[i] = wal[i]
         /\ \A i \in DOMAIN wal' : i \in Nat /\ (i = last \/ i \in DOMAIN wal)
<1>1. wal \in Seq(WalRecords)
  BY DEF Base, WorkInv, Typed, TypeOK, DurableOK
<1> QED
  BY <1>1, Longer

\* What the worker appends is no task.
LEMMA AckSteps ==
  ASSUME ~ LogFaults, Base, WkAck
  PROVE  /\ wk = "locked" /\ DOMAIN hand = {1} /\ InHand \in WalRecords /\ IsTask(InHand)
         /\ wal' = Append(wal, AckOf(InHand)) /\ hand' = <<>> /\ wk' = "recv"
         /\ AckOf(InHand) \in WalRecords
         /\ AckOf(InHand).type \in {"sink_ack", "sink_ack_v2", "delete_ack"}
         /\ retries = <<>>
         /\ UNCHANGED <<env, runtime, control, sink, failed, queue, retries>>
<1>1. wk = "locked" /\ wal' = Append(wal, AckOf(InHand)) /\ hand' = <<>> /\ wk' = "recv"
      /\ UNCHANGED <<env, runtime, control, sink, failed, queue, retries>>
  BY DEF WkAck, WkAt, WkGoto, LogFault
<1>2. DOMAIN hand = {1} /\ InHand \in WalRecords /\ IsTask(InHand)
  BY <1>1, WorkerHolds, ItemFields DEF Base, WorkInv, Typed, TypeOK, InHand
<1>3. AckOf(InHand).type \in {"sink_ack", "sink_ack_v2", "delete_ack"}
  BY <1>2 DEF AckOf, IsTask, WorkTypes, SinkAck, SinkAckV2, DeleteAck
<1>4. retries = <<>>
  BY <1>1 DEF Base, WorkInv, RetryNext
<1> QED
  BY <1>1, <1>2, <1>3, <1>4, AckRecords

LEMMA DeletesKept == ASSUME ~ LogFaults, Base, [Next]_vars PROVE DeletesSeen' /\ UnwatchedUnseen'
<1> USE DEF Base, ScanInv
<1>0. before \in Nat /\ Len(wal) \in Nat
  BY Elements DEF WorkInv, Typed, TypeOK, RuntimeOK, DurableOK
<1>1. CASE Start
  BY <1>1 DEF Start, DeletesSeen, UnwatchedUnseen, Planned
<1>2. CASE Down
  BY <1>2 DEF Down, DeletesSeen, UnwatchedUnseen, Planned
<1>3. CASE RtReplay
  BY <1>3, ReplaySteps DEF DeletesSeen, UnwatchedUnseen, Planned
<1>4. ASSUME NEW r, rt = "tick", rt' = "tick", wal' = Append(wal, r), UNCHANGED <<before, last_seen_version>>,
             r.type = "delete_document" => r.key \notin DOMAIN last_seen_version
      PROVE  DeletesSeen'
  <2>1. \A i \in Planned' : i = Len(wal) + 1 \/ (i \in Planned /\ i \in DOMAIN wal)
    <3>1. DOMAIN wal = 1..Len(wal) /\ Len(wal') = Len(wal) + 1
      BY <1>4, Elements DEF WorkInv, Typed, TypeOK, DurableOK
    <3> QED
      BY <1>0, <1>4, <3>1 DEF Planned
  <2>2. wal'[Len(wal) + 1] = r /\ \A i \in DOMAIN wal : wal'[i] = wal[i]
    BY <1>4, Appended
  <2> QED
    BY <1>4, <2>1, <2>2 DEF DeletesSeen
<1>5. CASE RtPlan
  <2>1. UNCHANGED <<unwatched, last_seen_version, before>> /\ rt = "tick"
    BY <1>5, PlanSteps
  <2>2. PICK ev \in events : PlanFails \/ PlanSkips(ev) \/ PlanAppends(ev)
    BY <1>5, PlanSteps
  <2>3. CASE PlanFails \/ PlanSkips(ev)
    BY <2>1, <2>3 DEF PlanFails, PlanSkips, DeletesSeen, UnwatchedUnseen, Planned
  <2>4. CASE PlanAppends(ev)
    <3>1. PlanOf(ev).type = "delete_document" => PlanOf(ev).key \notin DOMAIN last_seen_version
      BY DEF EventsSeen, PlanOf, WorkItemV2, DeleteDocument
    <3> QED
      BY <1>4, <2>1, <2>4, <3>1 DEF PlanAppends, UnwatchedUnseen
  <2> QED
    BY <2>2, <2>3, <2>4
<1>6. CASE RtPoll
  <2>1. Planned' = {} /\ DOMAIN last_seen_version' = Present /\ unwatched' \cap Present = {}
    BY <1>0, <1>6, PollSteps DEF Planned
  <2> QED
    BY <2>1 DEF DeletesSeen, UnwatchedUnseen
<1>7. CASE RtCollect
  <2>1. Planned' = {} /\ Planned = (before + 1)..Len(wal)
    BY <1>7, CollectSteps DEF Planned
  <2>2. \A p : DeleteDocument(p).type = "delete_document" /\ DeleteDocument(p).key = p
    BY DEF DeleteDocument
  <2>3. \A p \in unwatched' \ unwatched : p \notin DOMAIN last_seen_version
    BY <1>7, <2>1, <2>2, CollectSteps DEF DeletesSeen
  <2>4. last_seen_version' = last_seen_version
    BY <1>7, CollectSteps
  <2> QED
    BY <2>1, <2>3, <2>4 DEF DeletesSeen, UnwatchedUnseen
<1>8. CASE Elsewhere
  <2>1. UNCHANGED <<unwatched, last_seen_version, before>> /\ (rt' = "tick" => rt = "tick")
    BY <1>8 DEF Elsewhere
  <2>2. CASE wal' = wal
    BY <2>1, <2>2 DEF DeletesSeen, UnwatchedUnseen, Planned
  <2>3. CASE WkAck
    <3>1. wal' = Append(wal, AckOf(InHand)) /\ AckOf(InHand).type # "delete_document"
      BY <2>3, AckSteps
    <3>2. CASE rt' = "tick"
      BY <1>4, <2>1, <3>1, <3>2 DEF UnwatchedUnseen
    <3>3. CASE rt' # "tick"
      BY <2>1, <3>3 DEF DeletesSeen, UnwatchedUnseen, Planned
    <3> QED
      BY <3>2, <3>3
  <2> QED
    BY <1>8, <2>2, <2>3 DEF Elsewhere
<1> QED
  BY <1>1, <1>2, <1>3, <1>5, <1>6, <1>7, <1>8, RuntimeSteps

\* The log does not change between a start and the replay.
LEMMA AtReplayKept == ASSUME ~ LogFaults, Base, [Next]_vars PROVE AtReplay'
<1> USE DEF Base, ScanInv
<1>1. CASE Start
  <2>1. /\ \A p \in Paths : Overtaken(p) => p \in overtaken'
        /\ unwatched' = {r.key.path : r \in {q \in Unacked(wal) : q.type = "work_item_v2"}}
                        \ (known_live_document_paths(wal) \ planned_deletes')
        /\ DOMAIN last_seen_version' = known_live_document_paths(wal)
        /\ wal' = wal
    BY <1>1 DEF Start
  <2>2. \A p \in Paths : (\E r \in Unacked(wal) : WorkOf(r, p)) =>
          p \in unwatched' \/ p \in DOMAIN last_seen_version' \ planned_deletes'
    BY <2>1 DEF WorkOf
  <2> QED
    BY <2>1, <2>2 DEF AtReplay, Overtaken
<1>2. CASE Elsewhere /\ rt = "replay"
  <2>1. UNCHANGED <<wal, last_seen_version, planned_deletes, unwatched, overtaken, rt>>
    BY <1>2, NoAckInIdle DEF Elsewhere
  <2> QED
    BY <2>1 DEF AtReplay, Overtaken
<1>3. rt' = "replay" => Start \/ (Elsewhere /\ rt = "replay")
  BY RuntimeSteps, PlanSteps, PollSteps, ReplaySteps, CollectSteps
     DEF Down, Elsewhere, PlanFails, PlanSkips, PlanAppends
<1> QED
  BY <1>1, <1>2, <1>3 DEF AtReplay

LEMMA SeenKept == ASSUME ~ LogFaults, Base, Typed', [Next]_vars PROVE SeenPlanned'
<1> USE DEF Base, ScanInv
<1>1. \A r : InLog(r) => InLog(r)'
  BY LogKeeps DEF WorkInv
<1>2. CASE UNCHANGED <<last_seen_version, events, exit>>
  BY <1>1, <1>2 DEF SeenPlanned
<1>3. CASE Start
  BY <1>3 DEF Start, SeenPlanned
<1>4. CASE Down
  BY <1>4 DEF Down, SeenPlanned
<1>5. CASE RtPoll
  <2> SUFFICES ASSUME exit' = "none", NEW p \in Present
               PROVE  Event(p) \in events' \/ \E i \in DOMAIN wal' : wal'[i] = WorkItemV2(Event(p))
    <3>1. last_seen_version' = [p \in Present |-> files[p]]
      BY <1>5, PollSteps
    <3> QED
      BY <3>1 DEF SeenPlanned, Event, InLog
  <2>1. CASE ~ Noticed(p)
    BY <1>5, <2>1, PollSteps
  <2>2. CASE Noticed(p)
    <3>1. p \in DOMAIN last_seen_version /\ last_seen_version[p] = files[p] /\ files[p] # NoStamp
      BY <2>2 DEF Noticed, Present, NoStamp, Gone
    <3>2. events = {} /\ exit = "none"
      BY <1>5, PollSteps DEF AllPlanned
    <3>3. InLog(WorkItemV2(Event(p)))
      BY <3>1, <3>2 DEF SeenPlanned, Event
    <3> QED
      BY <1>1, <3>3 DEF InLog
  <2> QED
    BY <2>1, <2>2
<1>6. CASE RtPlan
  <2>1. PICK ev \in events : events' = events \ {ev} /\ (PlanFails \/ PlanSkips(ev) \/ PlanAppends(ev))
    BY <1>6, PlanSteps
  <2>2. UNCHANGED last_seen_version /\ Planning
    BY <1>6, PlanSteps DEF Planning
  <2>3. CASE PlanFails
    BY <2>3 DEF PlanFails, SeenPlanned
  <2>4. CASE PlanSkips(ev) \/ PlanAppends(ev)
    <3>1. exit' = exit
      BY <2>4 DEF PlanSkips, PlanAppends
    <3>2. ev.stamp # Gone => InLog(WorkItemV2(ev))'
      <4>1. CASE PlanSkips(ev)
        <5>1. ev \in Fingerprints
          BY DEF WorkInv, Typed, TypeOK, RuntimeOK
        <5>2. ev.stamp # Gone => ev \in planned_versions
          BY <4>1 DEF PlanSkips, IsKnown
        <5> QED
          BY <1>1, <2>2, <5>1, <5>2 DEF PlanInv, Remembered
      <4>2. CASE PlanAppends(ev)
        BY <4>2, Appended DEF PlanAppends, PlanOf, InLog
      <4> QED
        BY <2>4, <4>1, <4>2
    <3>3. \A p, s : Fingerprint(p, s) = ev => ev.stamp = s
      BY DEF Fingerprint
    <3> QED
      BY <1>1, <2>1, <2>2, <3>1, <3>2, <3>3 DEF SeenPlanned, NoStamp, Gone
  <2> QED
    BY <2>1, <2>3, <2>4
<1>7. CASE RtReplay \/ RtCollect \/ Elsewhere
  BY <1>2, <1>7, ReplaySteps, CollectSteps DEF Elsewhere
<1> QED
  BY <1>3, <1>4, <1>5, <1>6, <1>7, RuntimeSteps

\* A version that is planned is not older than those in the log.
LEMMA RisingKept == ASSUME ~ LogFaults, Base, [Next]_vars PROVE Rising'
<1> USE DEF Base, ScanInv
<1>0. Typed /\ InOrder
  BY DEF WorkInv, PlanInv, IInv
<1>1. CASE wal' = wal /\ events' \subseteq events
  BY <1>1 DEF Rising
<1>2. CASE RtPoll
  <2>1. wal' = wal /\ \A ev \in events' : \E p \in Paths : ev = Event(p)
    BY <1>0, <1>2, PollSteps DEF Present, Typed, TypeOK, RuntimeOK
  <2>2. ASSUME NEW i \in DOMAIN wal, wal[i].type = "work_item_v2",
               NEW ev \in events', ev.path = wal[i].key.path, ev.stamp # Gone
        PROVE  wal[i].key.stamp <= ev.stamp
    <3>1. ev.stamp = files[wal[i].key.path]
      BY <2>1, <2>2 DEF Event, Fingerprint
    <3>2. Past(wal[i].key.path, wal[i].key.stamp)
      BY <1>0, <2>2 DEF InOrder, RecordsInOrder, RecordInOrder, FileTypes
    <3> QED
      BY <2>2, <3>1, <3>2 DEF Past
  <2> QED
    BY <2>1, <2>2 DEF Rising
<1>3. ASSUME NEW r, wal' = Append(wal, r), events' \subseteq events, r.type # "work_item_v2"
      PROVE  Rising'
  <2>1. \A i \in DOMAIN wal' : wal'[i].type = "work_item_v2" => i \in DOMAIN wal /\ wal'[i] = wal[i]
    BY <1>3, Appended
  <2> QED
    BY <1>3, <2>1 DEF Rising, WorkOf
<1>4. CASE WkAck
  BY <1>3, <1>4, AckSteps
<1>5. CASE RtPlan
  <2>1. PICK ev \in events : events' = events \ {ev} /\ (PlanFails \/ PlanSkips(ev) \/ PlanAppends(ev))
    BY <1>5, PlanSteps
  <2>2. CASE PlanFails \/ PlanSkips(ev)
    BY <1>1, <2>1, <2>2 DEF PlanFails, PlanSkips
  <2>3. CASE PlanAppends(ev) /\ ev.stamp = Gone
    BY <1>3, <2>1, <2>3 DEF PlanAppends, PlanOf, DeleteDocument
  <2>4. CASE PlanAppends(ev) /\ ev.stamp # Gone
    <3> DEFINE last == Len(wal) + 1
    <3>1. wal' = Append(wal, WorkItemV2(ev))
      BY <2>4 DEF PlanAppends, PlanOf
    <3>2. /\ last \in DOMAIN wal' /\ wal'[last] = WorkItemV2(ev)
          /\ \A i \in DOMAIN wal : i \in Nat /\ i < last /\ i \in DOMAIN wal' /\ wal'[i] = wal[i]
          /\ \A i \in DOMAIN wal' : i \in Nat /\ (i = last \/ i \in DOMAIN wal)
      BY <3>1, Appended
    <3> HIDE DEF last
    <3>3. WorkItemV2(ev).key = ev
      BY DEF WorkItemV2
    <3>4. ASSUME NEW i \in DOMAIN wal', wal'[i].type = "work_item_v2"
          PROVE  /\ \A j \in DOMAIN wal' : j > i /\ WorkOf(wal'[j], wal'[i].key.path) =>
                       wal'[i].key.stamp <= wal'[j].key.stamp
                 /\ \A e \in events' : e.path = wal'[i].key.path /\ e.stamp # Gone =>
                       wal'[i].key.stamp <= e.stamp
      <4>1. CASE i = last
        <5>1. \A j \in DOMAIN wal' : ~ (j > last)
          BY <3>2
        <5>2. \A e \in events' : e.path # ev.path
          BY <2>1 DEF PlanInv, OneEventEach
        <5> QED
          BY <3>2, <3>3, <4>1, <5>1, <5>2
      <4>2. CASE i \in DOMAIN wal
        <5>1. \A e \in events : e.path = wal[i].key.path /\ e.stamp # Gone => wal[i].key.stamp <= e.stamp
          BY <3>2, <3>4, <4>2 DEF Rising
        <5>2. \A j \in DOMAIN wal : j > i /\ WorkOf(wal[j], wal[i].key.path) => wal[i].key.stamp <= wal[j].key.stamp
          BY <3>2, <3>4, <4>2 DEF Rising
        <5>3. WorkOf(wal'[last], wal[i].key.path) => wal[i].key.stamp <= wal'[last].key.stamp
          BY <2>4, <3>2, <3>3, <5>1 DEF WorkOf
        <5> QED
          BY <2>1, <3>2, <4>2, <5>1, <5>2, <5>3
      <4> QED
        BY <3>2, <4>1, <4>2
    <3> QED
      BY <3>4 DEF Rising
  <2> QED
    BY <2>1, <2>2, <2>3, <2>4
<1>6. CASE Start \/ Down \/ RtReplay \/ RtCollect
  <2>1. wal' = wal
    BY <1>6 DEF Start, Down, RtReplay, RtCollect
  <2>2. events' = events \/ events' = {}
    BY <1>6 DEF Start, Down, RtReplay, RtCollect
  <2> QED
    BY <1>1, <2>1, <2>2
<1>7. CASE Elsewhere
  BY <1>1, <1>4, <1>7 DEF Elsewhere
<1> QED
  BY <1>2, <1>5, <1>6, <1>7, RuntimeSteps

LEMMA InitScan == Init => ScanInv
<1> SUFFICES ASSUME Init PROVE ScanInv
  OBVIOUS
<1>1. Rising
  BY LegacyOnly DEF Rising, LegacyTypes
<1>2. Idle /\ AllPlanned /\ EventsSeen /\ DeletesSeen /\ UnwatchedUnseen /\ AtReplay /\ SeenPlanned
  BY DEF Init, Idle, AllPlanned, EventsSeen, DeletesSeen, UnwatchedUnseen, AtReplay, SeenPlanned, Planned
<1> QED
  BY <1>1, <1>2 DEF ScanInv

LEMMA ScanInvKept == ASSUME ~ LogFaults, Base, Typed', [Next]_vars PROVE ScanInv'
  BY IdleKept, EventsKept, DeletesKept, AtReplayKept, SeenKept, RisingKept DEF ScanInv

-----------------------------------------------------------------------------
(* What is under way, in the order in which the worker gets to it.          *)

Ahead == Planned \cup outbox

\* Place 0 is the worker, with its retry; then come the places of the queue,
\* then the records of the log that are still to be sent.
At(n, r) == \/ n = 0 /\ (Held(r) \/ Retrying(r))
            \/ n \in DOMAIN queue /\ queue[n] = r
            \/ \E i \in Ahead : n = Capacity + i /\ wal[i] = r

Behind(r, q) == \E m, n \in Nat : m < n /\ At(m, r) /\ At(n, q)

\* A step after which the same tasks are under way, in the same order.
KeepsFlight ==
  /\ \A r : IsTask(r) => (r \in InFlight' <=> r \in InFlight)
  /\ \A r, q : IsTask(r) /\ IsTask(q) => (Behind(r, q)' <=> Behind(r, q))

LEMMA Places ==
  ASSUME WorkInv, WorkInv'
  PROVE  /\ Ahead \subseteq DOMAIN wal /\ DOMAIN wal = 1..Len(wal) /\ Len(wal) \in Nat
         /\ DOMAIN queue = 1..Len(queue) /\ Len(queue) \in Nat /\ Len(queue) <= Capacity /\ Capacity \in Nat \ {0}
         /\ \A n, r : At(n, r) => n = 0 \/ n \in 1..Len(queue) \/ \E i \in Ahead : n = Capacity + i
         /\ \A n, r : At(n, r) => n \in Nat
         /\ \A r : r \in InFlight <=> \E n \in Nat : At(n, r)
         /\ \A r : r \in InFlight' <=> \E n \in Nat : At(n, r)'
<1>1. ASSUME NEW S, NEW log \in Seq(S), NEW from \in Nat
      PROVE  DOMAIN log = 1..Len(log) /\ Len(log) \in Nat /\ (from + 1)..Len(log) \subseteq DOMAIN log
  OBVIOUS
<1>2. /\ Ahead \subseteq DOMAIN wal /\ DOMAIN wal = 1..Len(wal) /\ Len(wal) \in Nat
      /\ DOMAIN queue = 1..Len(queue) /\ Len(queue) \in Nat /\ Len(queue) <= Capacity /\ Capacity \in Nat \ {0}
  BY <1>1, ConstantsAssumption DEF WorkInv, Typed, TypeOK, DurableOK, RuntimeOK, QueueOK, Ahead, Planned
<1>3. Ahead' \subseteq Nat /\ DOMAIN queue' \subseteq Nat
  BY <1>1 DEF WorkInv, Typed, TypeOK, DurableOK, RuntimeOK, QueueOK, Ahead, Planned
<1>4. \A n, r : At(n, r) => n = 0 \/ n \in 1..Len(queue) \/ \E i \in Ahead : n = Capacity + i
  BY <1>2 DEF At
<1>5. \A n, r : At(n, r) => n \in Nat
  BY <1>2, <1>4
<1>6. \A r : r \in InFlight <=> \E n : At(n, r)
  BY InFlightParts DEF At, Sending, Queued, Ahead
<1>7. \A n, r : At(n, r)' => n \in Nat
  BY <1>2, <1>3 DEF At
<1>8. \A r : r \in InFlight' <=> \E n : At(n, r)'
  BY InFlightParts DEF At, Sending, Queued, Ahead
<1> QED
  BY <1>2, <1>4, <1>5, <1>6, <1>7, <1>8

\* A step that moves what is under way from place to place, in order.
LEMMA Ordered ==
  ASSUME WorkInv, WorkInv', NEW up \in [Nat -> Nat], NEW down \in [Nat -> Nat],
         \A n \in Nat : \A r : IsTask(r) =>
           /\ At(n, r)' => At(up[n], r)
           /\ At(n, r)  => At(down[n], r)',
         \A m, n \in Nat : \A r, q : m < n /\ IsTask(r) /\ IsTask(q) =>
           /\ At(m, r)' /\ At(n, q)' => up[m] < up[n]
           /\ At(m, r) /\ At(n, q) => down[m] < down[n]
  PROVE  KeepsFlight
<1>1. ASSUME NEW r, IsTask(r)
      PROVE  r \in InFlight' <=> r \in InFlight
  <2>1. (\E n \in Nat : At(n, r)') <=> \E n \in Nat : At(n, r)
    BY <1>1
  <2> QED
    BY <2>1, Places
<1>2. ASSUME NEW r, NEW q, IsTask(r), IsTask(q)
      PROVE  Behind(r, q)' <=> Behind(r, q)
  <2>1. ASSUME NEW m \in Nat, NEW n \in Nat, m < n, At(m, r)', At(n, q)'
        PROVE  up[m] \in Nat /\ up[n] \in Nat /\ up[m] < up[n] /\ At(up[m], r) /\ At(up[n], q)
    BY <1>2, <2>1
  <2>2. ASSUME NEW m \in Nat, NEW n \in Nat, m < n, At(m, r), At(n, q)
        PROVE  down[m] \in Nat /\ down[n] \in Nat /\ down[m] < down[n] /\ At(down[m], r)' /\ At(down[n], q)'
    BY <1>2, <2>2
  <2> QED
    BY <2>1, <2>2 DEF Behind
<1> QED
  BY <1>1, <1>2 DEF KeepsFlight

LEMMA SamePlaces ==
  ASSUME WorkInv, WorkInv', \A n, r : At(n, r)' <=> At(n, r)
  PROVE  KeepsFlight
<1>1. \A r : r \in InFlight' <=> r \in InFlight
  BY Places
<1>2. \A r, q : Behind(r, q)' <=> Behind(r, q)
  BY DEF Behind
<1> QED
  BY <1>1, <1>2 DEF KeepsFlight

\* The worker takes what is first.
LEMMA TakeKeepsFlight == ASSUME Base, WorkInv', WkTake PROVE KeepsFlight
<1> USE DEF Base
<1>0. Typed /\ wk = "recv" /\ hand = <<>>
  <2>1. Typed /\ wk = "recv"
    BY DEF WkTake, WkAt, WorkInv
  <2>2. hand \in Seq(Items) /\ Len(hand) = 0
    BY <2>1 DEF Typed, TypeOK, WorkerOK
  <2> QED
    BY <2>1, <2>2, EmptySeq
<1>1. UNCHANGED <<wal, rt, before, outbox>>
  BY DEF WkTake, Take, WkGoto
<1>2. \A i : i \in Ahead' <=> i \in Ahead
  BY <1>1 DEF Ahead, Planned
<1>3. ASSUME NEW item, Take(item), IsTask(item.record)
      PROVE  hand' = <<item>> /\ \A r : Held(r)' <=> r = item.record
  <2>1. hand' = <<item>>
    BY <1>3 DEF Take, FirstStep, IsTask, WorkTypes
  <2>2. DOMAIN hand' = {1} /\ hand'[1] = item
    BY <2>1
  <2> QED
    BY <2>1, <2>2 DEF Held
<1>4. CASE retries # <<>>
  <2>1. Take(Head(retries)) /\ retries' = Tail(retries) /\ queue' = queue
    BY <1>4 DEF WkTake
  <2>2. PICK item : retries = <<item>>
    BY <1>4 DEF WorkInv, RetryNext
  <2>3. Head(retries) = item /\ retries' = <<>> /\ DOMAIN retries = {1} /\ retries[1] = item
    BY <2>1, <2>2
  <2>4. IsTask(item.record)
    <3>1. retries \in Seq(Items)
      BY <1>0 DEF Typed, TypeOK, WorkerOK
    <3>2. item \in Items
      BY <2>3, <3>1, Elements
    <3> QED
      BY <3>2, ItemFields
  <2>5. \A r : Held(r)' \/ Retrying(r)' <=> Held(r) \/ Retrying(r)
    <3>1. \A r : Held(r)' <=> r = item.record
      BY <1>3, <2>1, <2>3, <2>4
    <3>2. \A r : ~ Held(r) /\ ~ Retrying(r)' /\ (Retrying(r) <=> r = item.record)
      BY <1>0, <2>3 DEF Held, Retrying
    <3> QED
      BY <3>1, <3>2
  <2>6. \A n, r : At(n, r)' <=> At(n, r)
    BY <1>1, <1>2, <2>1, <2>5 DEF At
  <2> QED
    BY <2>6, SamePlaces
<1>5. CASE retries = <<>>
  <2> DEFINE up   == [n \in Nat |-> IF n < Capacity THEN n + 1 ELSE n]
             down == [n \in Nat |-> IF n \in 1..Capacity THEN n - 1 ELSE n]
  <2>1. queue # <<>> /\ Take(Item(Head(queue), 1)) /\ queue' = Tail(queue) /\ retries' = <<>>
    BY <1>5 DEF WkTake
  <2>2. Item(Head(queue), 1).record = Head(queue)
    BY DEF Item
  <2>3. /\ 1 \in DOMAIN queue /\ Head(queue) = queue[1]
        /\ \A n \in Nat : n \in DOMAIN queue' <=> n # 0 /\ n + 1 \in DOMAIN queue
        /\ \A n \in DOMAIN queue' : queue'[n] = queue[n + 1]
    BY <1>0, <2>1 DEF Typed, TypeOK, QueueOK
  <2>4. \A r : ~ At(0, r)
    BY <1>0, <1>5, Places DEF At, Held, Retrying
  <2>5. \A r : IsTask(r) => (At(0, r)' <=> r = queue[1])
    <3>1. \A r : Held(r)' => hand' # <<>>
      BY DEF Held
    <3>2. hand' # <<>> => IsTask(queue[1])
      BY <2>1, <2>2, <2>3 DEF Take, FirstStep, IsTask, WorkTypes
    <3>3. IsTask(queue[1]) => \A r : Held(r)' <=> r = queue[1]
      BY <1>3, <2>1, <2>2, <2>3
    <3>4. \A r : ~ Retrying(r)'
      BY <2>1 DEF Retrying
    <3>5. \A n \in DOMAIN queue' : n # 0
      BY <2>1, <1>0 DEF Typed, TypeOK, QueueOK
    <3>6. \A i \in Ahead' : 0 # Capacity + i
      BY <1>2, Places
    <3>7. \A r : At(0, r)' <=> Held(r)'
      BY <3>4, <3>5, <3>6 DEF At
    <3> QED
      BY <3>1, <3>2, <3>3, <3>7
  <2>6. \A n \in Nat : n \notin 0..Capacity => \A r : At(n, r)' <=> At(n, r)
    <3>1. \A n \in Nat : n \notin 0..Capacity => n # 0 /\ n \notin DOMAIN queue /\ n \notin DOMAIN queue'
      BY <2>3, Places
    <3> QED
      BY <1>1, <1>2, <3>1 DEF At
  <2>7. \A n \in 1..(Capacity - 1) : \A r : At(n, r)' <=> At(n + 1, r)
    <3>1. \A n \in 1..Capacity : n # 0 /\ \A i \in Ahead : n # Capacity + i
      BY Places
    <3>2. \A n \in 1..Capacity : \A r : /\ At(n, r) <=> n \in DOMAIN queue /\ queue[n] = r
                                        /\ At(n, r)' <=> n \in DOMAIN queue' /\ queue'[n] = r
      BY <1>1, <1>2, <3>1 DEF At
    <3>3. \A n \in 1..(Capacity - 1) : n \in 1..Capacity /\ n + 1 \in 1..Capacity /\ n \in Nat
      BY Places
    <3> QED
      BY <2>3, <3>2, <3>3
  <2>8. \A r : ~ At(Capacity, r)'
    <3>1. Capacity \notin DOMAIN queue' /\ Capacity # 0 /\ \A i \in Ahead' : Capacity # Capacity + i
      BY <1>2, <2>3, Places
    <3> QED
      BY <3>1 DEF At
  <2>9. \A r : At(1, r) <=> r = queue[1]
    <3>1. \A i \in Ahead : 1 # Capacity + i
      BY Places
    <3> QED
      BY <2>3, <3>1 DEF At
  <2>10. Capacity \in Nat \ {0}
    BY Places
  <2>11. ASSUME NEW n \in Nat, NEW r, IsTask(r)
         PROVE  /\ At(n, r)' => At(up[n], r) /\ n # Capacity
                /\ At(n, r)  => At(down[n], r)' /\ n # 0
    <3>1. CASE n = 0
      <4>1. up[n] = 1
        BY <2>10, <3>1
      <4> QED
        BY <2>4, <2>5, <2>9, <2>10, <2>11, <3>1, <4>1
    <3>2. CASE n = Capacity
      <4>1. down[n] = Capacity - 1 /\ n # 0
        BY <2>10, <3>2
      <4>2. Capacity = 1 \/ (Capacity - 1 \in 1..(Capacity - 1) /\ Capacity - 1 + 1 = Capacity)
        BY <2>10
      <4> QED
        BY <2>5, <2>7, <2>8, <2>9, <2>11, <3>2, <4>1, <4>2
    <3>3. CASE n \in 1..(Capacity - 1)
      <4>1. up[n] = n + 1 /\ down[n] = n - 1 /\ n # 0 /\ n # Capacity
        BY <2>10, <3>3
      <4>2. n = 1 \/ (n - 1 \in 1..(Capacity - 1) /\ n - 1 + 1 = n)
        BY <2>10, <3>3
      <4>3. n = 1 => n - 1 = 0
        OBVIOUS
      <4> QED
        BY <2>5, <2>7, <2>9, <2>11, <3>3, <4>1, <4>2, <4>3
    <3>4. CASE n \notin 0..Capacity
      <4>1. up[n] = n /\ down[n] = n /\ n # 0 /\ n # Capacity
        BY <2>10, <3>4
      <4> QED
        BY <2>6, <3>4, <4>1
    <3> QED
      BY <2>10, <3>1, <3>2, <3>3, <3>4
  <2>12. ASSUME NEW m \in Nat, NEW n \in Nat, m < n
         PROVE  /\ m # Capacity /\ n # Capacity => up[m] < up[n]
                /\ m # 0 => down[m] < down[n]
    BY <2>10, <2>12
  <2>13. up \in [Nat -> Nat] /\ down \in [Nat -> Nat]
    BY <2>10
  <2> HIDE DEF up, down
  <2>14. \A m, n \in Nat : \A r, q : m < n /\ IsTask(r) /\ IsTask(q) =>
           /\ At(m, r)' /\ At(n, q)' => up[m] < up[n]
           /\ At(m, r) /\ At(n, q) => down[m] < down[n]
    BY <2>11, <2>12
  <2> QED
    BY <2>11, <2>13, <2>14, Ordered
<1> QED
  BY <1>4, <1>5

\* The next record to be sent is the last in the queue.
LEMMA SendKeepsFlight == ASSUME Base, WorkInv', RtSend PROVE KeepsFlight
<1> USE DEF Base
<1>1. PICK i \in outbox : /\ \A j \in outbox : i <= j
                          /\ queue' = Append(queue, wal[i]) /\ outbox' = outbox \ {i}
  BY DEF RtSend
<1>2. /\ UNCHANGED <<wal, hand, retries>> /\ Len(queue) < Capacity
      /\ rt \in {"send_replay", "send"} /\ rt' # "tick" /\ queue \in Seq(WalRecords)
  BY DEF RtSend, RtGoto, WorkInv, Typed, TypeOK, QueueOK
<1>3. Ahead = outbox /\ Ahead' = outbox \ {i} /\ Ahead \subseteq Nat \ {0}
  BY <1>1, <1>2, Places DEF Ahead, Planned
<1>12. PICK new \in Nat : new = Len(queue) + 1
  BY <1>2
<1> DEFINE up   == [n \in Nat |-> IF n = new THEN Capacity + i ELSE n]
           down == [n \in Nat |-> IF n = Capacity + i THEN new ELSE n]
<1>4. new \in 1..Capacity /\ Capacity \in Nat /\ i \in Nat \ {0}
  BY <1>1, <1>2, <1>3, <1>12, Places
<1>5. /\ \A n : n \in DOMAIN queue' <=> n = new \/ n \in DOMAIN queue
      /\ queue'[new] = wal[i] /\ new \notin DOMAIN queue
      /\ \A n \in DOMAIN queue : queue'[n] = queue[n]
  BY <1>1, <1>2, <1>12
<1>6. \A r : (Held(r) <=> Held(r)') /\ (Retrying(r) <=> Retrying(r)')
  BY <1>2 DEF Held, Retrying
<1>7. \A n : n \in DOMAIN queue => n \in 1..(new - 1)
  BY <1>12, Places
<1>8. \A r : /\ At(new, r)' <=> r = wal[i]
             /\ ~ At(new, r)
             /\ At(Capacity + i, r) <=> r = wal[i]
             /\ ~ At(Capacity + i, r)'
  <2>1. new # 0 /\ Capacity + i # 0 /\ \A j \in Nat \ {0} : new # Capacity + j
    BY <1>4
  <2>2. \A j \in Nat \ {0} : Capacity + j = Capacity + i => j = i
    BY <1>4
  <2>3. Capacity + i \notin DOMAIN queue /\ Capacity + i \notin DOMAIN queue'
    BY <1>4, <1>5, <1>7
  <2>4. \A r : (At(new, r)' <=> r = wal[i]) /\ ~ At(new, r)
    BY <1>2, <1>3, <1>5, <2>1 DEF At
  <2>5. \A r : (At(Capacity + i, r) <=> r = wal[i]) /\ ~ At(Capacity + i, r)'
    BY <1>1, <1>2, <1>3, <2>1, <2>2, <2>3 DEF At
  <2> QED
    BY <2>4, <2>5
<1>9. \A n, r : n # new /\ n # Capacity + i => (At(n, r)' <=> At(n, r))
  BY <1>1, <1>2, <1>3, <1>5, <1>6 DEF At
<1>10. ASSUME NEW n \in Nat, NEW r
       PROVE  /\ At(n, r)' => At(up[n], r) /\ (n \in 0..new \/ n > Capacity + i)
              /\ At(n, r)  => At(down[n], r)' /\ (n \in 0..(new - 1) \/ n >= Capacity + i)
  <2>1. CASE n = new
    BY <1>4, <1>8, <2>1
  <2>2. CASE n = Capacity + i
    BY <1>4, <1>8, <2>2
  <2>3. CASE n # new /\ n # Capacity + i
    <3>1. At(n, r) => n = 0 \/ n \in 1..(new - 1) \/ \E j \in outbox : n = Capacity + j
      BY <1>3, <1>12, Places
    <3>2. At(n, r) => n = 0 \/ n \in 1..(new - 1) \/ n > Capacity + i
      <4>1. ASSUME NEW j \in outbox, n = Capacity + j
            PROVE  n > Capacity + i
        <5>1. i <= j /\ i # j /\ j \in Nat
          BY <1>1, <1>3, <2>3, <4>1
        <5> QED
          BY <1>4, <4>1, <5>1
      <4> QED
        BY <3>1, <4>1
    <3>3. up[n] = n /\ down[n] = n
      BY <2>3
    <3>4. At(n, r)' <=> At(n, r)
      BY <1>9, <2>3
    <3> QED
      BY <1>4, <3>2, <3>3, <3>4
  <2> QED
    BY <2>1, <2>2, <2>3
<1>11. ASSUME NEW m \in Nat, NEW n \in Nat, m < n
       PROVE  /\ (m \in 0..new \/ m > Capacity + i) /\ (n \in 0..new \/ n > Capacity + i) => up[m] < up[n]
              /\ (m \in 0..(new - 1) \/ m >= Capacity + i) /\ (n \in 0..(new - 1) \/ n >= Capacity + i) => down[m] < down[n]
  BY <1>4, <1>11
<1>13. up \in [Nat -> Nat] /\ down \in [Nat -> Nat]
  BY <1>4
<1> HIDE DEF up, down
<1>14. \A m, n \in Nat : \A r, q : m < n /\ IsTask(r) /\ IsTask(q) =>
         /\ At(m, r)' /\ At(n, q)' => up[m] < up[n]
         /\ At(m, r) /\ At(n, q) => down[m] < down[n]
  BY <1>10, <1>11
<1> QED
  BY <1>10, <1>13, <1>14, Ordered

LEMMA SameAhead ==
  ASSUME WorkInv, WorkInv', UNCHANGED <<queue, hand, retries, wal>>, \A i : i \in Ahead' <=> i \in Ahead
  PROVE  KeepsFlight
<1>1. \A n, r : At(n, r)' <=> At(n, r)
  BY DEF At, Held, Retrying
<1> QED
  BY <1>1, SamePlaces

\* The worker, the owner and the signals: only an acknowledgement and work that
\* is given up take anything away.
LEMMA ElsewhereKeeps ==
  ASSUME ~ LogFaults, Base, WorkInv', [Next]_vars, Elsewhere, ~ WkAck, failed' = failed
  PROVE  KeepsFlight /\ wal' = wal
<1>1. wal' = wal /\ UNCHANGED before /\ (rt' = "tick" <=> rt = "tick")
  BY DEF Elsewhere
<1>2. Planned' = Planned
  BY <1>1 DEF Planned
<1>3. CASE UNCHANGED <<queue, hand, retries, outbox>>
  BY <1>1, <1>2, <1>3, SameAhead DEF Ahead, Base
<1>4. CASE RtSend \/ WkTake
  BY <1>1, <1>4, SendKeepsFlight, TakeKeepsFlight
<1>5. CASE WkFail
  <2>1. failed \in Seq(JournalRecords)
    BY DEF Base, WorkInv, Typed, TypeOK, DurableOK
  <2>2. \A x : Append(failed, x) # failed
    BY <2>1
  <2>3. ~ Exhaust
    BY <2>2 DEF Exhaust, LogFault
  <2>4. /\ wk = "fail" /\ hand' = <<>> /\ UNCHANGED <<queue, outbox>>
        /\ retries' = Append(retries, Item(InHand, hand[1].attempt + 1))
    BY <1>5, <2>3 DEF WkFail, WkAt, WkGoto
  <2>5. retries = <<>> /\ DOMAIN hand = {1}
    BY <2>4, WorkerHolds DEF Base, WorkInv, RetryNext, Typed, TypeOK
  <2>6. DOMAIN retries' = {1} /\ retries'[1].record = InHand
    BY <2>4, <2>5 DEF Item
  <2>7. \A r : Held(r)' \/ Retrying(r)' <=> Held(r) \/ Retrying(r)
    BY <2>4, <2>5, <2>6 DEF Held, Retrying, InHand
  <2>8. \A n, r : At(n, r)' <=> At(n, r)
    BY <1>1, <1>2, <2>4, <2>7 DEF At, Ahead
  <2> QED
    BY <1>1, <2>8, SamePlaces DEF Base
<1>6. CASE WkNext /\ ~ WkTake /\ ~ WkFail
  BY <1>3, <1>6 DEF WkNext, WkEnd, WkLoad, StepFault, WkUpsert, WkDelete, SinkRequest, WkLock, WkGoto
<1>7. CASE RtReplay \/ RtPoll \/ RtPlan \/ RtCollect
  BY <1>7, ReplaySteps, PollSteps, PlanSteps, CollectSteps DEF Elsewhere, PlanFails, PlanSkips, PlanAppends
<1>8. CASE UNCHANGED vars \/ RequestShutdown \/ RtSent \/ RtStop \/ \E p \in Paths : WriteFile(p) \/ RemoveFile(p)
  BY <1>3, <1>8 DEF vars, RequestShutdown, RtSent, RtStop, WriteFile, RemoveFile, Change
<1>9. CASE Start
  BY <1>9 DEF Start, Elsewhere
<1>10. CASE Crash \/ Terminate
  <2>1. rt = "off" /\ rt' = "off"
    BY <1>10 DEF Crash, Terminate, Down, Elsewhere
  <2>2. UNCHANGED <<queue, hand, retries, outbox>>
    BY <1>10, <2>1 DEF Crash, Terminate, Down, Base, ScanInv, Idle
  <2> QED
    BY <1>3, <2>2
<1> QED
  BY <1>1, <1>4, <1>5, <1>6, <1>7, <1>8, <1>9, <1>10 DEF Next, RtNext

LEMMA StartKeeps == ASSUME WorkInv, WorkInv', Start PROVE KeepsFlight
<1>1. \A i : i \in Ahead' <=> i \in Ahead
  BY DEF Start, Ahead, Planned
<1> QED
  BY <1>1, SameAhead DEF Start

LEMMA PollKeeps == ASSUME ~ LogFaults, WorkInv, WorkInv', RtPoll PROVE KeepsFlight
<1>1. Len(wal) \in Nat
  BY Places
<1>2. \A i : i \in Ahead' <=> i \in Ahead
  BY <1>1, PollSteps DEF Ahead, Planned
<1> QED
  BY <1>2, PollSteps, SameAhead

LEMMA SkipKeeps == ASSUME ~ LogFaults, WorkInv, WorkInv', RtPlan, rt' = "tick", wal' = wal PROVE KeepsFlight
<1>1. \A i : i \in Ahead' <=> i \in Ahead
  BY PlanSteps DEF Ahead, Planned
<1> QED
  BY <1>1, PlanSteps, SameAhead

LEMMA CollectKeeps == ASSUME ~ LogFaults, WorkInv, WorkInv', RtCollect, rt' = "send" PROVE KeepsFlight
<1>1. outbox = {}
  BY CollectSteps DEF WorkInv, NothingUnsent
<1>2. \A i : i \in Ahead' <=> i \in Ahead
  BY <1>1, CollectSteps DEF Ahead, Planned
<1> QED
  BY <1>2, CollectSteps, SameAhead

\* The worker is done with the record it holds.
LEMMA HandLeaves ==
  ASSUME ~ LogFaults, Base, WorkInv', WkAck \/ (WkFail /\ failed' # failed)
  PROVE  /\ DOMAIN hand = {1} /\ InHand \in WalRecords /\ IsTask(InHand)
         /\ \A n, r : IsTask(r) => (At(n, r)' <=> At(n, r) /\ n # 0)
         /\ \A r : At(0, r) <=> r = InHand
<1> USE DEF Base
<1>1. /\ DOMAIN hand = {1} /\ InHand \in WalRecords /\ IsTask(InHand) /\ retries = <<>> /\ hand' = <<>>
      /\ UNCHANGED <<queue, retries, rt, before, outbox>>
  <2>1. wk \in {"locked", "fail"} /\ UNCHANGED <<queue, rt, before, outbox>>
    BY DEF WkAck, WkFail, WkAt, WkGoto
  <2>2. hand' = <<>> /\ UNCHANGED retries
    BY Zenon DEF WkAck, WkFail, LogFault
  <2>3. retries = <<>>
    BY <2>1 DEF WorkInv, RetryNext
  <2> QED
    BY <2>1, <2>2, <2>3, WorkerHolds, ItemFields DEF WorkInv, Typed, TypeOK, InHand
<1>2. \A r : ~ Held(r)' /\ ~ Retrying(r)' /\ ~ Retrying(r) /\ (Held(r) <=> r = InHand)
  BY <1>1 DEF Held, Retrying, InHand
<1>3. /\ Ahead \subseteq Nat \ {0} /\ DOMAIN queue \subseteq Nat \ {0} /\ Capacity \in Nat
      /\ Ahead \subseteq DOMAIN wal
  BY Places
<1>4. \A r : At(0, r) <=> r = InHand
  <2>1. 0 \notin DOMAIN queue /\ \A i \in Ahead : 0 # Capacity + i
    BY <1>3
  <2> QED
    BY <1>2, <2>1 DEF At
<1>5. ASSUME NEW r, IsTask(r), NEW i
      PROVE  i \in Ahead' /\ wal'[i] = r <=> i \in Ahead /\ wal[i] = r
  <2>1. CASE wal' = wal
    BY <1>1, <2>1 DEF Ahead, Planned
  <2>2. CASE WkAck
    <3>1. wal' = Append(wal, AckOf(InHand)) /\ ~ IsTask(AckOf(InHand))
      BY <2>2, AckSteps DEF IsTask, WorkTypes
    <3>2. /\ Len(wal) \in Nat /\ Len(wal') = Len(wal) + 1 /\ wal'[Len(wal) + 1] = AckOf(InHand)
          /\ \A j \in DOMAIN wal : wal'[j] = wal[j]
      BY <3>1, Appended DEF WorkInv, Typed, TypeOK, DurableOK
    <3>3. \A j : j \in Ahead' <=> j \in Ahead \/ (j = Len(wal) + 1 /\ rt = "tick")
      <4>1. before \in Nat /\ before <= Len(wal)
        BY DEF WorkInv, NothingUnsent, Typed, TypeOK, RuntimeOK
      <4> QED
        BY <1>1, <3>2, <4>1 DEF Ahead, Planned
    <3>4. i = Len(wal) + 1 => wal'[i] # r /\ i \notin Ahead
      BY <1>3, <1>5, <3>1, <3>2, Places
    <3> QED
      BY <1>3, <3>2, <3>3, <3>4
  <2> QED
    BY <2>1, <2>2 DEF WkFail
<1>6. \A n, r : IsTask(r) => (At(n, r)' <=> At(n, r) /\ n # 0)
  <2>1. \A n \in DOMAIN queue : n # 0
    BY <1>3
  <2>2. \A i \in Ahead : Capacity + i # 0
    BY <1>3
  <2> QED
    BY <1>1, <1>2, <1>5, <2>1, <2>2 DEF At
<1> QED
  BY <1>1, <1>4, <1>6

\* What a tick has planned is dropped.
LEMMA TickLeaves ==
  ASSUME ~ LogFaults, Base, WorkInv', (RtPlan /\ PlanFails) \/ (RtCollect /\ rt' = "loop")
  PROVE  /\ \A n, r : At(n, r)' <=> At(n, r) /\ n \in 0..Capacity
         /\ Ahead = (before + 1)..Len(wal)
<1> USE DEF Base
<1>1. rt = "tick" /\ rt' # "tick" /\ UNCHANGED <<queue, hand, retries, wal, outbox>>
  BY PlanSteps, CollectSteps DEF PlanFails
<1>2. outbox = {}
  BY <1>1 DEF WorkInv, NothingUnsent
<1>3. Ahead = (before + 1)..Len(wal) /\ Ahead' = {}
  BY <1>1, <1>2 DEF Ahead, Planned
<1>4. \A i \in Ahead : Capacity + i \notin 0..Capacity
  BY Places
<1>5. DOMAIN queue \subseteq 0..Capacity /\ 0 \in 0..Capacity
  BY Places
<1>6. \A n, r : At(n, r)' <=> At(n, r) /\ n \in 0..Capacity
  BY <1>1, <1>3, <1>4, <1>5 DEF At, Held, Retrying
<1> QED
  BY <1>3, <1>6

\* A planned record comes after everything else.
LEMMA PlanAdds ==
  ASSUME ~ LogFaults, Base, WorkInv', RtPlan, rt' = "tick", NEW r, wal' = Append(wal, r)
  PROVE  \E end \in Nat : /\ end # 0
                          /\ \A n, q : At(n, q)' <=> At(n, q) \/ (n = end /\ q = r)
                          /\ \A n, q : At(n, q) => n < end
<1> USE DEF Base
<1>1. rt = "tick" /\ UNCHANGED <<queue, hand, retries, before, outbox>>
  BY PlanSteps
<1>2. PICK last \in Nat : last = Len(wal) + 1
  BY Places
<1>3. /\ Len(wal') = last /\ wal'[last] = r /\ \A j \in DOMAIN wal : wal'[j] = wal[j] /\ j < last
  BY <1>2, Appended DEF WorkInv, Typed, TypeOK, DurableOK
<1>4. \A i : i \in Ahead' <=> i \in Ahead \/ i = last
  <2>1. before \in Nat /\ before <= Len(wal) /\ Len(wal) \in Nat
    BY Places DEF WorkInv, NothingUnsent, Typed, TypeOK, RuntimeOK
  <2> QED
    BY <1>1, <1>2, <1>3, <2>1 DEF Ahead, Planned
<1>5. \A n, q : At(n, q)' <=> At(n, q) \/ (n = Capacity + last /\ q = r)
  BY <1>1, <1>3, <1>4, Places DEF At, Held, Retrying
<1>6. \A n, q : At(n, q) => n < Capacity + last
  <2>1. \A n, q : At(n, q) => n = 0 \/ n \in 1..Len(queue) \/ \E i \in DOMAIN wal : n = Capacity + i
    BY Places
  <2> QED
    BY <1>2, <1>3, <2>1, Places
<1>7. Capacity + last \in Nat /\ Capacity + last # 0
  BY <1>2, Places
<1> QED
  BY <1>5, <1>6, <1>7

\* The replay: what the log shows as unacknowledged, in its order.
LEMMA ReplayAdds ==
  ASSUME ~ LogFaults, Base, WorkInv', RtReplay
  PROVE  /\ \A r : ~ (\E n : At(n, r)) /\ ~ (r \in InFlight)
         /\ \A n, r : At(n, r)' <=> \E i \in UnackedAt(wal) : n = Capacity + i /\ wal[i] = r
<1> USE DEF Base
<1>1. queue = <<>> /\ hand = <<>> /\ retries = <<>> /\ outbox = {} /\ rt = "replay"
  BY ReplaySteps DEF ScanInv, Idle
<1>2. \A n, r : ~ At(n, r)
  BY <1>1 DEF At, Held, Retrying, Ahead, Planned
<1>3. Ahead' = UnackedAt(wal)
  BY ReplaySteps DEF Ahead, Planned
<1>4. \A n, r : At(n, r)' <=> \E i \in UnackedAt(wal) : n = Capacity + i /\ wal[i] = r
  BY <1>1, <1>3, ReplaySteps DEF At, Held, Retrying
<1> QED
  BY <1>2, <1>4, Places

-----------------------------------------------------------------------------
(* The inductive invariant: what is under way, the log and the sink.        *)

\* The version a file has now is not overtaken by a delete; once it is
\* acknowledged the sink holds it and no delete of the document is to come.
CurrentOf(fp) ==
  /\ ~ Behind(WorkItemV2(fp), DeleteDocument(fp.path))
  /\ InLog(SinkAckV2(fp)) /\ fp.path \notin overtaken =>
       sink[fp.path] = fp.stamp /\ DeleteDocument(fp.path) \notin InFlight

Current == \A fp \in Fingerprints : fp.stamp = files[fp.path] /\ fp.stamp # Gone => CurrentOf(fp)

\* Each version is under way once, until it is acknowledged.
Once == \A r : r \in InFlight /\ r.type = "work_item_v2" => ~ Acked(wal, r) /\ ~ Behind(r, r)

LastIsAck(p) == \E i \in DOMAIN wal : wal[i] = DeleteAck(p) /\ NoLater(wal, i, p, FileTypes \cup DeleteTypes)
AllAcked(p)  == \A i \in DOMAIN wal : WorkOf(wal[i], p) => Acked(wal, wal[i])

\* What the log says of the sink when nothing is under way: a document whose
\* delete was acknowledged last is not there, if no work on it is left.
Durable(p) == /\ LastIsAck(p) /\ AllAcked(p) => sink[p] = Gone
              /\ sink[p] # Gone => \E i \in DOMAIN wal : WorkOf(wal[i], p)

\* The program takes p to be deleted: the planner has planned it, or the tailer
\* does not know the path, and nothing else is about to be planned.
Away(p) == /\ rt # "off" /\ exit = "none" /\ p \notin unwatched
           /\ \/ p \in planned_deletes /\ \A ev \in events : ev.path = p => ev.stamp = Gone
              \/ p \notin DOMAIN last_seen_version /\ Fingerprint(p, Gone) \notin events

\* A delete of p comes after whatever else is under way for it, or the document
\* is gone.
Covered(p) ==
  /\ \A r : r \in InFlight /\ WorkOf(r, p) => Behind(r, DeleteDocument(p))
  /\ sink[p] = Gone \/ DeleteDocument(p) \in InFlight \cup Unacked(wal) \cup Journaled

SyncInv == /\ Base /\ Current /\ Once
           /\ \A p \in Paths : Durable(p) /\ (Away(p) => Covered(p))

-----------------------------------------------------------------------------
(* The steps, by what they do to what is under way.                         *)

\* A step that leaves it, the log and the journal alone.
QuietStep ==
  /\ KeepsFlight /\ UNCHANGED <<wal, failed>>
  /\ Start \/ RtPoll \/ (RtPlan /\ rt' = "tick") \/ (RtCollect /\ rt' = "send") \/ Elsewhere

TickEnds == (RtPlan /\ PlanFails) \/ (RtCollect /\ rt' = "loop")

PlanStep == RtPlan /\ \E ev \in events : events' = events \ {ev} /\ PlanAppends(ev)

HandStep == WkAck \/ (WkFail /\ failed' # failed)

LEMMA SyncSteps ==
  ASSUME ~ LogFaults, Base, WorkInv', [Next]_vars
  PROVE  QuietStep \/ TickEnds \/ PlanStep \/ HandStep \/ Down \/ RtReplay
<1>1. CASE Start
  BY <1>1, StartKeeps DEF Base, Start, QuietStep
<1>2. CASE RtPoll
  BY <1>2, PollKeeps, PollSteps DEF Base, QuietStep
<1>3. CASE RtPlan
  <2>1. PICK ev \in events : events' = events \ {ev} /\ (PlanFails \/ PlanSkips(ev) \/ PlanAppends(ev))
    BY <1>3, PlanSteps
  <2>2. CASE PlanSkips(ev)
    BY <1>3, <2>2, SkipKeeps, PlanSteps DEF Base, PlanSkips, QuietStep
  <2> QED
    BY <1>3, <2>1, <2>2 DEF TickEnds, PlanStep
<1>4. CASE RtCollect
  BY <1>4, CollectKeeps, CollectSteps DEF Base, QuietStep, TickEnds
<1>5. CASE Elsewhere
  <2>1. failed' = failed \/ WkFail
    BY <1>5 DEF Elsewhere, Next, vars, WriteFile, RemoveFile, Change, Start, Crash, Terminate, Down, RequestShutdown,
       RtNext, RtReplay, RtSend, RtSent, RtStop, RtPoll, RtPlan, RtCollect,
       WkNext, WkTake, WkEnd, WkLoad, WkUpsert, WkDelete, WkLock, WkAck
  <2>2. CASE failed' = failed /\ ~ WkAck
    BY <1>5, <2>2, ElsewhereKeeps DEF QuietStep
  <2> QED
    BY <2>1, <2>2 DEF HandStep
<1> QED
  BY <1>1, <1>2, <1>3, <1>4, <1>5, RuntimeSteps

\* Only the worker writes to the sink.
LEMMA SinkSteps ==
  ASSUME [Next]_vars
  PROVE  \/ sink' = sink
         \/ WkUpsert /\ sink' = [sink EXCEPT ![InHand.key.path] = text] /\ files' = files
         \/ WkDelete /\ sink' = [sink EXCEPT ![InHand.key] = Gone] /\ files' = files
<1>1. CASE WkUpsert \/ WkDelete
  BY <1>1 DEF WkUpsert, WkDelete, SinkRequest, StepFault, WkGoto
<1>2. CASE UNCHANGED vars
  BY <1>2 DEF vars
<1>3. CASE WkNext /\ ~ WkUpsert /\ ~ WkDelete
  BY <1>3 DEF WkNext, WkTake, WkEnd, WkLoad, WkLock, WkAck, WkFail
<1>4. CASE RtNext
  BY <1>4 DEF RtNext, RtReplay, RtSend, RtSent, RtStop, RtPoll, RtPlan, RtCollect
<1>5. CASE Start \/ Crash \/ Terminate \/ RequestShutdown \/ \E p \in Paths : WriteFile(p) \/ RemoveFile(p)
  BY <1>5 DEF Start, Crash, Terminate, Down, RequestShutdown, WriteFile, RemoveFile, Change
<1> QED
  BY <1>1, <1>2, <1>3, <1>4, <1>5 DEF Next

LEMMA OwnerSteps ==
  ASSUME [Next]_vars
  PROVE  \/ files' = files
         \/ /\ \E p \in Paths : WriteFile(p) \/ RemoveFile(p)
            /\ UNCHANGED <<durable, runtime, queue, worker, control>>
<1>1. CASE \E p \in Paths : WriteFile(p) \/ RemoveFile(p)
  BY <1>1 DEF WriteFile, RemoveFile, Change
<1>2. CASE UNCHANGED vars
  BY <1>2 DEF vars
<1>3. CASE WkNext
  BY <1>3 DEF WkNext, WkTake, Take, WkEnd, WkLoad, StepFault, WkUpsert, WkDelete, SinkRequest, WkLock, WkAck, WkFail, WkGoto
<1>4. CASE RtNext
  BY <1>4 DEF RtNext, RtReplay, RtSend, RtSent, RtStop, RtPoll, RtPlan, RtCollect
<1>5. CASE Start \/ Crash \/ Terminate \/ RequestShutdown
  BY <1>5 DEF Start, Crash, Terminate, Down, RequestShutdown
<1> QED
  BY <1>1, <1>2, <1>3, <1>4, <1>5 DEF Next

\* What is under way is in the log; the record the worker holds is under way.
LEMMA Logged ==
  ASSUME Base, WorkInv'
  PROVE  /\ \A r \in InFlight : InLog(r)
         /\ wk \notin {"off", "recv", "done"} => InHand \in InFlight /\ At(0, InHand)
<1> USE DEF Base
<1>1. \A r \in InFlight : InLog(r)
  BY Places, InFlightParts DEF PlanInv, FromLog, InLog, Sending, Queued, Held, Retrying, Ahead
<1>2. wk \notin {"off", "recv", "done"} => Held(InHand)
  BY WorkerHolds DEF WorkInv, Typed, TypeOK, Held, InHand
<1> QED
  BY <1>1, <1>2, InFlightParts DEF At

-----------------------------------------------------------------------------
(* Each version is under way once.                                          *)

LEMMA DownEmpties == ASSUME Down PROVE \A r : r \notin InFlight'
<1>1. \A r : ~ Sending(r)' /\ ~ Queued(r)' /\ ~ Held(r)' /\ ~ Retrying(r)'
  BY DEF Down, Sending, Queued, Held, Retrying, Planned
<1> QED
  BY <1>1, InFlightParts

LEMMA OnceKept == ASSUME ~ LogFaults, SyncInv, Base', [Next]_vars PROVE Once'
<1> USE DEF SyncInv, Base
<1> SUFFICES ASSUME NEW r, r \in InFlight', r.type = "work_item_v2"
             PROVE  ~ Acked(wal', r) /\ ~ Behind(r, r)'
  BY DEF Once
<1>0. IsTask(r) /\ AckOf(r) = SinkAckV2(r.key)
  BY DEF IsTask, WorkTypes, AckOf
<1>1. CASE QuietStep
  <2>1. r \in InFlight /\ wal' = wal /\ (Behind(r, r)' <=> Behind(r, r))
    BY <1>0, <1>1 DEF QuietStep, KeepsFlight
  <2> QED
    BY <2>1 DEF Once
<1>2. CASE TickEnds
  <2>1. \A n, q : At(n, q)' => At(n, q)
    BY <1>2, TickLeaves DEF TickEnds
  <2>2. wal' = wal
    BY <1>2, CollectSteps DEF TickEnds, PlanFails
  <2>3. r \in InFlight /\ (Behind(r, r)' => Behind(r, r))
    BY <2>1, Places DEF Behind
  <2> QED
    BY <2>2, <2>3 DEF Once
<1>3. CASE PlanStep
  <2>1. PICK ev \in events : PlanAppends(ev) /\ RtPlan
    BY <1>3 DEF PlanStep
  <2>2. PICK new : new = PlanOf(ev)
    OBVIOUS
  <2>3. wal' = Append(wal, new) /\ rt' = "tick" /\ new.type \in {"work_item_v2", "delete_document"}
    BY <2>1, <2>2 DEF PlanAppends, PlanOf, WorkItemV2, DeleteDocument
  <2>4. PICK end \in Nat : /\ end # 0
                           /\ \A n, q : At(n, q)' <=> At(n, q) \/ (n = end /\ q = new)
                           /\ \A n, q : At(n, q) => n < end
    BY <2>1, <2>3, PlanAdds
  <2>5. Acked(wal', r) => Acked(wal, r)
    <3>1. AckOf(r) # new
      BY <1>0, <2>3 DEF SinkAckV2
    <3> QED
      BY <2>3, <3>1, Appended DEF Acked
  <2>6. CASE r = new
    <3>1. ev.stamp # Gone /\ new = WorkItemV2(ev) /\ ev \notin planned_versions /\ r.key = ev
      BY <2>1, <2>2, <2>6 DEF PlanOf, PlanAppends, IsKnown, DeleteDocument, WorkItemV2
    <3>2. ~ InLog(new)
      <4>1. ev \in Fingerprints /\ Planning
        BY <2>1, PlanSteps DEF WorkInv, Typed, TypeOK, RuntimeOK, Planning
      <4> QED
        BY <3>1, <4>1 DEF PlanInv, Remembered
    <3>3. ~ Acked(wal, r)
      BY <1>0, <3>1, <3>2 DEF Acked, PlanInv, AcksHaveWork, SinkAckV2
    <3>4. \A n : At(n, r)' => n = end
      <4>1. r \notin InFlight
        BY <2>6, <3>2, Logged
      <4> QED
        BY <2>4, <4>1, Places
    <3>5. ~ Behind(r, r)'
      BY <3>4 DEF Behind
    <3> QED
      BY <2>5, <3>3, <3>5
  <2>7. CASE r # new
    <3>1. \A n : At(n, r)' <=> At(n, r)
      BY <2>4, <2>7
    <3>2. r \in InFlight /\ (Behind(r, r)' <=> Behind(r, r))
      BY <3>1, Places DEF Behind
    <3> QED
      BY <2>5, <3>2 DEF Once
  <2> QED
    BY <2>6, <2>7
<1>4. CASE HandStep
  <2>1. /\ \A n, q : IsTask(q) => (At(n, q)' <=> At(n, q) /\ n # 0)
        /\ \A q : At(0, q) <=> q = InHand
        /\ InHand \in WalRecords /\ IsTask(InHand)
    BY <1>4, HandLeaves DEF HandStep
  <2>2. PICK n \in Nat : At(n, r) /\ n # 0
    BY <1>0, <2>1, Places
  <2>3. r \in InFlight /\ (Behind(r, r)' => Behind(r, r))
    <3>1. \A m : At(m, r)' => At(m, r)
      BY <1>0, <2>1
    <3> QED
      BY <2>2, <3>1, Places DEF Behind
  <2>4. Acked(wal', r) => Acked(wal, r) \/ r = InHand
    <3>1. CASE wal' = wal
      BY <3>1
    <3>2. CASE WkAck
      <4>1. wal' = Append(wal, AckOf(InHand))
        BY <3>2, AckSteps
      <4>2. Acked(wal', r) => Acked(wal, r) \/ AckOf(r) = AckOf(InHand)
        BY <4>1, Appended DEF Acked
      <4>3. r \in WalRecords
        BY <2>3, Logged, Elements DEF InLog, WorkInv, Typed, TypeOK, DurableOK
      <4>4. AckOf(r) = AckOf(InHand) => InHand.type = "work_item_v2" /\ InHand.key = r.key
        BY <1>0, <2>1 DEF AckOf, IsTask, WorkTypes, SinkAck, SinkAckV2, DeleteAck
      <4> QED
        BY <2>1, <4>2, <4>3, <4>4, Rebuilt
    <3> QED
      BY <1>4, <3>1, <3>2 DEF HandStep, WkFail
  <2>5. r # InHand
    <3>1. r = InHand => Behind(r, r)
      BY <2>1, <2>2 DEF Behind
    <3> QED
      BY <2>3, <3>1 DEF Once
  <2> QED
    BY <2>3, <2>4, <2>5 DEF Once
<1>5. CASE Down
  BY <1>5, DownEmpties
<1>6. CASE RtReplay
  <2>1. \A n, q : At(n, q)' <=> \E i \in UnackedAt(wal) : n = Capacity + i /\ wal[i] = q
    BY <1>6, ReplayAdds
  <2>2. PICK i \in UnackedAt(wal) : wal[i] = r
    BY <2>1, Places
  <2>3. wal' = wal /\ ~ Acked(wal, r)
    BY <1>6, <2>2, ReplaySteps DEF UnackedAt, PendingDelete
  <2>4. ~ Behind(r, r)'
    <3> SUFFICES ASSUME NEW j \in DOMAIN wal, NEW k \in DOMAIN wal, wal[j] = r, wal[k] = r,
                        Capacity + j < Capacity + k
                 PROVE  FALSE
      BY <2>1, UnackedInLog DEF Behind
    <3>1. j < k
      BY Places
    <3> QED
      BY <3>1 DEF PlanInv, PlannedOnce
  <2> QED
    BY <2>3, <2>4
<1> QED
  BY <1>1, <1>2, <1>3, <1>4, <1>5, <1>6, SyncSteps

-----------------------------------------------------------------------------
(* The version a file has now.                                              *)

\* The stamp a version has is one the file has or had, and what the sink holds
\* is no newer.
LEMMA NotNewer ==
  ASSUME Base
  PROVE  /\ files \in [Paths -> Stamps] /\ sink \in [Paths -> Stamps] /\ changes \in Nat /\ Stamps \subseteq Nat
         /\ \A i \in DOMAIN wal : wal[i].type \in FileTypes => wal[i].key.stamp <= changes
         /\ \A p \in Paths : files[p] # Gone => sink[p] <= files[p]
         /\ wk = "upsert" => /\ InHand.type = "work_item_v2" /\ InHand.key \in Fingerprints
                             /\ text \in Stamps /\ text # Gone /\ sink[InHand.key.path] <= text
                             /\ files[InHand.key.path] # Gone => text <= files[InHand.key.path]
<1>1. InOrder /\ Typed
  BY DEF Base, PlanInv, IInv
<1> QED
  BY <1>1, WorkerHolds DEF InOrder, FilesInOrder, RecordsInOrder, RecordInOrder, UpsertInOrder, Past,
     Typed, TypeOK, FilesOK, DurableOK, WorkerOK, Stamps, Gone

LEMMA CurrentKept ==
  ASSUME FreshStamps, ~ LogFaults, SyncInv, Base', [Next]_vars
  PROVE  Current'
<1> USE DEF SyncInv, Base
<1> SUFFICES ASSUME NEW fp \in Fingerprints, fp.stamp = files'[fp.path], fp.stamp # Gone
             PROVE  CurrentOf(fp)'
  BY DEF Current
<1>1. PICK p \in Paths, s \in Stamps : fp.path = p /\ fp.stamp = s /\ fp = Fingerprint(p, s)
  BY DEF Fingerprints, Fingerprint
<1>2. PICK w, d, a : w = WorkItemV2(fp) /\ d = DeleteDocument(p) /\ a = SinkAckV2(fp)
  OBVIOUS
<1>3. /\ w.type = "work_item_v2" /\ w.key = fp /\ d.type = "delete_document" /\ d.key = p
      /\ a.type = "sink_ack_v2" /\ a.key = fp /\ IsTask(w) /\ IsTask(d) /\ AckOf(w) = a
  BY <1>2 DEF WorkItemV2, DeleteDocument, SinkAckV2, IsTask, WorkTypes, AckOf
<1>4. SUFFICES /\ ~ Behind(w, d)'
               /\ InLog(a)' /\ p \notin overtaken' => sink'[p] = s /\ d \notin InFlight'
  BY <1>1, <1>2 DEF CurrentOf
<1>5. InLog(a) => InLog(w)
  BY <1>2, <1>3 DEF PlanInv, AcksHaveWork, InLog
<1>6. CASE files'[p] # files[p]
  <2>1. PICK q \in Paths : WriteFile(q) \/ RemoveFile(q)
    BY <1>6, OwnerSteps
  <2>2. UNCHANGED <<wal, queue, hand, retries, rt, before, outbox>>
    BY <1>6, OwnerSteps
  <2>3. s = changes + 1
    BY <1>1, <1>6, <2>1, NotNewer DEF WriteFile, RemoveFile, Change, Gone
  <2>4. ~ InLog(w) /\ ~ InLog(a)
    BY <1>1, <1>3, <2>3, NotNewer DEF InLog, FileTypes
  <2>5. KeepsFlight
    BY <2>2, SameAhead DEF Ahead, Planned
  <2>6. ~ Behind(w, d)
    BY <2>4, Logged, Places DEF Behind
  <2>7. ~ Behind(w, d)'
    BY <1>3, <2>5, <2>6 DEF KeepsFlight
  <2> QED
    BY <2>2, <2>4, <2>7 DEF InLog
<1>7. CASE files'[p] = files[p]
  <2>1. /\ ~ Behind(w, d)
        /\ InLog(a) /\ p \notin overtaken => sink[p] = s /\ d \notin InFlight
    BY <1>1, <1>2, <1>7 DEF Current, CurrentOf
  <2>2. files[p] = s /\ p \in Present /\ Event(p) = fp
    BY <1>1, <1>7 DEF Present, Event
  <2>3. sink[p] = s /\ d \notin InFlight => sink'[p] = s
    <3> SUFFICES ASSUME sink[p] = s, d \notin InFlight PROVE sink'[p] = s
      OBVIOUS
    <3>1. CASE WkUpsert /\ sink' = [sink EXCEPT ![InHand.key.path] = text]
      <4>1. wk = "upsert"
        BY <3>1 DEF WkUpsert, WkAt
      <4>2. InHand.key.path = p => text = s
        <5> SUFFICES ASSUME InHand.key.path = p PROVE text = s
          OBVIOUS
        <5>1. text \in Nat /\ s \in Nat /\ sink[p] <= text
          BY <4>1, NotNewer
        <5>2. files[p] # Gone
          BY <1>1, <2>2
        <5>3. text <= s
          BY <2>2, <4>1, <5>2, NotNewer
        <5> QED
          BY <5>1, <5>3
      <4> QED
        BY <3>1, <4>2, NotNewer
    <3>2. CASE WkDelete /\ sink' = [sink EXCEPT ![InHand.key] = Gone]
      <4>1. wk = "delete" /\ InHand \in InFlight
        BY <3>2, Logged DEF WkDelete, WkAt
      <4>2. InHand = DeleteDocument(InHand.key)
        BY <4>1, WorkerHolds, Rebuilt DEF WorkInv, Typed, TypeOK, WorkerOK
      <4>3. InHand.key # p
        BY <1>2, <4>1, <4>2
      <4> QED
        BY <3>2, <4>3, NotNewer
    <3> QED
      BY <3>1, <3>2, SinkSteps
  <2>4. InLog(a) /\ p \notin overtaken' => p \notin overtaken
    <3>1. CASE RtPoll
      <4>1. InLog(a) => fp \in WalVersions(wal)
        BY <1>3 DEF InLog, WalVersions, FileTypes
      <4> QED
        BY <2>2, <3>1, <4>1, PollSteps
    <3>2. CASE Start \/ Down
      BY <3>2 DEF Start, Down
    <3> QED
      BY <3>1, <3>2, RuntimeSteps, ReplaySteps, PlanSteps, CollectSteps DEF Elsewhere
  <2>5. InLog(a) /\ p \notin overtaken' => sink'[p] = s /\ d \notin InFlight
    BY <2>1, <2>3, <2>4
  <2>6. CASE QuietStep
    <3>1. wal' = wal /\ (d \in InFlight' <=> d \in InFlight) /\ (Behind(w, d)' <=> Behind(w, d))
      BY <1>3, <2>6 DEF QuietStep, KeepsFlight
    <3> QED
      BY <2>1, <2>5, <3>1 DEF InLog
  <2>7. CASE TickEnds
    <3>1. (\A n, q : At(n, q)' => At(n, q)) /\ wal' = wal
      BY <2>7, TickLeaves, CollectSteps DEF TickEnds, PlanFails
    <3>2. (d \in InFlight' => d \in InFlight) /\ (Behind(w, d)' => Behind(w, d))
      BY <3>1, Places DEF Behind
    <3> QED
      BY <2>1, <2>5, <3>1, <3>2 DEF InLog
  <2>8. CASE PlanStep
    <3>1. PICK ev \in events : PlanAppends(ev) /\ RtPlan
      BY <2>8 DEF PlanStep
    <3>2. PICK new : new = PlanOf(ev)
      OBVIOUS
    <3>3. wal' = Append(wal, new) /\ rt' = "tick" /\ new.type \in {"work_item_v2", "delete_document"}
      BY <3>1, <3>2 DEF PlanAppends, PlanOf, WorkItemV2, DeleteDocument
    <3>4. PICK end \in Nat : /\ end # 0
                             /\ \A n, q : At(n, q)' <=> At(n, q) \/ (n = end /\ q = new)
                             /\ \A n, q : At(n, q) => n < end
      BY <3>1, <3>3, PlanAdds
    <3>5. InLog(a)' => InLog(a)
      BY <1>3, <3>3, Appended DEF InLog
    <3>6. CASE new # d
      <4>1. \A n : At(n, d)' <=> At(n, d)
        BY <3>4, <3>6
      <4>2. Behind(w, d)' => Behind(w, d)
        <5>1. ASSUME NEW m \in Nat, NEW n \in Nat, m < n, At(m, w)', At(n, d)'
              PROVE  At(m, w) /\ At(n, d)
          <6>1. At(n, d) /\ n < end
            BY <3>4, <4>1, <5>1
          <6> QED
            BY <3>4, <5>1, <6>1
        <5> QED
          BY <5>1 DEF Behind
      <4>3. d \in InFlight' => d \in InFlight
        BY <4>1, Places
      <4> QED
        BY <2>1, <2>5, <3>5, <4>2, <4>3
    <3>7. CASE new = d
      <4>1. ev.stamp = Gone /\ ev.path = p
        BY <1>3, <3>2, <3>7 DEF PlanOf, WorkItemV2, DeleteDocument
      <4>2. Fingerprint(p, Gone) \in events
        BY <4>1 DEF WorkInv, Typed, TypeOK, RuntimeOK, Fingerprints, Fingerprint
      <4>3. ~ InLog(w)
        BY <1>1, <1>3, <2>2, <4>2 DEF PlanInv, GoneForGood, InLog
      <4>4. \A n : ~ At(n, w)'
        <5>1. w # new /\ w \notin InFlight
          BY <1>3, <3>7, <4>3, Logged
        <5> QED
          BY <3>4, <5>1, Places
      <4> QED
        BY <1>5, <3>5, <4>3, <4>4 DEF Behind
    <3> QED
      BY <3>6, <3>7
  <2>9. CASE HandStep
    <3>1. /\ \A n, q : IsTask(q) => (At(n, q)' <=> At(n, q) /\ n # 0)
          /\ \A q : At(0, q) <=> q = InHand
          /\ InHand \in WalRecords /\ IsTask(InHand)
      BY <2>9, HandLeaves DEF HandStep
    <3>2. (d \in InFlight' => d \in InFlight) /\ (Behind(w, d)' => Behind(w, d))
      BY <1>3, <3>1, Places DEF Behind
    <3>3. InLog(a)' => InLog(a) \/ (WkAck /\ a = AckOf(InHand))
      BY <2>9, AckSteps, Appended DEF HandStep, WkFail, InLog
    <3>4. CASE WkAck /\ a = AckOf(InHand)
      <4>1. InHand.type = "work_item_v2" /\ InHand.key = fp /\ InHand = w
        <5>1. InHand.type = "work_item_v2" /\ InHand.key = fp
          BY <1>3, <3>1, <3>4 DEF AckOf, IsTask, WorkTypes, SinkAck, SinkAckV2, DeleteAck
        <5> QED
          BY <1>2, <3>1, <5>1, Rebuilt
      <4>2. s <= sink[p]
        BY <1>1, <3>4, <4>1, AckSteps DEF PlanInv, IInv, InOrder, AckInOrder
      <4>3. sink[p] = s /\ sink' = sink
        BY <1>1, <2>2, <3>4, <4>2, NotNewer, AckSteps
      <4>4. d \notin InFlight'
        <5> SUFFICES ASSUME NEW n \in Nat, At(n, d), n # 0 PROVE FALSE
          BY <1>3, <3>1, Places
        <5>1. At(0, w) /\ 0 < n
          BY <3>1, <4>1
        <5> QED
          BY <2>1, <5>1 DEF Behind
      <4> QED
        BY <2>1, <3>2, <4>3, <4>4
    <3> QED
      BY <2>1, <2>5, <3>2, <3>3, <3>4
  <2>10. CASE Down
    <3>1. ~ Behind(w, d)'
      BY <2>10, DownEmpties, Places DEF Behind
    <3>2. wal' = wal
      BY <2>10 DEF Down
    <3> QED
      BY <2>5, <2>10, <3>1, <3>2, DownEmpties DEF InLog
  <2>11. CASE RtReplay
    <3>1. /\ \A n, q : At(n, q)' <=> \E i \in UnackedAt(wal) : n = Capacity + i /\ wal[i] = q
          /\ wal' = wal /\ rt = "replay"
      BY <2>11, ReplayAdds, ReplaySteps
    <3>2. ASSUME NEW i \in DOMAIN wal, NEW j \in DOMAIN wal, wal[i] = w, wal[j] = d
          PROVE  j < i
      <4>1. ~ (j > i)
        BY <1>1, <1>2, <1>3, <2>2, <3>2 DEF PlanInv, GoneForGood
      <4> QED
        BY <1>3, <3>2, <4>1, Places
    <3>3. ~ Behind(w, d)'
      <4> SUFFICES ASSUME NEW i \in DOMAIN wal, NEW j \in DOMAIN wal, wal[i] = w, wal[j] = d,
                          Capacity + i < Capacity + j
                   PROVE  FALSE
        BY <3>1, UnackedInLog DEF Behind
      <4>1. i < j /\ j < i /\ i \in Nat /\ j \in Nat
        BY <3>2, Places
      <4> QED
        BY <4>1
    <3>4. InLog(a) /\ d \in InFlight' => p \in overtaken
      <4> SUFFICES ASSUME InLog(a), d \in InFlight' PROVE p \in overtaken
        OBVIOUS
      <4>1. PICK j \in UnackedAt(wal) : wal[j] = d
        BY <3>1, Places
      <4>2. PICK i \in DOMAIN wal : wal[i] = w
        BY <1>5 DEF InLog
      <4>3. j < i /\ j \in DOMAIN wal
        BY <3>2, <4>1, <4>2, UnackedInLog
      <4>4. i > j /\ IsAbout(wal[i], p) /\ Acked(wal, wal[i])
        BY <1>1, <1>3, <4>2, <4>3, Places DEF IsAbout, FileTypes, Acked, InLog
      <4>5. Overtaken(p)
        BY <1>2, <1>3, <4>1, <4>2, <4>4 DEF Overtaken
      <4> QED
        BY <3>1, <4>5 DEF ScanInv, AtReplay
    <3> QED
      BY <2>4, <2>5, <3>1, <3>3, <3>4 DEF InLog
  <2> QED
    BY <2>6, <2>7, <2>8, <2>9, <2>10, <2>11, SyncSteps
<1> QED
  BY <1>6, <1>7

-----------------------------------------------------------------------------
(* What the log says of the sink.                                           *)

\* The steps that write the log leave the sink alone.
LEMMA LogSteps ==
  ASSUME ~ LogFaults, Base, WorkInv', [Next]_vars
  PROVE  \/ wal' = wal
         \/ /\ sink' = sink
            /\ \E new : /\ wal' = Append(wal, new)
                        /\ \/ new.type \in {"work_item_v2", "delete_document"}
                           \/ WkAck /\ new = AckOf(InHand)
<1>1. CASE PlanStep
  <2>1. PICK ev \in events : PlanAppends(ev) /\ RtPlan
    BY <1>1 DEF PlanStep
  <2>2. PICK new : new = PlanOf(ev)
    OBVIOUS
  <2>3. wal' = Append(wal, new) /\ new.type \in {"work_item_v2", "delete_document"}
    BY <2>1, <2>2 DEF PlanAppends, PlanOf, WorkItemV2, DeleteDocument
  <2> QED
    BY <2>1, <2>3, PlanSteps
<1>2. CASE HandStep
  <2>1. CASE WkAck
    <3>1. PICK new : new = AckOf(InHand)
      OBVIOUS
    <3> QED
      BY <2>1, <3>1, AckSteps
  <2>2. CASE ~ WkAck
    BY <1>2, <2>2 DEF HandStep, WkFail
  <2> QED
    BY <2>1, <2>2
<1>3. CASE TickEnds
  BY <1>3, CollectSteps DEF TickEnds, PlanFails
<1> QED
  BY <1>1, <1>2, <1>3, SyncSteps, ReplaySteps DEF QuietStep, Down

LEMMA DurableKept ==
  ASSUME ~ LogFaults, SyncInv, Base', [Next]_vars, NEW p \in Paths
  PROVE  Durable(p)'
<1> USE DEF SyncInv, Base
<1>1. sink \in [Paths -> Stamps]
  BY NotNewer
<1>2. WkUpsert => InHand \in InFlight /\ InLog(InHand) /\ InHand.type = "work_item_v2"
  BY Logged, NotNewer DEF WkUpsert, WkAt
<1>3. CASE wal' = wal
  <2>1. LastIsAck(p)' /\ AllAcked(p)' => sink'[p] = Gone
    <3> SUFFICES ASSUME LastIsAck(p), AllAcked(p) PROVE sink'[p] = Gone
      BY <1>3 DEF LastIsAck, AllAcked
    <3>1. sink[p] = Gone
      BY DEF Durable
    <3>2. WkUpsert => InHand.key.path # p
      BY <1>2 DEF Once, AllAcked, InLog, WorkOf
    <3> QED
      BY <1>1, <3>1, <3>2, SinkSteps
  <2>2. sink'[p] # Gone => \E i \in DOMAIN wal' : WorkOf(wal'[i], p)
    <3>1. sink[p] # Gone => \E i \in DOMAIN wal : WorkOf(wal[i], p)
      BY DEF Durable
    <3>2. WkUpsert /\ InHand.key.path = p => \E i \in DOMAIN wal : WorkOf(wal[i], p)
      BY <1>2 DEF InLog, WorkOf
    <3>3. sink'[p] # Gone => sink[p] # Gone \/ (WkUpsert /\ InHand.key.path = p)
      BY <1>1, SinkSteps
    <3> QED
      BY <1>3, <3>1, <3>2, <3>3
  <2> QED
    BY <2>1, <2>2 DEF Durable
<1>4. CASE wal' # wal
  <2>1. PICK new : /\ wal' = Append(wal, new) /\ sink' = sink
                   /\ \/ new.type \in {"work_item_v2", "delete_document"}
                      \/ WkAck /\ new = AckOf(InHand)
    BY <1>4, LogSteps
  <2>2. PICK last : last = Len(wal) + 1
    OBVIOUS
  <2>3. /\ last \in DOMAIN wal' /\ wal'[last] = new
        /\ \A i \in DOMAIN wal : i < last /\ i \in DOMAIN wal' /\ wal'[i] = wal[i]
        /\ \A i \in DOMAIN wal' : i = last \/ i \in DOMAIN wal
    BY <2>1, <2>2, Appended
  <2>4. LastIsAck(p)' /\ AllAcked(p)' => sink'[p] = Gone
    <3> SUFFICES ASSUME LastIsAck(p)', AllAcked(p)' PROVE sink[p] = Gone
      BY <2>1
    <3>1. PICK i \in DOMAIN wal' : /\ wal'[i] = DeleteAck(p)
                                   /\ NoLater(wal', i, p, FileTypes \cup DeleteTypes)
      BY DEF LastIsAck
    <3>2. CASE new = DeleteAck(p)
      <4>1. WkAck /\ AckOf(InHand) = DeleteAck(p) /\ InHand \in WalRecords /\ IsTask(InHand) /\ wk = "locked"
        BY <2>1, <3>2, AckSteps DEF DeleteAck
      <4>2. InHand.type = "delete_document" /\ InHand.key = p
        BY <4>1 DEF AckOf, IsTask, WorkTypes, SinkAck, SinkAckV2, DeleteAck
      <4> QED
        BY <4>1, <4>2 DEF PlanInv, IInv, InOrder, AckInOrder
    <3>3. CASE new # DeleteAck(p)
      <4>1. i \in DOMAIN wal /\ last > i /\ wal[i] = DeleteAck(p)
        BY <2>3, <3>1, <3>3
      <4>2. new.type \in FileTypes \cup DeleteTypes => ~ IsAbout(new, p)
        BY <2>3, <3>1, <4>1 DEF NoLater
      <4>3. LastIsAck(p)
        <5>1. NoLater(wal, i, p, FileTypes \cup DeleteTypes)
          BY <2>3, <3>1 DEF NoLater
        <5> QED
          BY <4>1, <5>1 DEF LastIsAck
      <4>4. ASSUME NEW j \in DOMAIN wal, WorkOf(wal[j], p)
            PROVE  Acked(wal, wal[j])
        <5>1. Acked(wal', wal[j])
          BY <2>3, <4>4 DEF AllAcked
        <5>2. AckOf(wal[j]) # new
          BY <4>2, <4>4 DEF WorkOf, AckOf, SinkAckV2, IsAbout, FileTypes
        <5> QED
          BY <2>3, <5>1, <5>2 DEF Acked
      <4> QED
        BY <4>3, <4>4 DEF AllAcked, Durable
    <3> QED
      BY <3>2, <3>3
  <2>5. sink'[p] # Gone => \E i \in DOMAIN wal' : WorkOf(wal'[i], p)
    <3>1. sink[p] # Gone => \E i \in DOMAIN wal : WorkOf(wal[i], p)
      BY DEF Durable
    <3> QED
      BY <2>1, <2>3, <3>1
  <2> QED
    BY <2>4, <2>5 DEF Durable
<1> QED
  BY <1>3, <1>4

-----------------------------------------------------------------------------
(* A document the program takes to be deleted.                              *)

\* A delete is pending until a record of a delete of the same document follows.
LEMMA DeleteStays ==
  ASSUME NEW log \in Seq(WalRecords), NEW r, NEW p \in Paths,
         r.type \in DeleteTypes => r.key # p,
         DeleteDocument(p) \in Unacked(log)
  PROVE  DeleteDocument(p) \in Unacked(Append(log, r))
<1>1. PICK longer : longer = Append(log, r)
  OBVIOUS
<1>2. PICK i \in UnackedAt(log) : log[i] = DeleteDocument(p)
  BY DEF Unacked
<1>3. i \in DOMAIN log /\ PendingDelete(log, i) /\ log[i].key = p
  BY <1>2 DEF UnackedAt, DeleteDocument, WorkTypes
<1>4. PendingDelete(longer, i)
  <2>1. /\ longer[i] = log[i] /\ \A j \in DOMAIN longer : j \in DOMAIN log \/ longer[j] = r
        /\ \A j \in DOMAIN log : longer[j] = log[j]
    BY <1>1, <1>3, Longer
  <2>2. r.type \in DeleteTypes => ~ IsAbout(r, p)
    BY DEF IsAbout, FileTypes, DeleteTypes
  <2> QED
    BY <1>3, <2>1, <2>2 DEF PendingDelete, NoLater
<1>5. i \in DOMAIN longer /\ longer[i] = log[i]
  BY <1>1, <1>3, Longer
<1> QED
  BY <1>1, <1>2, <1>4, <1>5 DEF Unacked, UnackedAt

\* A document without work under way or left in the log, and without a pending
\* delete, is not in the sink, if its last record is none of a version.
LEMMA GoneOrPending ==
  ASSUME wal \in Seq(WalRecords), NEW p \in Paths, Durable(p), AllAcked(p),
         p \notin known_live_document_paths(wal)
  PROVE  sink[p] = Gone \/ DeleteDocument(p) \in Unacked(wal)
<1> SUFFICES ASSUME sink[p] # Gone PROVE DeleteDocument(p) \in Unacked(wal)
  OBVIOUS
<1> DEFINE about == {i \in DOMAIN wal : wal[i].type \in FileTypes \cup DeleteTypes /\ IsAbout(wal[i], p)}
<1>1. PICK i \in DOMAIN wal : WorkOf(wal[i], p)
  BY DEF Durable
<1>2. i \in about
  BY <1>1 DEF WorkOf, FileTypes, IsAbout
<1>3. Len(wal) \in Nat /\ about \subseteq 1..Len(wal) /\ DOMAIN wal \subseteq Nat
  OBVIOUS
<1>4. PICK last \in about : \A j \in about : j <= last
  BY <1>2, <1>3, L!LastPosition
<1>5. NoLater(wal, last, p, FileTypes \cup DeleteTypes)
  <2>1. \A j \in DOMAIN wal : j > last => j \notin about
    BY <1>3, <1>4
  <2> QED
    BY <2>1 DEF NoLater
<1> HIDE DEF about
<1>6. /\ last \in DOMAIN wal /\ wal[last] \in WalRecords
      /\ wal[last].type \in FileTypes \cup DeleteTypes /\ IsAbout(wal[last], p)
  BY <1>4, Elements DEF about
<1>7. wal[last].type \notin FileTypes
  <2> SUFFICES ASSUME wal[last].type \in FileTypes PROVE FALSE
    OBVIOUS
  <2>1. wal[last].key.path = p
    BY <1>6 DEF IsAbout, FileTypes, DeleteTypes
  <2>2. NoLater(wal, last, p, DeleteTypes)
    BY <1>5 DEF NoLater
  <2> QED
    BY <1>6, <2>1, <2>2 DEF known_live_document_paths
<1>8. wal[last].key = p /\ wal[last].type \in DeleteTypes
  BY <1>6, <1>7 DEF IsAbout
<1>9. wal[last].type # "delete_ack"
  <2> SUFFICES ASSUME wal[last].type = "delete_ack" PROVE FALSE
    OBVIOUS
  <2>1. wal[last] = DeleteAck(p)
    BY <1>6, <1>8, RecordKeys DEF WalRecords, LegacyTypes, FileTypes, DeleteTypes, DeleteAck
  <2>2. LastIsAck(p)
    BY <1>5, <1>6, <2>1 DEF LastIsAck
  <2> QED
    BY <2>2 DEF Durable
<1>10. wal[last] = DeleteDocument(p) /\ wal[last].type = "delete_document"
  BY <1>6, <1>8, <1>9, Rebuilt DEF DeleteTypes
<1>11. PendingDelete(wal, last)
  BY <1>5, <1>8, <1>10 DEF PendingDelete, NoLater
<1> QED
  BY <1>6, <1>10, <1>11 DEF Unacked, UnackedAt

\* The worker's requests to the sink about a document that is covered.
LEMMA CoveredSink ==
  ASSUME SyncInv, Base', [Next]_vars, NEW p \in Paths, Covered(p), sink[p] = Gone, sink'[p] # Gone
  PROVE  DeleteDocument(p) \in InFlight
<1> USE DEF SyncInv, Base
<1>1. WkUpsert /\ InHand.key.path = p
  BY SinkSteps, NotNewer
<1>2. InHand \in InFlight /\ WorkOf(InHand, p)
  BY <1>1, Logged, NotNewer DEF WkUpsert, WkAt, WorkOf
<1>3. Behind(InHand, DeleteDocument(p))
  BY <1>2 DEF Covered
<1> QED
  BY <1>3, Places DEF Behind

LEMMA CoveredStays ==
  ASSUME SyncInv, Base', [Next]_vars, NEW p \in Paths, Covered(p), KeepsFlight, UNCHANGED <<wal, failed>>
  PROVE  Covered(p)'
<1> USE DEF SyncInv, Base
<1>1. PICK d : d = DeleteDocument(p)
  OBVIOUS
<1>2. IsTask(d) /\ \A r : WorkOf(r, p) => IsTask(r)
  BY <1>1 DEF IsTask, DeleteDocument, WorkOf, WorkTypes
<1>3. \A r : r \in InFlight' /\ WorkOf(r, p) => Behind(r, d)'
  BY <1>1, <1>2 DEF KeepsFlight, Covered
<1>4. d \in InFlight' <=> d \in InFlight
  BY <1>2 DEF KeepsFlight
<1>5. Journaled' = Journaled
  BY DEF Journaled
<1>6. sink'[p] = Gone \/ d \in InFlight' \cup Unacked(wal') \cup Journaled'
  BY <1>1, <1>4, <1>5, CoveredSink DEF Covered
<1> QED
  BY <1>1, <1>3, <1>6 DEF Covered

\* What a step of the planner does to Away.
LEMMA PlanAway ==
  ASSUME Base, NEW p \in Paths, NEW ev \in events, events' = events \ {ev}, PlanMarks(ev), rt # "off",
         UNCHANGED <<exit, unwatched, last_seen_version>>, Away(p)'
  PROVE  /\ ev.path = p => ev.stamp = Gone
         /\ ev.path # p \/ p \in planned_deletes => Away(p)
<1> USE DEF Base
<1>1. exit = "none" /\ p \notin unwatched
  BY DEF Away
<1>2. \/ p \in planned_deletes' /\ \A e \in events \ {ev} : e.path = p => e.stamp = Gone
      \/ p \notin DOMAIN last_seen_version /\ Fingerprint(p, Gone) \notin events \ {ev}
  BY DEF Away
<1>3. ev.path = p => ev.stamp = Gone
  <2> SUFFICES ASSUME ev.path = p, ev.stamp # Gone PROVE FALSE
    OBVIOUS
  <2>1. p \notin planned_deletes' /\ p \in DOMAIN last_seen_version
    BY DEF PlanMarks, ScanInv, EventsSeen
  <2> QED
    BY <1>2, <2>1
<1>4. CASE ev.path # p
  <2>1. p \in planned_deletes' <=> p \in planned_deletes
    BY <1>4 DEF PlanMarks
  <2>2. Fingerprint(p, Gone) # ev
    BY <1>4 DEF Fingerprint
  <2> QED
    BY <1>1, <1>2, <1>4, <2>1, <2>2 DEF Away
<1>5. CASE ev.path = p /\ p \in planned_deletes
  <2>1. \A e \in events : e.path = p => e.stamp = Gone
    BY <1>3, <1>5 DEF PlanInv, OneEventEach
  <2> QED
    BY <1>1, <1>5, <2>1 DEF Away
<1> QED
  BY <1>3, <1>4, <1>5

\* Nothing but a start makes a document be taken for deleted without an event.
LEMMA QuietAway ==
  ASSUME ~ LogFaults, SyncInv, [Next]_vars, QuietStep, ~ Start, NEW p \in Paths, Away(p)'
  PROVE  Away(p)
<1> USE DEF SyncInv, Base
<1>1. CASE RtPoll
  <2>1. events = {} /\ exit = "none" /\ rt # "off"
    BY <1>1, PollSteps DEF ScanInv, AllPlanned, Away
  <2>2. Gone = NoStamp
    BY DEF Gone, NoStamp
  <2>3. CASE p \in Present
    <3>1. p \in planned_deletes /\ (Event(p) \in events' => Event(p).stamp = Gone)
      BY <1>1, <2>3, PollSteps DEF Away, Event, Fingerprint
    <3>2. Event(p).stamp # Gone /\ files[p] # Gone
      BY <2>3 DEF Event, Fingerprint, Present
    <3>3. Noticed(p)
      BY <1>1, <2>3, <3>1, <3>2, PollSteps
    <3>4. p \in DOMAIN last_seen_version /\ last_seen_version[p] # NoStamp
      BY <2>2, <3>2, <3>3 DEF Noticed
    <3>5. p \notin unwatched
      BY <3>4 DEF ScanInv, UnwatchedUnseen
    <3> QED
      BY <2>1, <3>1, <3>5 DEF Away
  <2>4. CASE p \notin Present
    <3>1. p \notin unwatched
      BY <1>1, <2>4, PollSteps DEF Away
    <3>2. files[p] = Gone /\ Event(p) = Fingerprint(p, Gone)
      BY <2>4 DEF Event, Present
    <3>3. Fingerprint(p, Gone) \notin events' => p \notin DOMAIN last_seen_version
      BY <1>1, <2>4, <3>2, PollSteps
    <3> QED
      BY <1>1, <2>1, <3>1, <3>3, PollSteps DEF Away
  <2> QED
    BY <2>3, <2>4
<1>2. CASE RtPlan /\ rt' = "tick"
  <2>1. PICK ev \in events : events' = events \ {ev} /\ (PlanFails \/ PlanSkips(ev) \/ PlanAppends(ev))
    BY <1>2, PlanSteps
  <2>2. PlanSkips(ev)
    <3>1. wal' = wal /\ wal \in Seq(WalRecords)
      BY DEF QuietStep, WorkInv, Typed, TypeOK, DurableOK
    <3>2. Append(wal, PlanOf(ev)) # wal
      BY <3>1
    <3> QED
      BY <1>2, <2>1, <3>1, <3>2 DEF PlanFails, PlanAppends
  <2>3. ev.path = p => ev.stamp = Gone
    BY <1>2, <2>1, <2>2, PlanAway, PlanSteps DEF PlanSkips
  <2>4. ev.path # p \/ p \in planned_deletes
    BY <2>2, <2>3 DEF PlanSkips, IsKnown
  <2> QED
    BY <1>2, <2>1, <2>2, <2>4, PlanAway, PlanSteps DEF PlanSkips
<1>3. CASE RtCollect /\ rt' = "send"
  BY <1>3, CollectSteps DEF Away
<1>4. CASE Elsewhere
  BY <1>4 DEF Elsewhere, Away
<1> QED
  BY <1>1, <1>2, <1>3, <1>4 DEF QuietStep

LEMMA StartCovers ==
  ASSUME ~ LogFaults, SyncInv, Base', Start, NEW p \in Paths, Away(p)'
  PROVE  Covered(p)'
<1> USE DEF SyncInv, Base
<1>1. UNCHANGED <<sink, wal, failed>> /\ rt = "off"
      /\ DOMAIN last_seen_version' = known_live_document_paths(wal)
      /\ planned_deletes' = WalDeletes(wal)
      /\ unwatched' = {r.key.path : r \in {q \in Unacked(wal) : q.type = "work_item_v2"}}
                      \ (known_live_document_paths(wal) \ planned_deletes')
  BY DEF Start, LogFault
<1>2. wal \in Seq(WalRecords)
  BY DEF WorkInv, Typed, TypeOK, DurableOK
<1>3. ASSUME NEW r, IsTask(r)
      PROVE  r \notin InFlight'
  <2>1. ~ Sending(r) /\ ~ Queued(r) /\ ~ Held(r) /\ ~ Retrying(r)
    BY <1>1 DEF ScanInv, Idle, Sending, Queued, Held, Retrying, Planned
  <2> QED
    BY <1>3, <2>1, InFlightParts, StartKeeps DEF KeepsFlight
<1>4. \A r : r \in InFlight' => ~ WorkOf(r, p)
  BY <1>3 DEF WorkOf, IsTask, WorkTypes
<1>5. p \notin unwatched' /\ (p \in WalDeletes(wal) \/ p \notin known_live_document_paths(wal))
  BY <1>1 DEF Away
<1>6. CASE p \in WalDeletes(wal)
  <2>1. PICK i \in DOMAIN wal : PendingDelete(wal, i) /\ wal[i].key = p
    BY <1>6 DEF WalDeletes
  <2>2. wal[i] = DeleteDocument(p)
    BY <1>2, <2>1, Elements, Rebuilt DEF PendingDelete
  <2>3. DeleteDocument(p) \in Unacked(wal)
    BY <2>1, <2>2 DEF Unacked, UnackedAt
  <2> QED
    BY <1>1, <1>4, <2>3 DEF Covered
<1>7. CASE p \notin known_live_document_paths(wal)
  <2>1. ASSUME NEW i \in DOMAIN wal, WorkOf(wal[i], p)
        PROVE  Acked(wal, wal[i])
    <3> SUFFICES ASSUME ~ Acked(wal, wal[i]) PROVE FALSE
      OBVIOUS
    <3>1. wal[i] \in Unacked(wal)
      BY <2>1 DEF Unacked, UnackedAt, WorkOf, WorkTypes
    <3> QED
      BY <1>1, <1>5, <1>7, <2>1, <3>1 DEF WorkOf
  <2>2. sink[p] = Gone \/ DeleteDocument(p) \in Unacked(wal)
    BY <1>2, <1>7, <2>1, GoneOrPending DEF AllAcked
  <2> QED
    BY <1>1, <1>4, <2>2 DEF Covered
<1> QED
  BY <1>5, <1>6, <1>7

LEMMA ReplayCovers ==
  ASSUME ~ LogFaults, SyncInv, Base', RtReplay, NEW p \in Paths, Away(p)'
  PROVE  Covered(p)'
<1> USE DEF SyncInv, Base
<1>1. PICK d : d = DeleteDocument(p)
  OBVIOUS
<1>2. Away(p) /\ rt = "replay" /\ UNCHANGED <<sink, wal, failed>>
  BY ReplaySteps DEF Away
<1>3. d \notin InFlight
  BY ReplayAdds
<1>4. sink'[p] = Gone \/ d \in Unacked(wal') \cup Journaled'
  BY <1>1, <1>2, <1>3 DEF Covered, Journaled
<1>5. ~ \E r \in Unacked(wal) : WorkOf(r, p)
  BY <1>2 DEF Away, ScanInv, AtReplay
<1>6. ASSUME NEW r, r \in InFlight', WorkOf(r, p)
      PROVE  FALSE
  <2>1. PICK i \in UnackedAt(wal) : wal[i] = r
    BY <1>6, ReplayAdds, Places
  <2> QED
    BY <1>5, <1>6, <2>1 DEF Unacked
<1> QED
  BY <1>1, <1>4, <1>6 DEF Covered

LEMMA TickCovers ==
  ASSUME ~ LogFaults, SyncInv, Base', TickEnds, NEW p \in Paths, Away(p)'
  PROVE  Covered(p)'
<1> USE DEF SyncInv, Base
<1>1. PICK d : d = DeleteDocument(p)
  OBVIOUS
<1>2. RtCollect /\ rt' = "loop"
  BY DEF TickEnds, PlanFails, Away
<1>3. /\ UNCHANGED <<sink, wal, failed>> /\ rt = "tick" /\ outbox' = outbox
      /\ unwatched' = unwatched \cup {q \in Paths : \E i \in (before + 1)..Len(wal) : wal[i] = DeleteDocument(q)}
      /\ UNCHANGED <<last_seen_version, planner, events, exit>>
  BY <1>2, CollectSteps
<1>4. Away(p) /\ Covered(p)
  BY <1>3 DEF Away
<1>5. /\ \A n, r : At(n, r)' <=> At(n, r) /\ n \in 0..Capacity
      /\ \A i \in Ahead : wal[i] # d
  BY <1>1, <1>2, <1>3, TickLeaves DEF Away
<1>6. \A n : At(n, d) => n \in 0..Capacity
  BY <1>5, Places DEF At
<1>7. ASSUME NEW r, r \in InFlight', WorkOf(r, p)
      PROVE  Behind(r, d)'
  <2>1. r \in InFlight
    BY <1>5, <1>7, Places
  <2>2. PICK m \in Nat, n \in Nat : m < n /\ At(m, r) /\ At(n, d)
    BY <1>1, <1>4, <1>7, <2>1 DEF Covered, Behind
  <2>3. n \in 0..Capacity /\ m \in 0..Capacity
    BY <1>6, <2>2, Places
  <2>4. At(m, r)' /\ At(n, d)'
    BY <1>5, <2>2, <2>3
  <2> QED
    BY <2>2, <2>4 DEF Behind
<1>8. d \in InFlight => d \in InFlight'
  BY <1>5, <1>6, Places
<1>9. sink'[p] = Gone \/ d \in InFlight' \cup Unacked(wal') \cup Journaled'
  BY <1>1, <1>3, <1>4, <1>8 DEF Covered, Journaled
<1> QED
  BY <1>1, <1>7, <1>9 DEF Covered

LEMMA PlanCovers ==
  ASSUME ~ LogFaults, SyncInv, Base', PlanStep, NEW p \in Paths, Away(p)'
  PROVE  Covered(p)'
<1> USE DEF SyncInv, Base
<1>1. PICK ev \in events : PlanAppends(ev) /\ RtPlan /\ events' = events \ {ev}
  BY DEF PlanStep
<1>2. PICK new, d : new = PlanOf(ev) /\ d = DeleteDocument(p)
  OBVIOUS
<1>3. /\ wal' = Append(wal, new) /\ rt' = "tick" /\ rt # "off"
      /\ UNCHANGED <<exit, sink, failed, unwatched, last_seen_version>>
  BY <1>1, <1>2, PlanSteps DEF PlanAppends
<1>4. (ev.path = p => ev.stamp = Gone) /\ (ev.path # p => Away(p))
  BY <1>1, <1>3, PlanAway DEF PlanAppends
<1>5. PICK end \in Nat : /\ end # 0
                         /\ \A n, q : At(n, q)' <=> At(n, q) \/ (n = end /\ q = new)
                         /\ \A n, q : At(n, q) => n < end
  BY <1>1, <1>3, PlanAdds
<1>6. CASE ev.path = p
  <2>1. new = d /\ d.type = "delete_document"
    BY <1>2, <1>4, <1>6 DEF PlanOf, DeleteDocument
  <2>2. d \in InFlight' /\ At(end, d)'
    BY <1>5, <2>1, Places
  <2>3. ASSUME NEW r, r \in InFlight', WorkOf(r, p)
        PROVE  Behind(r, d)'
    <3>1. PICK n \in Nat : At(n, r)'
      BY <2>3, Places
    <3>2. At(n, r) /\ n < end
      BY <1>5, <2>1, <2>3, <3>1 DEF WorkOf
    <3> QED
      BY <2>2, <3>1, <3>2 DEF Behind
  <2> QED
    BY <1>2, <2>2, <2>3 DEF Covered
<1>7. CASE ev.path # p
  <2>1. Covered(p)
    BY <1>4, <1>7
  <2>2. ~ WorkOf(new, p) /\ (new.type \in DeleteTypes => new.key # p)
    BY <1>2, <1>7 DEF PlanOf, WorkItemV2, DeleteDocument, WorkOf, DeleteTypes
  <2>3. ASSUME NEW r, r \in InFlight', WorkOf(r, p)
        PROVE  Behind(r, d)'
    <3>1. r \in InFlight
      BY <1>5, <2>2, <2>3, Places
    <3>2. PICK m \in Nat, n \in Nat : m < n /\ At(m, r) /\ At(n, d)
      BY <1>2, <2>1, <2>3, <3>1 DEF Covered, Behind
    <3>3. At(m, r)' /\ At(n, d)'
      BY <1>5, <3>2
    <3> QED
      BY <3>2, <3>3 DEF Behind
  <2>4. d \in InFlight => d \in InFlight'
    BY <1>5, Places
  <2>5. d \in Unacked(wal) => d \in Unacked(wal')
    BY <1>2, <1>3, <2>2, DeleteStays DEF WorkInv, Typed, TypeOK, DurableOK
  <2>6. sink'[p] = Gone \/ d \in InFlight' \cup Unacked(wal') \cup Journaled'
    BY <1>2, <1>3, <2>1, <2>4, <2>5 DEF Covered, Journaled
  <2> QED
    BY <1>2, <2>3, <2>6 DEF Covered
<1> QED
  BY <1>6, <1>7

LEMMA HandCovers ==
  ASSUME ~ LogFaults, SyncInv, Base', HandStep, NEW p \in Paths, Away(p)'
  PROVE  Covered(p)'
<1> USE DEF SyncInv, Base
<1>1. PICK d : d = DeleteDocument(p)
  OBVIOUS
<1>2. IsTask(d) /\ d.type = "delete_document" /\ d.key = p /\ \A r : WorkOf(r, p) => IsTask(r)
  BY <1>1 DEF IsTask, DeleteDocument, WorkOf, WorkTypes
<1>3. Away(p) /\ UNCHANGED sink
  BY AckSteps DEF HandStep, WkFail, WkGoto, Away
<1>4. Covered(p)
  BY <1>3
<1>5. /\ \A n, r : IsTask(r) => (At(n, r)' <=> At(n, r) /\ n # 0)
      /\ \A r : At(0, r) <=> r = InHand
  BY HandLeaves DEF HandStep
<1>6. ASSUME NEW r, r \in InFlight', WorkOf(r, p)
      PROVE  Behind(r, d)'
  <2>1. PICK k \in Nat : At(k, r) /\ k # 0
    BY <1>2, <1>5, <1>6, Places
  <2>2. r \in InFlight
    BY <2>1, Places
  <2>3. PICK m \in Nat, n \in Nat : m < n /\ At(m, r) /\ At(n, d)
    BY <1>1, <1>4, <1>6, <2>2 DEF Covered, Behind
  <2>4. m # 0
    <3>1. m = 0 => Behind(r, r)
      BY <2>1, <2>3 DEF Behind
    <3> QED
      BY <1>6, <2>2, <3>1 DEF Once, WorkOf
  <2>5. At(m, r)' /\ At(n, d)'
    BY <1>2, <1>5, <1>6, <2>3, <2>4
  <2> QED
    BY <2>3, <2>5 DEF Behind
<1>7. ASSUME sink[p] # Gone
      PROVE  d \in InFlight' \cup Unacked(wal') \cup Journaled'
  <2>1. CASE WkAck
    <3>1. ~ (InHand.type = "delete_document" /\ InHand.key = p)
      BY <1>7, <2>1, AckSteps DEF PlanInv, IInv, InOrder, AckInOrder
    <3>2. PICK new : new = AckOf(InHand) /\ wal' = Append(wal, new) /\ failed' = failed
      BY <2>1, AckSteps
    <3>3. new.type \in DeleteTypes => new.key # p
      BY <2>1, <3>1, <3>2, AckSteps DEF AckOf, IsTask, WorkTypes, DeleteTypes, SinkAck, SinkAckV2, DeleteAck
    <3>4. d \in Unacked(wal) => d \in Unacked(wal')
      BY <1>1, <3>2, <3>3, DeleteStays DEF WorkInv, Typed, TypeOK, DurableOK
    <3>5. d \in InFlight => d \in InFlight'
      <4>1. InHand # d
        BY <1>2, <3>1
      <4> QED
        BY <1>2, <1>5, <4>1, Places
    <3> QED
      BY <1>1, <1>4, <1>7, <3>2, <3>4, <3>5 DEF Covered, Journaled
  <2>2. CASE WkFail /\ failed' # failed
    <3>1. wal' = wal /\ Journaled \subseteq Journaled' /\ InHand \in Journaled'
      BY <2>2, FailJournals DEF WkFail
    <3>2. d \in InFlight => d \in InFlight' \/ d = InHand
      BY <1>2, <1>5, Places
    <3> QED
      BY <1>1, <1>4, <1>7, <3>1, <3>2 DEF Covered
  <2> QED
    BY <2>1, <2>2 DEF HandStep
<1> QED
  BY <1>1, <1>3, <1>6, <1>7 DEF Covered

LEMMA CoveredKept ==
  ASSUME ~ LogFaults, SyncInv, Base', [Next]_vars, NEW p \in Paths, Away(p)'
  PROVE  Covered(p)'
<1> USE DEF SyncInv, Base
<1>1. CASE QuietStep /\ ~ Start
  <2>1. Away(p) /\ KeepsFlight /\ UNCHANGED <<wal, failed>>
    BY <1>1, QuietAway DEF QuietStep
  <2> QED
    BY <2>1, CoveredStays
<1>2. CASE Down
  BY <1>2 DEF Down, Away
<1> QED
  BY <1>1, <1>2, StartCovers, ReplayCovers, TickCovers, PlanCovers, HandCovers, SyncSteps

-----------------------------------------------------------------------------
(* No update is lost.                                                       *)

LEMMA InitSync == Init => SyncInv
<1> SUFFICES ASSUME Init PROVE SyncInv
  OBVIOUS
<1>1. Base
  BY InitPlan, InitWork, InitScan DEF Base
<1>2. \A i \in DOMAIN wal : wal[i].type \notin {"work_item_v2", "sink_ack_v2", "delete_ack"}
  BY LegacyOnly DEF LegacyTypes
<1>3. \A r : r \notin InFlight
  <2>1. \A r : ~ Sending(r) /\ ~ Queued(r) /\ ~ Held(r) /\ ~ Retrying(r)
    BY DEF Init, Sending, Queued, Held, Retrying, Planned
  <2> QED
    BY <2>1, InFlightParts
<1>4. \A r, q : ~ Behind(r, q)
  <2>1. \A n, r : ~ At(n, r)
    BY DEF Init, At, Held, Retrying, Ahead, Planned
  <2> QED
    BY <2>1 DEF Behind
<1>5. Current
  <2>1. \A fp : ~ InLog(SinkAckV2(fp))
    BY <1>2 DEF InLog, SinkAckV2
  <2> QED
    BY <1>4, <2>1 DEF Current, CurrentOf
<1>6. Once
  BY <1>3 DEF Once
<1>7. ASSUME NEW p \in Paths
      PROVE  Durable(p) /\ ~ Away(p)
  BY <1>2, <1>7 DEF Durable, LastIsAck, DeleteAck, Away, Init
<1> QED
  BY <1>1, <1>5, <1>6, <1>7 DEF SyncInv

LEMMA SyncInvKept ==
  ASSUME FreshStamps, ~ LogFaults, LegacyChunks \cap Fingerprints = {}, SyncInv, [Next]_vars
  PROVE  SyncInv'
<1>1. Base
  BY DEF SyncInv
<1>2. PlanInv' /\ Typed'
  <2>1. PlanInv'
    BY <1>1, PlanInvKept DEF Base
  <2> QED
    BY <2>1 DEF PlanInv, IInv
<1>3. WorkInv'
  BY <1>1, <1>2, RetryNextKept, NothingUnsentKept, GivenUpLastKept DEF Base, WorkInv
<1>4. Base'
  BY <1>1, <1>2, <1>3, ScanInvKept DEF Base
<1> QED
  BY <1>4, CurrentKept, OnceKept, DurableKept, CoveredKept DEF SyncInv

\* The latest task about a file that is there is its present version.
LEMMA LatestIsCurrent ==
  ASSUME Base, NEW fp \in Fingerprints, fp.stamp = files[fp.path], fp.stamp # Gone,
         NEW i \in DOMAIN wal, wal[i] = WorkItemV2(fp)
  PROVE  i \in LatestTask(fp.path)
<1> USE DEF Base
<1>1. wal[i].type = "work_item_v2" /\ wal[i].key = fp
  BY DEF WorkItemV2
<1>2. IsTask(wal[i]) /\ IsAbout(wal[i], fp.path)
  BY <1>1 DEF IsTask, WorkTypes, IsAbout, FileTypes
<1>3. wal \in Seq(WalRecords) /\ fp.stamp \in Nat /\ fp.path \in Paths
  BY DEF WorkInv, Typed, TypeOK, DurableOK, Fingerprints, Stamps
<1>4. ASSUME NEW j \in DOMAIN wal, j > i, WorkOf(wal[j], fp.path)
      PROVE  FALSE
  <2>1. wal[j].key \in Fingerprints /\ wal[j] = WorkItemV2(wal[j].key)
    BY <1>3, <1>4, Elements, Rebuilt DEF WorkOf
  <2>2. wal[j].key.stamp \in Nat /\ fp.stamp <= wal[j].key.stamp
    BY <1>1, <1>4, <2>1 DEF ScanInv, Rising, WorkOf, Fingerprints, Stamps
  <2>3. wal[j].key.stamp <= fp.stamp
    BY <1>4 DEF PlanInv, IInv, InOrder, RecordsInOrder, RecordInOrder, Past, WorkOf, FileTypes
  <2>4. wal[j].key.stamp = fp.stamp /\ wal[j].key.path = fp.path
    BY <1>3, <1>4, <2>2, <2>3 DEF WorkOf
  <2>5. wal[j] = wal[i]
    BY <2>1, <2>4 DEF Fingerprints
  <2> QED
    BY <1>1, <1>4, <2>5 DEF PlanInv, PlannedOnce
<1>5. ASSUME NEW j \in DOMAIN wal, j > i, wal[j].type = "delete_document", wal[j].key = fp.path
      PROVE  FALSE
  <2>1. wal[j] = DeleteDocument(fp.path)
    BY <1>3, <1>5, Elements, Rebuilt
  <2> QED
    BY <1>1, <1>5, <2>1 DEF PlanInv, GoneForGood
<1>6. NoLater(wal, i, fp.path, {"work_item_v2", "delete_document"})
  BY <1>4, <1>5 DEF NoLater, IsAbout, WorkOf, FileTypes, DeleteTypes
<1> QED
  BY <1>2, <1>6 DEF LatestTask

LEMMA InSync ==
  ASSUME SyncInv, NEW p \in Paths \ (unwatched \cup overtaken), Settled(p)
  PROVE  sink[p] = files[p]
<1> USE DEF SyncInv
<1>1. Running /\ Noticed(p) /\ \A ev \in events : ev.path # p
  BY DEF Settled
<1>2. CASE files[p] = Gone
  <2>1. Away(p)
    BY <1>1, <1>2 DEF Running, Noticed, Away, Fingerprint
  <2>2. DeleteDocument(p) \notin InFlight
    BY DEF Settled, IsTask, IsAbout, DeleteDocument, DeleteTypes
  <2>3. DeleteDocument(p) \notin Unacked(wal) \cup Journaled
    BY DEF Settled
  <2> QED
    BY <1>2, <2>1, <2>2, <2>3 DEF Covered
<1>3. CASE files[p] # Gone
  <2>1. PICK fp : fp = Fingerprint(p, files[p])
    OBVIOUS
  <2>2. fp.path = p /\ fp.stamp = files[p] /\ fp \in Fingerprints
    BY <2>1 DEF Fingerprint, Fingerprints, Base, WorkInv, Typed, TypeOK, FilesOK
  <2>3. InLog(WorkItemV2(fp))
    <3>1. p \in DOMAIN last_seen_version /\ last_seen_version[p] = files[p] /\ files[p] # NoStamp
      BY <1>1, <1>3 DEF Noticed, Gone, NoStamp
    <3>2. exit = "none" /\ fp \notin events
      BY <1>1, <2>2 DEF Running
    <3> QED
      BY <2>1, <3>1, <3>2 DEF Base, ScanInv, SeenPlanned
  <2>4. PICK i \in DOMAIN wal : wal[i] = WorkItemV2(fp)
    BY <2>3 DEF InLog
  <2>5. wal[i] \notin Unacked(wal)
    BY <1>3, <2>2, <2>4, LatestIsCurrent DEF Settled
  <2>6. Acked(wal, wal[i])
    BY <2>4, <2>5 DEF Unacked, UnackedAt, WorkItemV2, WorkTypes
  <2>7. InLog(SinkAckV2(fp))
    BY <2>4, <2>6 DEF Acked, AckOf, WorkItemV2, InLog
  <2> QED
    BY <1>3, <2>2, <2>7 DEF Current, CurrentOf
<1> QED
  BY <1>2, <1>3

\* No update of a file is lost (NoLostUpdate), for any files and changes, on
\* one thread or several, whatever the sink answers and however often the
\* process crashes, is shut down and starts again, while every write is fresh
\* and the log and the journal can be read and written.  What the theorem
\* leaves out are the paths NoLostUpdate itself names.
THEOREM LosesNoUpdate ==
  ASSUME FreshStamps, ~ LogFaults, LegacyChunks \cap Fingerprints = {}
  PROVE  Spec => []NoLostUpdate
<1>1. Init => SyncInv
  BY InitSync
<1>2. SyncInv /\ [Next]_vars => SyncInv'
  BY SyncInvKept
<1>3. SyncInv => NoLostUpdate
  BY InSync DEF NoLostUpdate, DocumentInSync
<1> QED
  BY <1>1, <1>2, <1>3, PTL DEF Spec

-----------------------------------------------------------------------------
(* The operator commands: lemmas about compaction.                          *)

USE DEF opvars, Memory

LEMMA Keeping ==
  ASSUME NEW S, NEW s \in Seq(S), NEW idx \in SUBSET (DOMAIN s)
  PROVE  Keep(s, idx) \in Seq(S)
<1>1. \A k : Kth(idx, k) = L!Kth(idx, k)
  BY DEF Kth, L!Kth, Cardinality, L!Cardinality
<1>2. Keep(s, idx) = L!Keep(s, idx)
  BY <1>1 DEF Keep, L!Keep, Cardinality, L!Cardinality
<1> QED
  BY <1>2, L!Kept

\* Compaction of the journal keeps the next id and lengthens nothing.
LEMMA CompactedJournal ==
  ASSUME NEW journal \in Seq(JournalRecords)
  PROVE  /\ compact_failed_work_records(journal) \in Seq(JournalRecords)
         /\ next_failed_work_id(compact_failed_work_records(journal)) = next_failed_work_id(journal)
         /\ Len(compact_failed_work_records(journal)) <= Len(journal)
<1> DEFINE idx == CompactedJournalAt(journal)
           c == compact_failed_work_records(journal)
<1>1. L!AreEntries(JournalRecords)
  BY DEF L!AreEntries, JournalRecords
<1>2. \A j : /\ L!next_failed_work_id(j) = next_failed_work_id(j)
             /\ L!ExhaustedAt(j) = ExhaustedAt(j)
  BY DEF L!next_failed_work_id, L!ExhaustedAt, next_failed_work_id, ExhaustedAt
<1>3. /\ L!PendingAt(journal) = PendingAt(journal)
      /\ \A type, id : L!LastOf(journal, type, id) = LastOf(journal, type, id)
  BY <1>2 DEF L!PendingAt, PendingAt, L!LastOf, LastOf, L!NoLaterOf, NoLaterOf
<1>4. L!CompactedJournalAt(journal) = idx
  BY <1>2, <1>3 DEF L!CompactedJournalAt, CompactedJournalAt
<1>5. L!compact_failed_work_records(journal) = c
  <2>1. \A k : Kth(idx, k) = L!Kth(idx, k)
    BY DEF Kth, L!Kth, Cardinality, L!Cardinality
  <2>2. Keep(journal, idx) = L!Keep(journal, idx)
    <3> HIDE DEF idx
    <3> QED
      BY <2>1 DEF Keep, L!Keep, Cardinality, L!Cardinality
  <2>3. c = Keep(journal, idx)
    BY DEF compact_failed_work_records
  <2>4. L!compact_failed_work_records(journal) = L!Keep(journal, idx)
    BY <1>4 DEF L!compact_failed_work_records
  <2> QED
    BY <2>2, <2>3, <2>4
<1>6. idx \subseteq DOMAIN journal
  BY DEF CompactedJournalAt, PendingAt, ExhaustedAt, LastOf
<1>7. c \in Seq(JournalRecords)
  <2> HIDE DEF idx
  <2> QED
    BY <1>6, Keeping DEF compact_failed_work_records, idx
<1>8. next_failed_work_id(c) = next_failed_work_id(journal)
  <2> HIDE DEF c
  <2> QED
    BY <1>1, <1>2, <1>5, L!NextIdIsKept
<1>9. Len(c) <= Len(journal)
  <2>2. PICK n \in Nat : n = Len(journal) /\ DOMAIN journal = 1..n
    OBVIOUS
  <2>3. IsFiniteSet(1..n) /\ Cardinality(1..n) = n
    BY FS_Interval
  <2> HIDE DEF idx
  <2>4. IsFiniteSet(idx) /\ Cardinality(idx) <= n
    BY <1>6, <2>2, <2>3, FS_Subset
  <2>5. Cardinality(idx) \in Nat
    BY <2>4, FS_CardinalityType
  <2>6. Len(c) = Cardinality(idx)
    <3>1. c = [k \in 1..Cardinality(idx) |-> journal[Kth(idx, k)]]
      BY DEF compact_failed_work_records, Keep, idx
    <3> HIDE DEF c
    <3> QED
      BY <1>7, <2>5, <3>1
  <2> QED
    BY <2>2, <2>4, <2>6
<1> QED
  BY <1>7, <1>8, <1>9

-----------------------------------------------------------------------------
(* Lemmas about pending work.                                               *)

\* Pending records have different ids.
LEMMA PendingIds ==
  ASSUME NEW journal \in Seq(JournalRecords),
         NEW q \in pending_failed_work(journal), NEW r \in pending_failed_work(journal)
  PROVE  /\ q \in JournalRecords /\ q.type = "exhausted"
         /\ q.id = r.id => q = r
<1>1. PICK i \in PendingAt(journal), j \in PendingAt(journal) : q = journal[i] /\ r = journal[j]
  BY DEF pending_failed_work
<1>2. i \in DOMAIN journal /\ j \in DOMAIN journal /\ DOMAIN journal \subseteq Int
  BY DEF PendingAt, ExhaustedAt
<1>3. i < j \/ j < i \/ i = j
  BY <1>2
<1>4. q.id = r.id => i = j
  BY <1>1, <1>2, <1>3 DEF PendingAt, ExhaustedAt, NoLaterOf
<1> QED
  BY <1>1, <1>2, <1>4 DEF PendingAt, ExhaustedAt

\* A mark settles the work of its id and no other, and uses up no id.
LEMMA MarkSettles ==
  ASSUME NEW journal \in Seq(JournalRecords), NEW id \in Nat
  PROVE  LET marked == Append(journal, Requeued(id))
         IN  /\ marked \in Seq(JournalRecords)
             /\ next_failed_work_id(marked) = next_failed_work_id(journal)
             /\ \A r \in pending_failed_work(journal) : r.id # id => r \in pending_failed_work(marked)
<1> DEFINE mark == Requeued(id)
           marked == Append(journal, mark)
           end == Len(journal) + 1
<1>1. mark \in JournalRecords /\ mark.type = "requeued" /\ mark.id = id
  BY DEF Requeued, JournalRecords
<1> HIDE DEF mark
<1>2. /\ DOMAIN marked = DOMAIN journal \cup {end}
      /\ \A i \in DOMAIN journal : marked[i] = journal[i] /\ i # end
      /\ marked[end] = mark /\ marked \in Seq(JournalRecords)
  BY <1>1
<1> HIDE DEF marked, end
<1>3. ExhaustedAt(marked) = ExhaustedAt(journal)
  BY <1>1, <1>2 DEF ExhaustedAt
<1>4. {marked[i].id : i \in ExhaustedAt(marked)} = {journal[i].id : i \in ExhaustedAt(journal)}
  BY <1>2, <1>3 DEF ExhaustedAt
<1>5. next_failed_work_id(marked) = next_failed_work_id(journal)
  BY <1>4 DEF next_failed_work_id
<1>6. ASSUME NEW r \in pending_failed_work(journal), r.id # id PROVE r \in pending_failed_work(marked)
  <2>1. PICK i \in PendingAt(journal) : r = journal[i]
    BY DEF pending_failed_work
  <2>2. i \in PendingAt(marked) /\ marked[i] = r
    BY <1>1, <1>2, <1>6, <2>1 DEF PendingAt, ExhaustedAt, NoLaterOf
  <2> QED
    BY <2>2 DEF pending_failed_work
<1> QED
  BY <1>2, <1>5, <1>6 DEF marked, mark

\* There is a next item to requeue, the one of the least id.
LEMMA NextItemExists ==
  ASSUME failed \in Seq(JournalRecords), todo \subseteq pending_failed_work(failed), todo # {}
  PROVE  NextItem \in todo
<1>1. \A r \in todo : r.id \in Nat
  BY PendingIds DEF JournalRecords
<1>2. \E r \in todo : \A q \in todo : r.id <= q.id
  <2> SUFFICES ASSUME \A r \in todo : \E q \in todo : ~ (r.id <= q.id) PROVE FALSE
    OBVIOUS
  <2>1. PICK last \in todo : TRUE
    OBVIOUS
  <2>2. PICK m \in Nat : m = last.id
    BY <1>1
  <2> DEFINE Good == {k \in 0..m : \A r \in todo : k < r.id}
  <2>3. 0 \in Good
    <3>1. \A r \in todo : r.id # 0
      BY <1>1
    <3> QED
      BY <1>1, <3>1
  <2>4. ASSUME NEW k \in 1..m, k - 1 \in Good PROVE k \in Good
    <3>1. \A r \in todo : k <= r.id
      BY <1>1, <2>4
    <3>2. \A r \in todo : r.id # k
      BY <1>1, <3>1
    <3> QED
      BY <1>1, <3>1, <3>2
  <2>5. m \in Good
    <3> HIDE DEF Good
    <3>1. \A k \in 1..m : k - 1 \in Good => k \in Good
      BY <2>4
    <3>2. 0..m \subseteq Good
      BY <2>3, <3>1, L!IntervalInduction
    <3> QED
      BY <3>2
  <2> QED
    BY <2>1, <2>2, <2>5
<1> QED
  BY <1>2 DEF NextItem

-----------------------------------------------------------------------------
(* The inductive invariant.                                                 *)

\* A command works on the files of a daemon that is stopped and has nothing
\* left to send.
Alone == /\ cmd # "none" => rt = "off"
         /\ rt = "off" => outbox = {}

\* replay-failed still has pending records to go through; the last record it
\* has appended is the one it is about to mark.
Replaying ==
  /\ cmd \in {"requeue", "mark"} => todo \subseteq pending_failed_work(failed)
  /\ cmd = "mark" => todo # {} /\ wal # <<>> /\ wal[Len(wal)] = NextItem.work

\* Every id ever given out is below the next one.
UsedUp == used \subseteq Nat /\ \A id \in used : id < next_failed_work_id(failed)

OpInv == Typed /\ Alone /\ Replaying /\ UsedUp

LEMMA InitOp == OpInit => OpInv
<1> SUFFICES ASSUME OpInit PROVE OpInv
  OBVIOUS
<1>1. Typed
  BY InitTyped DEF OpInit
<1>2. Alone /\ Replaying /\ UsedUp
  BY DEF OpInit, Init, Alone, Replaying, UsedUp
<1> QED
  BY <1>1, <1>2 DEF OpInv

\* The runtime task does not run while the process is down, nor ends it.
LEMMA RuntimeLeaves == RtNext => rt # "off" /\ rt' # "off"
<1> SUFFICES ASSUME RtNext PROVE rt # "off" /\ rt' # "off"
  OBVIOUS
<1> USE DEF RtGoto, RtFail
<1>1. CASE RtReplay \/ RtSend \/ RtSent \/ RtStop \/ RtPoll \/ RtCollect
  BY <1>1 DEF RtReplay, RtSend, RtSent, RtStop, RtPoll, RtCollect
<1>2. CASE RtPlan
  <2>1. PICK ev \in events :
          IF ev.stamp = Gone THEN plan_file_delete(ev.path) ELSE plan_file_version(ev)
    BY <1>2 DEF RtPlan
  <2>2. rt' \in {"tick", "exited"}
    BY <2>1, Zenon DEF plan_file_delete, plan_file_version, PlanAppend
  <2> QED
    BY <1>2, <2>2 DEF RtPlan
<1> QED
  BY <1>1, <1>2 DEF RtNext

\* Work is given up under the next id, and nothing else is done to the journal
\* by the daemon.
LEMMA DaemonJournal ==
  ASSUME Typed, Next
  PROVE  \/ failed' = failed
         \/ \E x : failed' = Append(failed, x) /\ x.type = "exhausted" /\ x.id = next_failed_work_id(failed)
<1>1. CASE WkFail
  <2>1. failed' = failed \/ failed' = Append(failed, Exhausted(next_failed_work_id(failed), InHand, err, hand[1].attempt))
    BY <1>1, Zenon DEF WkFail, Exhaust
  <2> QED
    BY <2>1 DEF Exhausted
<1>2. CASE WkNext /\ ~ WkFail
  BY <1>2 DEF WkNext, WkTake, Take, WkEnd, WkLoad, StepFault, WkUpsert, WkDelete, WkLock, WkAck, WkGoto
<1>3. CASE RtNext
  BY <1>3 DEF RtNext, RtReplay, RtSend, RtSent, RtStop, RtPoll, RtPlan, RtCollect
<1>4. CASE \/ \E p \in Paths : WriteFile(p) \/ RemoveFile(p)
           \/ Start \/ Crash \/ RequestShutdown \/ Terminate
  BY <1>4 DEF WriteFile, RemoveFile, Change, Start, Crash, RequestShutdown, Terminate, Down
<1> QED
  BY <1>1, <1>2, <1>3, <1>4 DEF Next

LEMMA DaemonKeeps == ASSUME OpInv, Daemon PROVE OpInv'
<1> USE DEF OpInv
<1>1. cmd = "none" /\ Next /\ UNCHANGED <<cmd, todo, leftover, commands>>
  BY DEF Daemon
<1>2. Typed'
  BY <1>1, NextTyped
<1>3. Alone'
  <2>1. CASE RtNext
    BY <1>1, <2>1, RuntimeLeaves DEF Alone
  <2>2. CASE Start \/ Crash \/ Terminate
    BY <1>1, <2>2 DEF Start, Crash, Terminate, Down, Alone
  <2>3. CASE WkNext \/ RequestShutdown \/ \E p \in Paths : WriteFile(p) \/ RemoveFile(p)
    <3>1. UNCHANGED <<rt, outbox>>
      BY <2>3 DEF RequestShutdown, WriteFile, RemoveFile, Change, WkNext, WkTake, Take, WkEnd,
                  WkLoad, StepFault, WkUpsert, WkDelete, SinkRequest, WkLock, WkAck, WkFail, WkGoto
    <3> QED
      BY <1>1, <3>1 DEF Alone
  <2> QED
    BY <1>1, <2>1, <2>2, <2>3 DEF Next
<1>4. Replaying'
  BY <1>1 DEF Replaying
<1>5. UsedUp'
  <2>1. failed \in Seq(JournalRecords) /\ failed' \in Seq(JournalRecords)
    BY <1>2 DEF Typed, TypeOK, DurableOK
  <2>2. \A i \in ExhaustedAt(failed') : failed'[i].id \in Nat /\ failed'[i].id < next_failed_work_id(failed')
    BY <2>1, NextId DEF ExhaustedAt, JournalRecords
  <2>3. next_failed_work_id(failed) \in Nat /\ next_failed_work_id(failed') \in Nat
    BY <2>1, NextId
  <2>4. next_failed_work_id(failed) <= next_failed_work_id(failed')
    <3>1. CASE failed' = failed
      BY <2>3, <3>1
    <3>2. CASE failed' # failed
      <4>1. PICK x : failed' = Append(failed, x) /\ x.type = "exhausted" /\ x.id = next_failed_work_id(failed)
        BY <1>1, <3>2, DaemonJournal
      <4>2. Len(failed) + 1 \in ExhaustedAt(failed') /\ failed'[Len(failed) + 1] = x
        BY <2>1, <4>1 DEF ExhaustedAt
      <4> QED
        BY <2>2, <2>3, <4>1, <4>2
    <3> QED
      BY <3>1, <3>2
  <2>5. used' = used \cup {failed'[i].id : i \in ExhaustedAt(failed')}
    BY DEF Daemon
  <2>6. PICK n \in Nat, m \in Nat :
          n = next_failed_work_id(failed) /\ m = next_failed_work_id(failed') /\ n <= m
    BY <2>3, <2>4
  <2>7. used \subseteq Nat /\ \A id \in used : id < n
    BY <2>6 DEF UsedUp
  <2>8. ASSUME NEW id \in used' PROVE id \in Nat /\ id < m
    <3>1. CASE id \in used
      <4>1. id \in Nat /\ id < n
        BY <2>7, <3>1
      <4> QED
        BY <2>6, <4>1
    <3>2. CASE \E i \in ExhaustedAt(failed') : id = failed'[i].id
      BY <2>2, <2>6, <3>2, Zenon
    <3> QED
      BY <2>5, <2>8, <3>1, <3>2, Zenon
  <2> QED
    BY <2>6, <2>8 DEF UsedUp
<1> QED
  BY <1>2, <1>3, <1>4, <1>5

\* The commands one by one.
LEMMA CommandKeeps == ASSUME OpInv, Command PROVE OpInv'
<1> USE DEF OpInv
<1>1. /\ UNCHANGED <<Memory, used>> /\ rt = "off" /\ outbox = {}
  <2>1. UNCHANGED <<Memory, used>>
    BY DEF Command, OpNext, BeginCompact, Begin, CompactWal, CompactFailed, BeginReplay,
           ReplayAppend, ReplayMark, EndReplay, KillCommand
  <2>2. rt = "off"
    BY DEF Alone, Command, OpNext, BeginCompact, Begin, CompactWal, CompactFailed, BeginReplay,
           ReplayAppend, ReplayMark, EndReplay, KillCommand
  <2> QED
    BY <2>1, <2>2 DEF Alone
<1>2. Alone'
  BY <1>1 DEF Alone
<1>3. wal \in Seq(WalRecords) /\ failed \in Seq(JournalRecords)
  BY DEF Typed, TypeOK, DurableOK
\* What remains to be shown of a command.
<1>4. ASSUME wal' \in Seq(WalRecords), failed' \in Seq(JournalRecords),
             next_failed_work_id(failed') = next_failed_work_id(failed), Replaying'
      PROVE  OpInv'
  <2>1. DurableOK'
    BY <1>1, <1>4 DEF Typed, TypeOK, DurableOK
  <2>2. RuntimeOK'
    <3>1. UNCHANGED <<last_seen_version, planned_versions, planned_deletes, rt, events, before, outbox>>
      BY <1>1
    <3> QED
      BY <1>1, <3>1 DEF Typed, TypeOK, RuntimeOK
  <2>3. Typed'
    BY <1>1, <2>1, <2>2, Untouched DEF Typed, TypeOK
  <2>4. UsedUp'
    BY <1>1, <1>4 DEF UsedUp
  <2> QED
    BY <1>2, <1>4, <2>3, <2>4
<1>5. CASE BeginCompact \/ EndReplay \/ KillCommand
  <2>1. UNCHANGED <<wal, failed>> /\ cmd' \in {"compact_wal", "none"}
    BY <1>5 DEF BeginCompact, Begin, EndReplay, KillCommand
  <2> QED
    BY <1>3, <1>4, <2>1 DEF Replaying
<1>6. CASE BeginReplay
  <2>1. UNCHANGED <<wal, failed>> /\ cmd' = "requeue" /\ todo' = pending_failed_work(failed)
    BY <1>6 DEF BeginReplay, Begin
  <2> QED
    BY <1>3, <1>4, <2>1 DEF Replaying
<1>7. CASE CompactWal
  <2>1. CompactedAt(wal) \subseteq DOMAIN wal
    BY DEF CompactedAt
  <2>2. compact_wal_records(wal) \in Seq(WalRecords)
    BY <1>3, <2>1, Keeping DEF compact_wal_records
  <2>3. failed' = failed /\ wal' \in {wal, compact_wal_records(wal)} /\ cmd' \in {"none", "compact_failed"}
    BY <1>7 DEF CompactWal
  <2> QED
    BY <1>3, <1>4, <2>2, <2>3 DEF Replaying
<1>8. CASE CompactFailed
  <2>1. wal' = wal /\ failed' \in {failed, compact_failed_work_records(failed)} /\ cmd' = "none"
    BY <1>8 DEF CompactFailed
  <2>2. failed' \in Seq(JournalRecords) /\ next_failed_work_id(failed') = next_failed_work_id(failed)
    BY <1>3, <2>1, CompactedJournal
  <2> QED
    BY <1>3, <1>4, <2>1, <2>2 DEF Replaying
<1>9. CASE ReplayAppend
  <2>1. todo \subseteq pending_failed_work(failed) /\ todo # {}
    BY <1>9 DEF ReplayAppend, Replaying
  <2>2. NextItem \in todo
    BY <1>3, <2>1, NextItemExists
  <2>3. NextItem.work \in WalRecords
    BY <1>3, <2>1, <2>2, PendingIds DEF JournalRecords
  <2>4. /\ wal' = Append(wal, NextItem.work) /\ cmd' = "mark"
        /\ UNCHANGED <<failed, todo>>
    BY <1>9 DEF ReplayAppend
  <2>5. wal' \in Seq(WalRecords) /\ wal' # <<>> /\ wal'[Len(wal')] = NextItem.work
    <3>1. PICK x \in WalRecords : x = NextItem.work /\ wal' = Append(wal, x)
      BY <2>3, <2>4
    <3> QED
      BY <1>3, <3>1
  <2>6. NextItem' = NextItem
    BY <2>4 DEF NextItem
  <2>7. Replaying'
    BY <2>1, <2>4, <2>5, <2>6 DEF Replaying
  <2> QED
    BY <1>3, <1>4, <2>4, <2>5, <2>7
<1>10. CASE ReplayMark
  <2>1. todo \subseteq pending_failed_work(failed) /\ todo # {}
    BY <1>10 DEF ReplayMark, Replaying
  <2>2. NextItem \in todo
    BY <1>3, <2>1, NextItemExists
  <2>3. NextItem.id \in Nat
    BY <1>3, <2>1, <2>2, PendingIds DEF JournalRecords
  <2>4. /\ failed' = Append(failed, Requeued(NextItem.id)) /\ todo' = todo \ {NextItem}
        /\ cmd' = "requeue" /\ wal' = wal
    BY <1>10 DEF ReplayMark
  <2>5. /\ failed' \in Seq(JournalRecords)
        /\ next_failed_work_id(failed') = next_failed_work_id(failed)
        /\ \A r \in pending_failed_work(failed) : r.id # NextItem.id => r \in pending_failed_work(failed')
    BY <1>3, <2>3, <2>4, MarkSettles
  <2>6. todo' \subseteq pending_failed_work(failed')
    BY <1>3, <2>1, <2>2, <2>4, <2>5, PendingIds
  <2> QED
    BY <1>3, <1>4, <2>4, <2>5, <2>6 DEF Replaying
<1> QED
  BY <1>5, <1>6, <1>7, <1>8, <1>9, <1>10 DEF Command, OpNext

LEMMA OpInvariance == OpSpec => []OpInv
<1>1. OpInv /\ [Daemon \/ Command]_<<vars, opvars, used, revived, forgotten>> => OpInv'
  <2> SUFFICES ASSUME OpInv, [Daemon \/ Command]_<<vars, opvars, used, revived, forgotten>> PROVE OpInv'
    OBVIOUS
  <2>1. CASE Daemon
    BY <2>1, DaemonKeeps
  <2>2. CASE Command
    BY <2>2, CommandKeeps
  <2>3. CASE UNCHANGED <<vars, opvars, used, revived, forgotten>>
    <3>1. UNCHANGED vars /\ UNCHANGED <<cmd, todo, used>>
      BY <2>3
    <3>2. Typed'
      BY <3>1, NextTyped DEF OpInv
    <3>3. UNCHANGED <<wal, failed, rt, outbox>>
      BY <3>1 DEF vars
    <3>4. NextItem' = NextItem
      BY <3>1 DEF NextItem
    <3> QED
      BY <3>1, <3>2, <3>3, <3>4 DEF OpInv, Alone, Replaying, UsedUp
  <2> QED
    BY <2>1, <2>2, <2>3
<1> QED
  BY <1>1, InitOp, PTL DEF OpSpec

-----------------------------------------------------------------------------
(* The theorems.                                                            *)

\* The journal gets longer by a step of the daemon, under the next id, or by
\* the mark of the next item.
LEMMA JournalGrowth ==
  ASSUME OpInv, [Daemon \/ Command]_<<vars, opvars, used, revived, forgotten>>,
         NEW i \in (Len(failed) + 1)..Len(failed')
  PROVE  \/ failed'[i].type = "exhausted" /\ failed'[i].id = next_failed_work_id(failed)
         \/ failed'[i] = Requeued(NextItem.id) /\ cmd = "mark"
<1>1. failed \in Seq(JournalRecords) /\ Len(failed) \in Nat
  BY DEF OpInv, Typed, TypeOK, DurableOK
<1>2. failed' # failed
  BY <1>1
<1>3. ASSUME NEW x, failed' = Append(failed, x) PROVE failed'[i] = x
  BY <1>1, <1>3
<1>4. CASE Daemon
  <2>1. PICK x : failed' = Append(failed, x) /\ x.type = "exhausted" /\ x.id = next_failed_work_id(failed)
    BY <1>2, <1>4, DaemonJournal DEF OpInv, Daemon
  <2> QED
    BY <1>3, <2>1
<1>5. CASE ReplayMark
  BY <1>3, <1>5 DEF ReplayMark
<1>6. CASE CompactFailed
  <2>1. failed' = compact_failed_work_records(failed)
    BY <1>2, <1>6 DEF CompactFailed
  <2>2. Len(failed') <= Len(failed) /\ Len(failed') \in Nat
    BY <1>1, <2>1, CompactedJournal
  <2> QED
    BY <1>1, <2>2
<1>7. CASE Command /\ ~ ReplayMark /\ ~ CompactFailed
  BY <1>2, <1>7 DEF Command, OpNext, BeginCompact, Begin, CompactWal, BeginReplay,
                    ReplayAppend, EndReplay, KillCommand
<1> QED
  BY <1>2, <1>4, <1>5, <1>6, <1>7 DEF vars

\* No id of the failed-work journal is ever used twice, through any number of
\* failures, compactions, replays, crashes and killed commands.
THEOREM NoIdTwice == OpSpec => IdsAreUnique
<1>1. ASSUME OpInv, [Daemon \/ Command]_<<vars, opvars, used, revived, forgotten>>
      PROVE  \A i \in (Len(failed) + 1)..Len(failed') :
               failed'[i].type = "exhausted" => failed'[i].id \notin used
  <2> SUFFICES ASSUME NEW i \in (Len(failed) + 1)..Len(failed'), failed'[i].type = "exhausted",
                      failed'[i].id \in used
               PROVE  FALSE
    OBVIOUS
  <2>1. failed'[i].id = next_failed_work_id(failed)
    BY <1>1, JournalGrowth DEF Requeued
  <2>2. PICK n \in Nat : n = failed'[i].id /\ n < n
    BY <1>1, <2>1 DEF OpInv, UsedUp
  <2> QED
    BY <2>2
<1>2. OpInv /\ [Daemon \/ Command]_<<vars, opvars, used, revived, forgotten>>
      => [\A i \in (Len(failed) + 1)..Len(failed') :
            failed'[i].type = "exhausted" => failed'[i].id \notin used]_failed
  BY <1>1
<1> QED
  BY <1>2, OpInvariance, PTL DEF OpSpec, IdsAreUnique

\* Work is marked as requeued only when the log holds it, to be replayed or
\* settled already: a command killed between the two requeues it once more
\* and never not at all.
THEOREM MarkedIsInLog == OpSpec => RequeuedIsReplayed
<1> DEFINE WasExhausted(i) == \E j \in ExhaustedAt(failed) :
                         /\ failed[j].id = failed'[i].id
                         /\ failed[j].work \in Unacked(wal) \/ Acked(wal, failed[j].work)
<1>1. ASSUME OpInv, [Daemon \/ Command]_<<vars, opvars, used, revived, forgotten>>,
             NEW i \in (Len(failed) + 1)..Len(failed'), failed'[i].type = "requeued"
      PROVE  WasExhausted(i)
  <2>1. failed'[i] = Requeued(NextItem.id) /\ cmd = "mark"
    BY <1>1, JournalGrowth
  <2>2. /\ todo \subseteq pending_failed_work(failed) /\ todo # {}
        /\ wal # <<>> /\ wal[Len(wal)] = NextItem.work
        /\ wal \in Seq(WalRecords) /\ failed \in Seq(JournalRecords)
    BY <1>1, <2>1 DEF OpInv, Replaying, Typed, TypeOK, DurableOK
  <2>3. PICK r \in pending_failed_work(failed) : r = NextItem
    BY <2>2, NextItemExists
  <2>4. PICK j \in ExhaustedAt(failed) : failed[j] = r
    BY DEF pending_failed_work, PendingAt
  <2>5. failed[j].id = failed'[i].id
    BY <2>1, <2>3, <2>4 DEF Requeued
  <2>6. PICK w \in WalRecords : w = r.work /\ IsTask(w)
    BY <2>2, PendingIds DEF JournalRecords
  <2>7. PICK last \in DOMAIN wal : wal[last] = w /\ \A k \in DOMAIN wal : ~ (k > last)
    <3>1. Len(wal) \in DOMAIN wal /\ \A k \in DOMAIN wal : ~ (k > Len(wal))
      BY <2>2
    <3> QED
      BY <2>2, <2>3, <2>6, <3>1
  <2>8. w \in Unacked(wal) \/ Acked(wal, w)
    BY <2>6, <2>7 DEF Unacked, UnackedAt, PendingDelete, NoLater, IsTask
  <2> QED
    BY <2>4, <2>5, <2>6, <2>8
<1>2. OpInv /\ [Daemon \/ Command]_<<vars, opvars, used, revived, forgotten>>
      => [\A i \in (Len(failed) + 1)..Len(failed') : failed'[i].type = "requeued" => WasExhausted(i)]_failed
  BY <1>1
<1> QED
  BY <1>2, OpInvariance, PTL DEF OpSpec, RequeuedIsReplayed

=============================================================================
