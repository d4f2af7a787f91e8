------------------------------ MODULE Operator ------------------------------
(***************************************************************************)
(* The operator commands replay-failed and compact-state, run on the       *)
(* journals of a daemon that is stopped, composed with the daemon itself.  *)
(* A command may be killed between any two of its steps.                   *)
(***************************************************************************)
EXTENDS Ingest

CONSTANT MaxCommands      \* bound: commands started

VARIABLES
  cmd,                    \* the step the running command is about to take
  todo,                   \* replay-failed: pending records still to requeue
  leftover,               \* temporary files a killed compaction left behind
  commands,
  used,                   \* history: the ids exhausted records have had
  revived, forgotten      \* history: see Command

opvars == <<cmd, todo, leftover, commands>>

\* What FailedWorkJournal, FileWal and the daemon keep in memory is not
\* touched by a command.
Memory == <<env, sink, runtime, queue, worker, control, faults>>

Begin(step) ==
  /\ rt = "off" /\ cmd = "none" /\ commands < MaxCommands
  /\ cmd' = step /\ commands' = commands + 1
  /\ UNCHANGED <<Memory, wal, failed, leftover>>

BeginCompact == Begin("compact_wal") /\ UNCHANGED todo

\* rewrite_journal_file: the temporary file is created anew, which fails while
\* an old one is there, then written, synced and renamed over the journal.
CompactWal ==
  /\ cmd = "compact_wal"
  /\ \/ "wal" \in leftover /\ cmd' = "none" /\ UNCHANGED wal
     \/ "wal" \notin leftover /\ cmd' = "compact_failed" /\ wal' = compact_wal_records(wal)
  /\ UNCHANGED <<Memory, failed, todo, leftover, commands>>

CompactFailed ==
  /\ cmd = "compact_failed"
  /\ \/ "failed" \in leftover /\ UNCHANGED failed
     \/ "failed" \notin leftover /\ failed' = compact_failed_work_records(failed)
  /\ cmd' = "none"
  /\ UNCHANGED <<Memory, wal, todo, leftover, commands>>

BeginReplay == Begin("requeue") /\ todo' = pending_failed_work(failed)

\* replay_failed_into_wal goes through the pending records by increasing id.
NextItem == CHOOSE r \in todo : \A q \in todo : r.id <= q.id

\* Mutant: the work is marked as requeued without having been appended.
ReplaySkipsAppend ==
  /\ cmd = "requeue" /\ todo # {}
  /\ cmd' = "mark"
  /\ UNCHANGED <<Memory, wal, failed, todo, leftover, commands>>

ReplayAppend ==
  /\ cmd = "requeue" /\ todo # {}
  /\ wal' = Append(wal, NextItem.work)
  /\ cmd' = "mark"
  /\ UNCHANGED <<Memory, failed, todo, leftover, commands>>

ReplayMark ==
  /\ cmd = "mark"
  /\ failed' = Append(failed, Requeued(NextItem.id))
  /\ todo' = todo \ {NextItem}
  /\ cmd' = "requeue"
  /\ UNCHANGED <<Memory, wal, leftover, commands>>

EndReplay ==
  /\ cmd = "requeue" /\ todo = {}
  /\ cmd' = "none"
  /\ UNCHANGED <<Memory, wal, failed, todo, leftover, commands>>

\* The command is killed, perhaps with its temporary file on disk.
KillCommand ==
  /\ cmd # "none"
  /\ cmd' = "none" /\ todo' = {}
  /\ leftover' \in {leftover} \cup CASE cmd = "compact_wal"    -> {leftover \cup {"wal"}}
                                     [] cmd = "compact_failed" -> {leftover \cup {"failed"}}
                                     [] OTHER                  -> {}
  /\ UNCHANGED <<Memory, wal, failed, commands>>

OpNext == \/ BeginCompact \/ CompactWal \/ CompactFailed
          \/ BeginReplay \/ ReplayAppend \/ ReplayMark \/ EndReplay
          \/ KillCommand

OpInit == /\ Init
          /\ cmd = "none" /\ todo = {} /\ leftover = {} /\ commands = 0
          /\ used = {} /\ revived = {} /\ forgotten = {}

\* The tasks a step appends to the log, and the paths they are about.
NewTasks  == {wal'[i] : i \in {j \in (Len(wal) + 1)..Len(wal') : IsTask(wal'[j])}}
Tasked(S) == {p \in Paths : \E r \in S : IsAbout(r, p)}
OnFiles(S) == {r \in S : r.type = "work_item_v2"}

\* The daemon runs while no command does.
Daemon ==
  /\ cmd = "none" /\ Next
  /\ used' = used \cup {failed'[i].id : i \in ExhaustedAt(failed')}
  /\ revived' = revived \ Tasked(NewTasks)
  /\ forgotten' = forgotten \ Tasked(NewTasks)
  /\ UNCHANGED opvars

\* Two history variables note what a command makes go wrong, until the planner
\* records something about the path again.  revived: a delete has been requeued
\* and will be replayed behind the newer versions of the document.  forgotten:
\* the document may reach the sink though a delete is the last the log will say
\* of it, since compaction has dropped unfinished work in front of the delete, or
\* work has been requeued behind a delete still pending.
Command ==
  /\ OpNext
  /\ revived' = revived \cup {p \in Paths : DeleteDocument(p) \in NewTasks}
  /\ forgotten' = forgotten
       \cup (Tasked(OnFiles(Unacked(wal) \ Unacked(wal'))) \ known_live_document_paths(wal))
       \cup {p \in Tasked(OnFiles(NewTasks)) : DeleteDocument(p) \in Unacked(wal)}
  /\ UNCHANGED used

OpSpec == OpInit /\ [][Daemon \/ Command]_<<vars, opvars, used, revived, forgotten>>

-----------------------------------------------------------------------------
\* No update is lost whatever commands are run between two lives of the daemon
\* and wherever they are killed: a settled document is in sync as in NoLostUpdate,
\* unless a requeued delete has removed the document of a file that is there, or
\* the document of a file that is not was forgotten.  Requeued work may follow
\* newer work of its path in the log, so the version the file has now is asked
\* for too: it must not be pending.
InSyncAfterCommands ==
  \A p \in Paths \ (unwatched \cup overtaken) :
    /\ p \in revived => p \notin Present
    /\ p \in forgotten => p \in Present
    /\ WorkItemV2(Event(p)) \notin Unacked(wal)
    => DocumentInSync(p)

\* Work marked as requeued is in the log: its mark is written only when a
\* restart would replay the work or an acknowledgement has settled it, however
\* often the command was killed before.
RequeuedIsReplayed ==
  [][\A i \in (Len(failed) + 1)..Len(failed') : failed'[i].type = "requeued" =>
       \E j \in ExhaustedAt(failed) :
         /\ failed[j].id = failed'[i].id
         /\ failed[j].work \in Unacked(wal) \/ Acked(wal, failed[j].work)]_failed

\* No id of the failed-work journal is ever used for two exhausted records,
\* through any number of compactions and replays.
IdsAreUnique ==
  [][\A i \in (Len(failed) + 1)..Len(failed') :
       failed'[i].type = "exhausted" => failed'[i].id \notin used]_failed
=============================================================================
