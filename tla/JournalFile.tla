---------------------------- MODULE JournalFile -----------------------------
(***************************************************************************)
(* One journal file: how FileWal and FileFailedWorkStore open, append and  *)
(* read it, how compact-state rewrites it, and what kills of the process,  *)
(* write errors and power losses leave of it.                              *)
(*                                                                         *)
(* The file is a sequence of marks: the text of a record, a beginning of   *)
(* it, and the end of a line.  writeln! on an unbuffered File writes text  *)
(* and line end by separate system calls.                                  *)
(***************************************************************************)
EXTENDS Selection

CONSTANTS
  SyncsDirectory,   \* creating the file syncs its directory: failed.ndjson
  EntryDurable,     \* file system: syncing a file makes its directory entry durable
  MaxAppends,       \* bound: appends begun; the records are their numbers
  MaxBreaks         \* bound: kills, write errors and power losses

ASSUME JournalAssumption ==
  /\ {SyncsDirectory, EntryDurable} \subseteq BOOLEAN
  /\ {MaxAppends, MaxBreaks} \subseteq Nat

VARIABLES
  file,      \* what the path names: its marks, and how many are on the disk
  former,    \* what the path may name again after a power loss
  temp,      \* the temporary file of compact-state
  step,      \* what the process at work does next
  record,    \* the record it is appending, or appended last
  promised,  \* history: records whose append has returned Ok
  breaks     \* how many kills, errors and power losses so far

vars == <<file, former, temp, step, record, promised, breaks>>

Text(r)    == [mark |-> "text", of |-> r]
Part(r)    == [mark |-> "part", of |-> r]
EndOfLine  == [mark |-> "end"]
File(m, n) == [exists |-> TRUE, marks |-> m, synced |-> n]
NoFile     == [exists |-> FALSE, marks |-> <<>>, synced |-> 0]
Written(f, m) == [f EXCEPT !.marks = Append(@, m)]

TextsAt(m) == {i \in DOMAIN m : m[i].mark = "text"}

\* read_all: every line that is not blank must be the text of one record.
Readable(m) == \A i \in DOMAIN m :
  /\ m[i].mark # "part"
  /\ m[i].mark = "text" /\ i < Len(m) => m[i + 1].mark = "end"
read_all(m) == {m[i].of : i \in TextsAt(m)}

\* One line for each of the texts.
Lines(texts) ==
  [k \in 1..2 * Len(texts) |-> IF k % 2 = 1 THEN texts[(k + 1) \div 2] ELSE EndOfLine]

-----------------------------------------------------------------------------
(* FileWal::open and FileFailedWorkStore::open. *)

\* The file is created when it does not exist; only then is the directory of
\* failed.ndjson synced.
Create ==
  /\ step = "closed" /\ ~ file.exists
  /\ file' = File(<<>>, 0) /\ former' = {NoFile}
  /\ step' = IF SyncsDirectory THEN "sync_dir" ELSE "idle"
  /\ UNCHANGED <<temp, record, promised, breaks>>

SyncDirectory ==
  /\ step = "sync_dir"
  /\ former' = {} /\ step' = "idle"
  /\ UNCHANGED <<file, temp, record, promised, breaks>>

\* An existing file is validated; a file that cannot be parsed stops the start.
Open ==
  /\ step = "closed" /\ file.exists
  /\ Readable(file.marks)
  /\ step' = "idle"
  /\ UNCHANGED <<file, former, temp, record, promised, breaks>>

Exit ==
  /\ step = "idle" /\ step' = "closed"
  /\ UNCHANGED <<file, former, temp, record, promised, breaks>>

-----------------------------------------------------------------------------
(* append: writeln! and sync_data. *)

Begin ==
  /\ step = "idle" /\ record < MaxAppends
  /\ record' = record + 1 /\ step' = "text"
  /\ UNCHANGED <<file, former, temp, promised, breaks>>

WriteText ==
  /\ step = "text"
  /\ file' = Written(file, Text(record)) /\ step' = "end"
  /\ UNCHANGED <<former, temp, record, promised, breaks>>

WriteEnd ==
  /\ step = "end"
  /\ file' = Written(file, EndOfLine) /\ step' = "sync"
  /\ UNCHANGED <<former, temp, record, promised, breaks>>

\* Mutant: the append returns without sync_data.
SyncSkipped ==
  /\ step = "sync"
  /\ promised' = promised \cup {record}
  /\ step' = "idle"
  /\ UNCHANGED <<file, former, temp, record, breaks>>

Sync ==
  /\ step = "sync"
  /\ file' = [file EXCEPT !.synced = Len(file.marks)]
  /\ former' = IF EntryDurable THEN {} ELSE former
  /\ promised' = promised \cup {record}
  /\ step' = "idle"
  /\ UNCHANGED <<temp, record, breaks>>

\* The append returns an error, perhaps after a part of the text; the handle
\* stays open and later appends go on behind what was written.
AppendError ==
  /\ step \in {"text", "end", "sync"} /\ breaks < MaxBreaks
  /\ breaks' = breaks + 1
  /\ file' \in {file} \cup IF step = "text" THEN {Written(file, Part(record))} ELSE {}
  /\ step' = "idle"
  /\ UNCHANGED <<former, temp, record, promised>>

-----------------------------------------------------------------------------
(* rewrite_journal_file. *)

\* create_new fails while a temporary file is left over.
CreateTemp ==
  /\ step = "closed" /\ file.exists /\ Readable(file.marks)
  /\ ~ temp.exists /\ temp' = File(<<>>, 0)
  /\ step' = "write"
  /\ UNCHANGED <<file, former, record, promised, breaks>>

\* Which records are kept is left open here; they keep their order.
WriteTemp ==
  /\ step = "write"
  /\ \E kept \in SUBSET TextsAt(file.marks) : temp' = File(Lines(Keep(file.marks, kept)), 0)
  /\ step' = "sync_temp"
  /\ UNCHANGED <<file, former, record, promised, breaks>>

SyncTemp ==
  /\ step = "sync_temp"
  /\ temp' = [temp EXCEPT !.synced = Len(temp.marks)] /\ step' = "rename"
  /\ UNCHANGED <<file, former, record, promised, breaks>>

Rename ==
  /\ step = "rename"
  /\ file' = temp /\ temp' = NoFile
  /\ former' = former \cup {file}
  /\ promised' = promised \cap read_all(temp.marks)
  /\ step' = "sync_rename"
  /\ UNCHANGED <<record, breaks>>

SyncRename ==
  /\ step = "sync_rename"
  /\ former' = {} /\ step' = "closed"
  /\ UNCHANGED <<file, temp, record, promised, breaks>>

\* The command fails; only a failed rename removes the temporary file.
RewriteError ==
  /\ step \in {"write", "sync_temp", "rename", "sync_rename"} /\ breaks < MaxBreaks
  /\ breaks' = breaks + 1
  /\ temp' = IF step = "rename" THEN NoFile ELSE temp
  /\ step' = "closed"
  /\ UNCHANGED <<file, former, record, promised>>

-----------------------------------------------------------------------------
(* What happens to the process and the machine. *)

\* A write that is killed may have written a part of the text.
Kill ==
  /\ step # "closed" /\ breaks < MaxBreaks
  /\ breaks' = breaks + 1
  /\ file' \in {file} \cup IF step = "text" THEN {Written(file, Part(record))} ELSE {}
  /\ step' = "closed"
  /\ UNCHANGED <<former, temp, record, promised>>

\* What a power loss leaves of a file: all that was synced, and perhaps more.
Remains(f) == {[f EXCEPT !.marks = SubSeq(@, 1, n), !.synced = n] : n \in f.synced..Len(f.marks)}

PowerLoss ==
  /\ breaks < MaxBreaks /\ breaks' = breaks + 1
  /\ \E f \in {file} \cup former : file' \in Remains(f)
  /\ temp' \in Remains(temp) \cup {NoFile}
  /\ former' = {} /\ step' = "closed"
  /\ UNCHANGED <<record, promised>>

-----------------------------------------------------------------------------
Init ==
  /\ file = NoFile /\ former = {} /\ temp = NoFile
  /\ step = "closed" /\ record = 0 /\ promised = {}
  /\ breaks = 0

Next ==
  \/ Create \/ SyncDirectory \/ Open \/ Exit
  \/ Begin \/ WriteText \/ WriteEnd \/ Sync \/ AppendError
  \/ CreateTemp \/ WriteTemp \/ SyncTemp \/ Rename \/ SyncRename \/ RewriteError
  \/ Kill \/ PowerLoss

Spec == Init /\ [][Next]_vars

-----------------------------------------------------------------------------
\* No record whose append returned Ok is silently lost: a file that can be
\* read holds every one of them, once and in order, whatever the kills, errors,
\* power losses and compactions so far (of a compaction: those it kept).
NoSilentLoss ==
  Readable(file.marks) =>
    /\ promised \subseteq read_all(file.marks)
    /\ \A i, j \in TextsAt(file.marks) : i < j => file.marks[i].of < file.marks[j].of

\* A journal whose final write was truncated is not opened: the start fails.
TruncationIsFound ==
  [][step = "closed" /\ step' = "idle" /\ file.marks # <<>> =>
       file.marks[Len(file.marks)] = EndOfLine]_vars
=============================================================================
