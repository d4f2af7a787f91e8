----------------------------- MODULE SourceScan -----------------------------
(***************************************************************************)
(* The two polled sources, one look at a time.  A poll of the directory    *)
(* scanner walks a tree that changes under it: it lists a directory, asks  *)
(* for the metadata of each listed file, and passes over what it cannot    *)
(* read.  A poll of a bucket reads a listing page by page, and a failure   *)
(* gives the whole poll up.  The FileTailer behind both turns what a       *)
(* complete poll has found into events; the planner takes them one by one, *)
(* and a restart seeds the next tailer with the paths it knows as live.    *)
(*                                                                         *)
(* Trees hold regular files and directories (nothing else is scanned).     *)
(* What a tailer observes during a walk nobody can read before its end, so *)
(* the observations of a poll are collected here and applied there.        *)
(***************************************************************************)
EXTENDS Selection, SequencesExt

CONSTANTS
  Paths, Dirs, Root,
  Above,            \* the directories above a file or a directory
  Order,            \* all of them, in the order of their paths
  Contents,         \* what a file can hold
  Stat,             \* the size and the whole seconds of the mtime of a content
  MaxChanges,       \* bound: changes of the tree
  MaxFaults,        \* bound: failed listings of the bucket
  MaxOutages        \* bound: restarts

Nodes   == Dirs \cup Paths
NoFile  == 0
Gone    == <<>>
Unknown == <<0, 0, 0>>      \* no version id

\* Below the root is a tree: between a directory and what is somewhere in it
\* lies, or is, one of its entries.
IsTree ==
  /\ Paths \cap Dirs = {} /\ Root \in Dirs /\ Above \in [Nodes -> SUBSET Dirs]
  /\ Above[Root] = {} /\ \A n \in Nodes \ {Root} : Root \in Above[n]
  /\ \A n \in Nodes : \A d \in Above[n] :
       /\ d # n /\ Above[d] \subseteq Above[n]
       /\ \E e \in Above[n] \cup {n} : Above[e] = Above[d] \cup {d}

\* Assumed by whoever instantiates this module.
ScanAssumption ==
  /\ IsTree
  /\ Order \in Seq(Nodes) /\ ToSet(Order) = Nodes
  /\ \A i, j \in DOMAIN Order : Order[i] = Order[j] => i = j
  /\ Contents \subseteq Nat \ {NoFile} /\ Stat \in [Contents -> Nat]
  /\ {MaxChanges, MaxFaults, MaxOutages} \subseteq Nat

VARIABLES
  source,           \* "filesystem" or "s3"
  tree,             \* the content of each file
  readable,         \* what can be listed, entered and asked for metadata
  changes, errors, outages,
  phase,            \* of the polling task
  todo,             \* what the poll has still to look at
  found,            \* the metadata the poll has observed
  last_seen_version,
  events,           \* drained, and not planned yet
  looked,           \* history: the point in its history at which the poll saw a path
  history, pos, told \* history: see Watch

tailer == <<last_seen_version>>
world  == <<source, tree, readable, changes, history>>
counts == <<errors, outages>>
vars   == <<world, counts, phase, todo, found, tailer, events, looked, pos, told>>

\* The nodes of a set in the order of their paths.
Sorted(nodes) == Keep(Order, {i \in DOMAIN Order : Order[i] \in nodes})

-----------------------------------------------------------------------------
(* What there is to see.                                                    *)

\* A bucket shows the content of an object by its etag; a file system shows
\* no more of a content than its size and the second of its mtime.
Shows(c) == IF source = "s3" THEN <<Stat[c], c>> ELSE <<Stat[c]>>

Reachable(n, can) == source = "s3" \/ Above[n] \cup {n} \subseteq can

Visible(p, t, can) == IF t[p] # NoFile /\ Reachable(p, can) THEN Shows(t[p]) ELSE Gone

\* A change of the tree enters the history of the paths it shows at.
Become(t, can) ==
  /\ changes < MaxChanges /\ changes' = changes + 1
  /\ tree' = t /\ readable' = can
  /\ history' = [p \in Paths |->
                   IF Visible(p, t, can) = Visible(p, tree, readable) THEN history[p]
                   ELSE Append(history[p], Visible(p, t, can))]
  /\ UNCHANGED <<source, counts, phase, todo, found, tailer, events, looked, pos, told>>

Write(p) ==
  \E c \in (Contents \cup {NoFile}) \ {tree[p]} : Become([tree EXCEPT ![p] = c], readable)

Lock(n)   == source = "filesystem" /\ n \in readable /\ Become(tree, readable \ {n})
Unlock(n) == n \in Nodes \ readable /\ Become(tree, readable \cup {n})

-----------------------------------------------------------------------------
(* FileTailer.                                                              *)

\* The hash is injective here.  The etag is present for objects only.
file_version_id(meta) == IF source = "s3" THEN <<meta.stat, meta.etag>> ELSE <<meta.stat>>

observes(p) ==
  \/ p \notin DOMAIN last_seen_version
  \/ last_seen_version[p] # file_version_id(found[p])

\* What observe pushes for the found files in their order, and what
\* complete_scan pushes for a known path that was not among them.
Observed ==
  LET new == Sorted({p \in DOMAIN found : observes(p)})
  IN  [i \in DOMAIN new |-> [path |-> new[i], version |-> file_version_id(found[new[i]])]]

Missing == DOMAIN last_seen_version \ DOMAIN found

\* The observations, complete_scan and drain.  A hash map is retained in any
\* order.
complete_scan ==
  /\ \E order \in SetToSeqs(Missing) :
       events' = Observed \o [i \in DOMAIN order |-> [path |-> order[i], version |-> Gone]]
  /\ last_seen_version' = [p \in DOMAIN found |-> file_version_id(found[p])]

-----------------------------------------------------------------------------
(* DirectoryScannerSource.                                                  *)

Poll ==
  /\ phase = "idle" /\ phase' = "scan"
  /\ todo' = IF source = "filesystem" THEN <<Root>> ELSE Sorted(Paths)
  /\ found' = <<>>
  /\ UNCHANGED <<world, counts, tailer, events, looked, pos, told>>

Scanning(kind) == phase = "scan" /\ source = kind /\ todo # <<>>
Finding(p, meta) == [q \in DOMAIN found \cup {p} |-> IF q = p THEN meta ELSE found[q]]
Looking(ps) == looked' = [p \in Paths |-> IF p \in ps THEN Len(history[p]) ELSE looked[p]]

Listed(d) == Sorted({n \in Nodes : /\ Above[n] = Above[d] \cup {d}
                                   /\ n \in Dirs \/ tree[n] # NoFile})

\* walk_regular_files_inner: a directory that cannot be read is passed over.
ReadDir ==
  /\ Scanning("filesystem") /\ Head(todo) \in Dirs
  /\ LET d == Head(todo)
         entries == IF Reachable(d, readable) THEN Listed(d) ELSE <<>>
     IN  /\ todo' = entries \o Tail(todo)
         /\ Looking({p \in Paths : d \in Above[p] /\ (Above[p] \cup {p}) \cap ToSet(entries) = {}})
  /\ UNCHANGED <<world, counts, phase, found, tailer, events, pos, told>>

\* visit: a file whose metadata cannot be read is passed over.
Visit ==
  /\ Scanning("filesystem") /\ Head(todo) \in Paths
  /\ LET p == Head(todo)
     IN  /\ found' = IF Visible(p, tree, readable) = Gone THEN found
                     ELSE Finding(p, [stat |-> Stat[tree[p]]])
         /\ Looking({p})
  /\ todo' = Tail(todo)
  /\ UNCHANGED <<world, counts, phase, tailer, events, pos, told>>

-----------------------------------------------------------------------------
(* S3PollingSource.                                                         *)

\* The service answers for one more key.
ReadPage ==
  /\ Scanning("s3")
  /\ LET p == Head(todo)
     IN  /\ found' = IF tree[p] = NoFile THEN found
                     ELSE Finding(p, [stat |-> Stat[tree[p]], etag |-> tree[p]])
         /\ Looking({p})
  /\ todo' = Tail(todo)
  /\ UNCHANGED <<world, counts, phase, tailer, events, pos, told>>

\* Mutant: what was listed before the failure counts as a scan.
ListFailsPartially ==
  /\ Scanning("s3") /\ errors < MaxFaults /\ errors' = errors + 1
  /\ todo' = <<>>
  /\ UNCHANGED <<world, outages, phase, found, tailer, events, looked, pos, told>>

\* A page, or the date of an object, cannot be read: nothing is observed and
\* no scan is completed.
ListFails ==
  /\ Scanning("s3") /\ errors < MaxFaults /\ errors' = errors + 1
  /\ phase' = "idle" /\ todo' = <<>> /\ found' = <<>>
  /\ UNCHANGED <<world, outages, tailer, events, looked, pos, told>>

-----------------------------------------------------------------------------
(* Both.                                                                    *)

EndScan ==
  /\ phase = "scan" /\ todo = <<>>
  /\ complete_scan
  /\ phase' = "plan" /\ found' = <<>>
  /\ UNCHANGED <<world, counts, todo, looked, pos, told>>

\* The planner takes the next event; after the last one the task sleeps until
\* the next poll.
Plan ==
  /\ phase = "plan"
  /\ IF events = <<>> THEN phase' = "idle" /\ UNCHANGED <<events, pos, told>>
     ELSE LET e == Head(events)
          IN  /\ told' = [told EXCEPT ![e.path] = e.version]
              /\ pos'  = [pos EXCEPT ![e.path] = looked[e.path]]
              /\ events' = Tail(events) /\ UNCHANGED phase
  /\ UNCHANGED <<world, counts, todo, found, tailer, looked>>

\* The process ends at any step and is started again: the log knows the paths
\* whose last word is a version, and nothing of the events not planned.
Restart ==
  /\ outages < MaxOutages /\ outages' = outages + 1
  /\ phase' = "idle" /\ todo' = <<>> /\ found' = <<>> /\ events' = <<>>
  /\ last_seen_version' = [p \in {q \in Paths : told[q] # Gone} |-> Unknown]
  /\ UNCHANGED <<world, errors, looked, pos, told>>

-----------------------------------------------------------------------------
Init ==
  /\ source \in {"filesystem", "s3"}
  /\ tree \in [Paths -> Contents \cup {NoFile}] /\ readable = Nodes
  /\ changes = 0 /\ errors = 0 /\ outages = 0
  /\ phase = "idle" /\ todo = <<>> /\ found = <<>> /\ events = <<>>
  /\ last_seen_version = <<>>
  /\ looked = [p \in Paths |-> 0]
  /\ history = [p \in Paths |-> <<Visible(p, tree, readable)>>]
  /\ pos = [p \in Paths |-> 0] /\ told = [p \in Paths |-> Gone]

Scan == Poll \/ ReadDir \/ Visit \/ ReadPage \/ EndScan \/ Plan
Next == \/ Scan \/ ListFails \/ Restart
        \/ \E p \in Paths : Write(p)
        \/ \E n \in Nodes : Lock(n) \/ Unlock(n)

\* The runtime task polls its source again and again, and a listing that can
\* be read is read.
Spec == Init /\ [][Next]_vars /\ WF_vars(Scan)

-----------------------------------------------------------------------------
Promise == INSTANCE Watch WITH Paths <- Paths, Gone <- Gone, history <- history,
                               pos <- pos, told <- told

\* The safety part of ImplementsWatch.
SafeWatch == Promise!Safe

\* Over walks that are torn by changes, listings that fail half way and
\* restarts that lose events: the planner is only ever told versions a path
\* has had (that it is gone, only when it could not be seen), never goes back
\* to an older one, and once the tree is left alone it knows each path as it
\* is, as far as the source can tell contents apart.
ImplementsWatch == Promise!Spec
=============================================================================
