------------------------------- MODULE MCEnds -------------------------------
(* Small instances of the two ends of the pipeline, SourceScan and          *)
(* PointStore.  They share nothing, so only one of them moves in a          *)
(* behaviour: which one is chosen at the start.                             *)
EXTENDS PointStore, TLC

CONSTANTS Files, Dirs, Contents, MaxTreeChanges, MaxErrors, MaxOutages

VARIABLES
  end,              \* the end that moves
  source, tree, readable, treeChanges, errors, outages, phase, todo, found,
  last_seen_version, events, looked, history, pos, told

scanVars == <<source, tree, readable, treeChanges, errors, outages, phase, todo,
              found, last_seen_version, events, looked, history, pos, told>>

\* A file in the root, and one in a directory below it; the first two contents
\* have the same size and are written within a second.
Tree == [Above |-> "root" :> {} @@ "d" :> {"root"} @@ "a" :> {"root"} @@ "b" :> {"root", "d"},
         Order |-> <<"root", "a", "d", "b">>,
         Stat  |-> <<1, 1, 2>>]

Scan == INSTANCE SourceScan
          WITH Paths <- Files, Root <- "root", Above <- Tree.Above, Order <- Tree.Order,
               Stat <- Tree.Stat, MaxChanges <- MaxTreeChanges, MaxFaults <- MaxErrors,
               changes <- treeChanges

ASSUME Scan!ScanAssumption

\* Two documents of their own.
OwnUri   == [p \in Paths |-> p]

\* The end that does not move has one initial state: points of no process in
\* particular, or a source before an empty tree, of which there is nothing to
\* tell.
EndsInit ==
  /\ Init /\ Scan!Init
  /\ \/ end = "source" /\ <<strategy, path>> = CHOOSE x \in Strategies \X Paths : TRUE
     \/ end = "points" /\ source = "s3" /\ \A p \in Files : tree[p] = Scan!NoFile

EndsNext == \/ end = "points" /\ Next /\ UNCHANGED scanVars /\ UNCHANGED end
            \/ end = "source" /\ Scan!Next /\ UNCHANGED vars /\ UNCHANGED end
EndsSpec == /\ EndsInit /\ [][EndsNext]_<<end, vars, scanVars>>
            /\ WF_scanVars(end = "source" /\ Scan!Scan /\ UNCHANGED <<end, vars>>)

\* See SourceScan.
ImplementsWatch == Scan!ImplementsWatch
=============================================================================
