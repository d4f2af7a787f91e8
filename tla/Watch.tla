------------------------------- MODULE Watch --------------------------------
(***************************************************************************)
(* What a polled source promises, without walks, listings or restarts.     *)
(* Each path has a history of the versions a look at it would have found,  *)
(* absence among them.  The source tells the planner of versions of that   *)
(* history, may skip some, and never goes back.  Once nothing changes any  *)
(* more, the planner knows each path as it is.                             *)
(***************************************************************************)
EXTENDS Naturals, SequencesExt

CONSTANTS Paths, Gone

VARIABLES
  history,          \* of each path, oldest first
  pos,              \* where in its history the planner knows it; 0 is nowhere
  told              \* the version told last
vars == <<history, pos, told>>

\* Some paths change at once, as when a directory can no longer be read.
Change ==
  /\ \A p \in Paths : \/ history'[p] = history[p]
                      \/ /\ Len(history'[p]) = Len(history[p]) + 1
                         /\ Front(history'[p]) = history[p]
  /\ UNCHANGED <<pos, told>>

\* The planner is told a version that is there now, or was since the last one.
Tell(p) ==
  /\ \E i \in pos[p]..Len(history[p]) :
       /\ i > 0
       /\ pos'  = [pos EXCEPT ![p] = i]
       /\ told' = [told EXCEPT ![p] = history[p][i]]
  /\ UNCHANGED history

Init ==
  /\ \A p \in Paths : Len(history[p]) = 1
  /\ pos  = [p \in Paths |-> 0]
  /\ told = [p \in Paths |-> Gone]

Next == Change \/ \E p \in Paths : Tell(p)

\* The planner comes to know the tree, if the tree stops changing.
Settles ==
  <>[][UNCHANGED history]_history =>
    <>[](\A p \in Paths : told[p] = history[p][Len(history[p])])

Safe == Init /\ [][Next]_vars
Spec == Safe /\ Settles
=============================================================================
