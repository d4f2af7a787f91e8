------------------------------ MODULE DocSync -------------------------------
(***************************************************************************)
(* What ragloom promises of each document, without logs, queues or         *)
(* retries: the vector database follows the files.  The owner writes and   *)
(* removes files; the program publishes a content a file has had, never an *)
(* older one than it already published, and retracts documents whose file  *)
(* was removed.  Once the files are left alone the two agree.  The sink is *)
(* the content last published of each document; PointStore shows what its  *)
(* points then hold.                                                       *)
(***************************************************************************)
EXTENDS Naturals

CONSTANTS Paths, Stamps
Gone == 0

VARIABLES files, history, removed, sink
vars == <<files, history, removed, sink>>

WriteFile(p) ==
  /\ \E s \in Stamps \ {Gone} :
       /\ files'   = [files EXCEPT ![p] = s]
       /\ history' = [history EXCEPT ![p] = @ \cup {s}]
  /\ UNCHANGED <<removed, sink>>

RemoveFile(p) ==
  /\ files'   = [files EXCEPT ![p] = Gone]
  /\ removed' = removed \cup {p}
  /\ UNCHANGED <<history, sink>>

Publish(p) ==
  /\ \E s \in history[p] : s >= sink[p] /\ sink' = [sink EXCEPT ![p] = s]
  /\ UNCHANGED <<files, history, removed>>

Retract(p) ==
  /\ p \in removed
  /\ sink' = [sink EXCEPT ![p] = Gone]
  /\ UNCHANGED <<files, history, removed>>

Init ==
  /\ files \in [Paths -> Stamps]
  /\ history = [p \in Paths |-> {files[p]} \ {Gone}]
  /\ removed = {}
  /\ sink = [p \in Paths |-> Gone]

Next == \E p \in Paths : WriteFile(p) \/ RemoveFile(p) \/ Publish(p) \/ Retract(p)

\* The database comes to agree with the files, if the files stop changing.
Converges == <>[][UNCHANGED files]_files => <>[](sink = files)

SafeSpec == Init /\ [][Next]_vars
Spec     == SafeSpec /\ Converges
=============================================================================
