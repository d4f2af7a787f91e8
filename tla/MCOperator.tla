----------------------------- MODULE MCOperator -----------------------------
(* Small instances of Operator. *)
EXTENDS Operator

NoLegacy == <<>>

\* Two kinds of history, each with what it takes to lose a document: a delete
\* given up and requeued, or work compacted away between two outages.
Histories == \/ changes <= 3 /\ outages <= 1
             \/ faults = 0 /\ commands <= 1 /\ Len(wal) <= 4
=============================================================================
