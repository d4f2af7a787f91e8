------------------------------ MODULE MCIngest ------------------------------
(* Small instances of Ingest. *)
EXTENDS Ingest, TLC

NoLegacy   == <<>>
SomeLegacy == <<WorkItem(CHOOSE c \in LegacyChunks : TRUE)>>

Symmetry == Permutations(Paths)
=============================================================================
