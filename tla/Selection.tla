----------------------------- MODULE Selection ------------------------------
(***************************************************************************)
(* The filter of an iterator: the entries of a sequence at some of its     *)
(* positions, without the others and in the same order.                    *)
(***************************************************************************)
EXTENDS Naturals, Sequences, FiniteSets

\* The k-th smallest of the positions in idx.
Kth(idx, k) == CHOOSE i \in idx : Cardinality({j \in idx : j <= i}) = k

\* The entries of log at the positions in idx, in log order.
Keep(log, idx) == [k \in 1..Cardinality(idx) |-> log[Kth(idx, k)]]
=============================================================================
