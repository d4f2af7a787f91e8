------------------------------ MODULE MCGauges ------------------------------
(* A small instance of Gauges. *)
EXTENDS Gauges

NoLegacy == <<>>
=============================================================================
