----------------------------- MODULE MCEvidence -----------------------------
(* Instances of Evidence for TLC. *)
EXTENDS Evidence

CONSTANT c1

\* Every thread uses the same handle.
OneClient == [t \in Threads |-> c1]
=============================================================================
