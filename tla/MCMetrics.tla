------------------------------ MODULE MCMetrics ------------------------------
(***************************************************************************)
(* TLC instance of Metrics.                                                 *)
(***************************************************************************)
EXTENDS Metrics, TLC

Symmetry == Permutations(Worker) \cup Permutations(Name)
=============================================================================
