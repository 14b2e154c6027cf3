--------------------------- MODULE MCConfigReload ---------------------------
(* A small instance of ConfigReload for TLC: one worker among others. *)
EXTENDS ConfigReload, TLC

CONSTANT w1

Accepted == [s \in Session |-> w1]
Symmetric == Permutations(Session)
=============================================================================
