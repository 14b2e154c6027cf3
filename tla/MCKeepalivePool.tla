--------------------------- MODULE MCKeepalivePool ---------------------------
(***************************************************************************)
(* TLC instance of KeepalivePool.                                           *)
(***************************************************************************)
EXTENDS KeepalivePool, TLC

Symmetry == Permutations(Upstream) \cup Permutations(Conn) \cup Permutations(Pool)
=============================================================================
