--------------------------- MODULE MCLightThreads ---------------------------
(* The scheduler with an entry thread, the on_abort callback and three more  *)
(* contexts.                                                                 *)
EXTENDS LightThreads

CONSTANTS t1, t2, t3

Three == {entry, abort, t1, t2, t3}
=============================================================================
