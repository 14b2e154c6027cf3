-------------------------- MODULE MCClusterCommand --------------------------
(* Small instances of ClusterCommand for TLC. *)
EXTENDS ClusterCommand, TLC

CONSTANTS s1, r1

\* Every request has its key in the one slot.
OneSlot == [r \in Req |-> s1]

\* Every request but r1 is one without a key.
Keyless == [r \in Req |-> IF r = r1 THEN s1 ELSE NoSlot]

Symmetric == Permutations(Conn) \cup Permutations(Node)
=============================================================================
