----------------------------- MODULE MCMultiKey -----------------------------
(* A small instance of MultiKey for TLC. *)
EXTENDS MultiKey

CONSTANTS d, s1, s2

\* Two keys in one slot and a third in another.
Tagged == [x \in Key |-> IF x = d THEN s2 ELSE s1]

MaxArguments == 3
ShortLists == UNION {[1 .. n -> Key] : n \in 1 .. MaxArguments}
=============================================================================
