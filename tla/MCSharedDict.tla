---------------------------- MODULE MCSharedDict ----------------------------
(***************************************************************************)
(* TLC instance of SharedDict: a short text, of the size of a number, and a *)
(* long one, in a zone with room for two short nodes.                       *)
(***************************************************************************)
EXTENDS SharedDict, TLC

CONSTANTS short, long

MCText == {short, long}
MCTextSize == [v \in MCText |-> IF v = long THEN 2 ELSE 1]
Symmetry == Permutations(Key)
=============================================================================
