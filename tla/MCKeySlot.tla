----------------------------- MODULE MCKeySlot -----------------------------
(***************************************************************************)
(* TLC instance of KeySlot: any first byte, so that every entry of the      *)
(* table is read, and then the braces and a letter.                           *)
(***************************************************************************)
EXTENDS KeySlot

AllBytes == 0 .. 255
=============================================================================
