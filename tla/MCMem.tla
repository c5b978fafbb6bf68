------------------------------- MODULE MCMem -------------------------------
(* Small instances of Mem. *)
EXTENDS Mem, TLC

CONSTANTS s1, s2, s3, s4

Blocks == Permutations(Slots)
=============================================================================
