------------------------------- MODULE MCEth -------------------------------
(* A small instance of Eth. *)
EXTENDS Eth

CONSTANTS p1, p2, p3
=============================================================================
