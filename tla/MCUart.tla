------------------------------- MODULE MCUart -------------------------------
(* Small instances of Uart. *)
EXTENDS Uart

CONSTANTS console, other
=============================================================================
