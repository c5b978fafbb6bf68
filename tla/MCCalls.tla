------------------------------ MODULE MCCalls ------------------------------
(* What is only ever called, in one instance: the allocator of MCMem, and Lib  *)
(* with small arguments, longs of five bits and buffers of a few characters. A *)
(* behaviour is one of the two: calls of the allocator, or one call of Lib.    *)
EXTENDS MCMem, SequencesExt

VARIABLES call, done, result

libVars == <<call, done, result>>

-----------------------------------------------------------------------------
(* The arguments *)

MCKeys == {"a", "sp", "bs", "ctrl_u", "cr", "idle"}
MCChars == {"a", "b", "nl", "disable", "enable", "restore"}
MCBytes == {0, 1, 128, 165, 255}

\* Addresses of two bits: two routes to the upper half, one of them again by
\* another interface, one to a host, one by default.
MCTable ==
    <<[dst |-> 2, host |-> 1, metric |-> 2, eth_if |-> "a"],
      [dst |-> 2, host |-> 1, metric |-> 1, eth_if |-> "b"],
      [dst |-> 3, host |-> 0, metric |-> 2, eth_if |-> "a"],
      [dst |-> 0, host |-> 2, metric |-> 1, eth_if |-> "a"],
      [dst |-> 2, host |-> 1, metric |-> 3, eth_if |-> "a"]>>

Lib == INSTANCE Lib WITH
    W <- 5, Base <- 4, STDOUT_SIZE <- 2, LineSize <- 3, Cells <- 5,
    Strings <- BoundedSeq({1, 2}, 3),
    Keys <- BoundedSeq(MCKeys, 5),
    Texts <- BoundedSeq(MCChars, 5),
    Table <- MCTable,
    Addresses <- 0 .. 3,
    RouteOps <- BoundedSeq({"add", "del"} \X (1 .. 5), 4),
    Words5 <- 0 .. 2 ^ 11 - 1,
    Buffers16 <- BoundedSeq(MCBytes, 4) \ BoundedSeq(MCBytes, 1)

-----------------------------------------------------------------------------
NoCall == call = [fn |-> "none"] /\ done = FALSE /\ result = <<>>

MCInit == Init /\ (NoCall \/ Lib!Init)

\* A behaviour of Lib is over when its call has returned.
MCNext ==
    \/ call.fn = "none" /\ Next /\ UNCHANGED libVars
    \/ call.fn # "none" /\ Lib!Next /\ UNCHANGED vars
    \/ done /\ UNCHANGED <<vars, libVars>>

MCSpec == MCInit /\ [][MCNext]_<<vars, libVars>>

-----------------------------------------------------------------------------
(* The properties of Lib *)

\* Division and checksums (Lib)
ArithmeticRight == Lib!ArithmeticRight

\* Memory that is moved and copied, strings that are compared, routes (Lib)
MemoryRight == Lib!MemoryRight

\* Numbers as text, the input line and the output buffer (Lib)
TextRight == Lib!TextRight

\* A route is deleted alone (Lib)
DeletesOne == Lib!DeletesOne
=============================================================================
