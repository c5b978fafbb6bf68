------------------------------ MODULE CpuShare ------------------------------
(***************************************************************************)
(* What the scheduler of ERTOS promises, with nothing of how it keeps the  *)
(* promise: one processor, held by one process or by the idle task, and a  *)
(* pool of processes that want it.                                         *)
(*                                                                         *)
(*   - a process that wants the processor is never forgotten: it leaves    *)
(*     the pool only by being given the processor;                         *)
(*   - the processor idles only when nobody wants it;                      *)
(*   - with fairness, whoever wants the processor gets it.                 *)
(*                                                                         *)
(* Sched (kernel/sched.c, kernel/timers.c, kernel/syscall.c) implements    *)
(* this module; see Cpu in that module for the mapping.                    *)
(***************************************************************************)
CONSTANTS Procs, Idle

VARIABLES holder,   \* the process (or Idle) whose instructions execute
          wanting   \* the processes, other than the holder, that want to run

vars == <<holder, wanting>>

Init == holder = Idle /\ wanting = {}

\* Processes start to want the processor: spawned, woken, or set by an event.
Arrive(S) ==
    /\ wanting' = wanting \cup (S \ {holder})
    /\ UNCHANGED holder

\* The processor goes to p. Processes of S (whose timers expired, or the old
\* holder if it was merely preempted) join the pool at the same instant.
Dispatch(p, S) ==
    /\ p \in wanting \cup S
    /\ holder' = p
    /\ wanting' = (wanting \cup S) \ {p}

\* The processor idles, because nobody wants it.
GoIdle ==
    /\ wanting = {}
    /\ holder' = Idle
    /\ UNCHANGED wanting

Next ==
    \/ \E S \in SUBSET Procs : Arrive(S)
    \/ \E p \in Procs, S \in SUBSET Procs : Dispatch(p, S)
    \/ GoIdle

Safe == Init /\ [][Next]_vars

\* Whoever wants the processor is eventually given it.
NoStarvation == \A p \in Procs : (p \in wanting) ~> (holder = p)
=============================================================================
