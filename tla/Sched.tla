------------------------------- MODULE Sched -------------------------------
(***************************************************************************)
(* The process scheduler of ERTOS with everything that feeds it: boot,     *)
(* the timer interrupt, per-process timers (alarms), and the system calls  *)
(* that block or wake processes.                                           *)
(*                                                                         *)
(* Granularity. System calls (arm_svc_entry) and interrupt handlers        *)
(* (arm_irq_entry) execute with IRQs masked, so each is one action; user   *)
(* code is preempted between any two of them. A system call that asked for *)
(* a reschedule waits for an interrupt before it returns to user mode      *)
(* (irq.S:84-87), so the only step that follows it is an interrupt.        *)
(***************************************************************************)
EXTENDS Naturals, Sequences, FiniteSets

CONSTANTS
    Procs,        \* processes of the boot table (struct proc, less the idle task)
    Idle,         \* idle_task
    BootOrder,    \* boot_processes[]: the order main() spawns them in
    Completions,  \* struct completion objects, each with its wait queue
    Events,       \* bits of an event mask
    QLen,         \* capacity of a completion's wait queue (bfifo_alloc(10))
    TickMod,      \* clkticks counts modulo TickMod (2^32)
    SleepTicks,   \* periods passed to sys_sleep, in ticks
    AlarmTicks,   \* periods passed to sys_alarm, in ticks
    Uses          \* Uses[p]: the system calls the program of p makes

ASSUME SchedAssumption ==
    /\ Idle \notin Procs
    /\ BootOrder \in Seq(Procs)
    /\ QLen \in Nat \ {0}
    /\ TickMod \in Nat \ {0}
    /\ SleepTicks \subseteq Nat
    /\ AlarmTicks \subseteq Nat

VARIABLES
    proc,      \* proc[p]: the struct proc of p
    ring,      \* the circular list procs -> ... -> procs, from its head
    booted,    \* how many entries of the boot table main() has been through
    cur,       \* the current process
    need,      \* _need_reschedule
    enabled,   \* sched_enabled
    clkticks,  \* kernel clock
    wq         \* wq[c]: the wait queue of completion c

vars == <<proc, ring, booted, cur, need, enabled, clkticks, wq>>

-----------------------------------------------------------------------------
(* struct proc *)

\* enum proc_state; "NONE" stands for a struct proc that does not exist yet.
State == {"ACTIVE", "RUN", "SLEEP", "KILLED", "NONE"}

\* A saved register set, reduced to which code it would resume ("spin" is the
\* while(1) behind the alarm trampoline, "fault" the branch-to-self behind a
\* page fault) and to the blocking call that code made last.
Regs == [code : {"main", "handler", "spin", "fault"},
         call : {"none", "wait", "sleep", "event_wait"}]

Tick  == 0 .. TickMod - 1
Never == TickMod - 1              \* 0xFFFFFFFF: no wake-up time
Later(t, d) == (t + d) % TickMod  \* uint32_t addition

Proc == [state : State, event_mask : SUBSET Events,
         regs : Regs, backup_regs : Regs,
         next : Tick, period : Tick, oneshot : BOOLEAN,
         done : BOOLEAN, active : BOOLEAN, last_state : State,
         ticks_wakeup : Tick, last_ticks_wakeup : Tick]

MainRegs    == [code |-> "main", call |-> "none"]
HandlerRegs == [code |-> "handler", call |-> "none"]

\* do_spawn: memset to zero (so last_state is PROC_ACTIVE = 0), then PROC_RUN
\* and no wake-up time.
NewProc ==
    [state |-> "RUN", event_mask |-> {},
     regs |-> MainRegs, backup_regs |-> MainRegs,
     next |-> 0, period |-> 0, oneshot |-> FALSE,
     done |-> FALSE, active |-> FALSE, last_state |-> "ACTIVE",
     ticks_wakeup |-> Never, last_ticks_wakeup |-> 0]

InRing == {ring[i] : i \in 1 .. Len(ring)}

-----------------------------------------------------------------------------
(* Per-process timers *)

\* Fault: the register set is not put back when the alarm handler is done.
HandleTaskTimerDoneKeepsRegs(r) ==
    [r EXCEPT !.active = FALSE, !.state = r.last_state,
              !.ticks_wakeup = r.last_ticks_wakeup]

HandleTaskTimerDone(r) ==
    [r EXCEPT !.regs = r.backup_regs, !.active = FALSE,
              !.state = r.last_state, !.ticks_wakeup = r.last_ticks_wakeup]

\* Fault: the next expiry is computed without the wrap of a uint32_t.
HandleTaskTimerNoWrap(r, t) ==
    [r EXCEPT !.backup_regs = r.regs, !.regs = HandlerRegs,
              !.done = FALSE, !.active = TRUE,
              !.next = IF r.oneshot THEN 0 ELSE t + r.period,
              !.last_state = r.state, !.last_ticks_wakeup = r.ticks_wakeup,
              !.state = "RUN"]

HandleTaskTimer(r, t) ==
    [r EXCEPT !.backup_regs = r.regs, !.regs = HandlerRegs,
              !.done = FALSE, !.active = TRUE,
              !.next = IF r.oneshot THEN 0 ELSE Later(t, r.period),
              !.last_state = r.state, !.last_ticks_wakeup = r.ticks_wakeup,
              !.state = "RUN"]

AlarmDue(r, t) == r.next > 0 /\ ~r.active /\ t >= r.next

\* A sleeper whose time has come joins the run queue.
CheckWakeup(r, t) ==
    IF r.state = "SLEEP" /\ t >= r.ticks_wakeup
      THEN [r EXCEPT !.ticks_wakeup = Never, !.state = "RUN"]
      ELSE r

\* Fault: alarms of a sleeping process are passed over.
CheckTimersRunOnly(r, t) ==
    IF AlarmDue(r, t) /\ r.state = "RUN" THEN HandleTaskTimer(r, t)
    ELSE CheckWakeup(IF r.active /\ r.done THEN HandleTaskTimerDone(r) ELSE r, t)

\* Fault: a sleeper's time is compared with > and not with >= at the last tick.
CheckTimersStrict(r, t) ==
    IF AlarmDue(r, t) THEN HandleTaskTimer(r, t)
    ELSE LET q == IF r.active /\ r.done THEN HandleTaskTimerDone(r) ELSE r
         IN  IF q.state = "SLEEP" /\ t = q.ticks_wakeup + 1
               THEN CheckWakeup(q, t) ELSE q

CheckTimers(r, t) ==
    IF AlarmDue(r, t) THEN HandleTaskTimer(r, t)
    ELSE CheckWakeup(IF r.active /\ r.done THEN HandleTaskTimerDone(r) ELSE r, t)

-----------------------------------------------------------------------------
(* schedule() *)

\* Fault: the preempted process keeps PROC_ACTIVE.
PutBackForgets(tbl) ==
    IF cur = Idle THEN [tbl EXCEPT ![Idle].state = "SLEEP"] ELSE tbl

\* The process that loses the processor: the idle task goes to sleep, a
\* process that did not block goes back to the run queue.
PutBack(tbl) ==
    IF cur = Idle THEN [tbl EXCEPT ![Idle].state = "SLEEP"]
    ELSE IF tbl[cur].state = "ACTIVE" THEN [tbl EXCEPT ![cur].state = "RUN"]
    ELSE tbl

\* Fault: every scan starts at the head of the list.
ScanStartHead == 1

\* The ring position the scan starts at: the head after the idle task, else the
\* successor of cur.
ScanStart ==
    IF cur = Idle THEN 1
    ELSE ((CHOOSE i \in 1 .. Len(ring) : ring[i] = cur) % Len(ring)) + 1

\* The processes in the order in which the scan looks at them.
ScanOrder ==
    LET start == ScanStart
    IN  [k \in 1 .. Len(ring) |-> ring[((start + k - 2) % Len(ring)) + 1]]

\* Fault: the loop stops one process short of a full turn.
EligibleShort(tbl, t, order) ==
    {k \in 1 .. Len(ring) - 1 : CheckTimers(tbl[order[k]], t).state = "RUN"}

\* The positions of the scan at which it would find a process it can run.
Eligible(tbl, t, order) ==
    {k \in 1 .. Len(ring) : CheckTimers(tbl[order[k]], t).state = "RUN"}

First(S) == CHOOSE k \in S : \A j \in S : k <= j

\* The table after a scan that checked the timers of scanned, and swtch(next).
Switched(tbl, t, scanned, next) ==
    [p \in DOMAIN tbl |->
        [(IF p \in scanned THEN CheckTimers(tbl[p], t) ELSE tbl[p])
            EXCEPT !.state = IF p = next THEN "ACTIVE" ELSE @]]

\* schedule(), on the process table tbl and the clock t: put the old process
\* back, scan up to the first process that can run, switch to it or to idle.
Schedule(tbl, t) ==
    LET put   == PutBack(tbl)
        order == ScanOrder
        hits  == Eligible(put, t, order)
        last  == IF hits = {} THEN Len(ring) ELSE First(hits)
        next  == IF hits = {} THEN Idle ELSE order[last]
    IN  /\ cur' = next
        /\ proc' = Switched(put, t, {order[k] : k \in 1 .. last}, next)
        /\ need' = FALSE

\* The end of arm_irq_entry: reschedule if anybody asked for it.
IrqReturn(tbl, t, asked) ==
    IF asked THEN Schedule(tbl, t)
    ELSE proc' = tbl /\ need' = FALSE /\ UNCHANGED cur

RequestSchedule == need' = (need \/ enabled)

-----------------------------------------------------------------------------
(* Boot: main(), with interrupts already on *)

\* spawn(): the first process becomes the head, the others go right behind it.
Spawn ==
    /\ booted < Len(BootOrder)
    /\ LET p == BootOrder[booted + 1]
       IN  /\ ring' = IF ring = <<>> THEN <<p>>
                      ELSE <<Head(ring), p>> \o Tail(ring)
           /\ proc' = [proc EXCEPT ![p] = NewProc]
    /\ booted' = booted + 1
    /\ UNCHANGED <<cur, need, enabled, clkticks, wq>>

\* spawn() returned NULL, out of memory: main() goes on with the next entry.
SpawnFails ==
    /\ booted < Len(BootOrder)
    /\ booted' = booted + 1
    /\ UNCHANGED <<proc, ring, cur, need, enabled, clkticks, wq>>

EnableScheduler ==
    /\ booted = Len(BootOrder)
    /\ ~enabled
    /\ enabled' = TRUE
    /\ UNCHANGED <<proc, ring, booted, cur, need, clkticks, wq>>

-----------------------------------------------------------------------------
(* Interrupts *)

TimerInt ==
    /\ clkticks' = Later(clkticks, 1)
    /\ IrqReturn(proc, Later(clkticks, 1), need \/ enabled)
    /\ UNCHANGED <<ring, booted, enabled, wq>>

QueueSet(q) == {q[i] : i \in 1 .. Len(q)}

\* Fault: the loop dequeues the first waiter before it looks at one.
WakeAllButFirst(tbl, q) ==
    [p \in DOMAIN tbl |-> IF q # <<>> /\ p \in QueueSet(Tail(q))
                            THEN [tbl[p] EXCEPT !.state = "RUN"] ELSE tbl[p]]

\* sys_wake: every process of the queue is set to run, whatever its state.
WakeAll(tbl, q) ==
    [p \in DOMAIN tbl |-> IF p \in QueueSet(q)
                            THEN [tbl[p] EXCEPT !.state = "RUN"] ELSE tbl[p]]

\* A device interrupt that completes c (uart1_intr -> ep93xx_uart_rx -> sys_wake).
DeviceInt(c) ==
    /\ wq' = [wq EXCEPT ![c] = <<>>]
    /\ IrqReturn(WakeAll(proc, wq[c]), clkticks, need)
    /\ UNCHANGED <<ring, booted, enabled, clkticks>>

-----------------------------------------------------------------------------
(* System calls and faults of the current process *)

\* The current process executes user code and is about to make the call k.
Calls(k) ==
    /\ cur # Idle
    /\ ~need
    /\ proc[cur].regs.code \in {"main", "handler"}
    /\ k \in Uses[cur]

Block(k) ==
    proc' = [proc EXCEPT ![cur].state = "SLEEP", ![cur].regs.call = k]

SysWait(c) ==
    /\ Calls("wait")
    /\ Len(wq[c]) < QLen
    /\ wq' = [wq EXCEPT ![c] = Append(@, cur)]
    /\ Block("wait")
    /\ RequestSchedule
    /\ UNCHANGED <<ring, booted, cur, enabled, clkticks>>

SysWake(c) ==
    /\ Calls("wake")
    /\ wq' = [wq EXCEPT ![c] = <<>>]
    /\ proc' = WakeAll(proc, wq[c])
    /\ UNCHANGED <<ring, booted, cur, need, enabled, clkticks>>

SysSleep(d) ==
    /\ Calls("sleep")
    /\ proc' = [proc EXCEPT ![cur].state = "SLEEP", ![cur].regs.call = "sleep",
                            ![cur].ticks_wakeup = Later(clkticks, d)]
    /\ RequestSchedule
    /\ UNCHANGED <<ring, booted, cur, enabled, clkticks, wq>>

SysYield ==
    /\ Calls("yield")
    /\ RequestSchedule
    /\ UNCHANGED <<proc, ring, booted, cur, enabled, clkticks, wq>>

SysEventSet(mask) ==
    /\ Calls("event_set")
    /\ LET hit == {p \in InRing \ {cur} : proc[p].event_mask \cap mask # {}}
       IN  /\ proc' = [p \in DOMAIN proc |->
                         IF p \in hit
                           THEN [proc[p] EXCEPT !.state = "RUN", !.event_mask = @ \ mask]
                           ELSE proc[p]]
           /\ IF hit # {} THEN RequestSchedule ELSE UNCHANGED need
    /\ UNCHANGED <<ring, booted, cur, enabled, clkticks, wq>>

\* Fault: the caller is put to sleep, but nobody is asked to run instead.
SysEventWaitNoResched(mask) ==
    /\ Calls("event_wait")
    /\ proc' = [proc EXCEPT ![cur].state = "SLEEP", ![cur].regs.call = "event_wait",
                            ![cur].event_mask = @ \cup mask]
    /\ UNCHANGED <<ring, booted, cur, need, enabled, clkticks, wq>>

SysEventWait(mask) ==
    /\ Calls("event_wait")
    /\ proc' = [proc EXCEPT ![cur].state = "SLEEP", ![cur].regs.call = "event_wait",
                            ![cur].event_mask = @ \cup mask]
    /\ RequestSchedule
    /\ UNCHANGED <<ring, booted, cur, enabled, clkticks, wq>>

SysAlarm(d, once) ==
    /\ Calls("alarm")
    /\ proc' = [proc EXCEPT ![cur].period = d % TickMod, ![cur].oneshot = once,
                            ![cur].next = Later(clkticks, d)]
    /\ UNCHANGED <<ring, booted, cur, need, enabled, clkticks, wq>>

\* The alarm handler returned to user_timer_trampoline, which says so to the
\* kernel and then spins.
SysUttDone ==
    /\ cur # Idle
    /\ ~need
    /\ proc[cur].regs.code = "handler"
    /\ proc' = [proc EXCEPT ![cur].done = TRUE, ![cur].regs = [@ EXCEPT !.code = "spin"]]
    /\ RequestSchedule
    /\ UNCHANGED <<ring, booted, cur, enabled, clkticks, wq>>

\* user_page_fault: the process that faulted is killed and spins, interrupts on.
UserPageFault ==
    /\ Calls("fault")
    /\ proc' = [proc EXCEPT ![cur].state = "KILLED", ![cur].ticks_wakeup = Never,
                            ![cur].event_mask = {},
                            ![cur].regs = [@ EXCEPT !.code = "fault"]]
    /\ RequestSchedule
    /\ UNCHANGED <<ring, booted, cur, enabled, clkticks, wq>>

-----------------------------------------------------------------------------
Init ==
    /\ proc = [p \in Procs \cup {Idle} |->
                 [NewProc EXCEPT !.state = IF p = Idle THEN "SLEEP" ELSE "NONE"]]
    /\ ring = <<>>
    /\ booted = 0
    /\ cur = Idle
    /\ need = FALSE
    /\ enabled = FALSE
    /\ clkticks = 0
    /\ wq = [c \in Completions |-> <<>>]

Boot == Spawn \/ SpawnFails \/ EnableScheduler

Next ==
    \/ Boot
    \/ TimerInt
    \/ \E c \in Completions : DeviceInt(c) \/ SysWait(c) \/ SysWake(c)
    \/ \E d \in SleepTicks : SysSleep(d)
    \/ SysYield
    \/ \E mask \in SUBSET Events \ {{}} : SysEventSet(mask) \/ SysEventWait(mask)
    \/ \E d \in AlarmTicks, once \in BOOLEAN : SysAlarm(d, once)
    \/ SysUttDone
    \/ UserPageFault

Spec == Init /\ [][Next]_vars

\* The 100 Hz timer keeps interrupting, and main() gets through its boot
\* sequence. Nothing is assumed of user programs or of devices. TimerInt is
\* always enabled and is the only action that moves the clock, so asking that the
\* clock moves for ever is asking for its weak fairness.
ClockMoves == clkticks' = Later(clkticks, 1)

FairSpec == Spec /\ WF_clkticks(ClockMoves) /\ WF_vars(Boot)

-----------------------------------------------------------------------------
(* Properties *)

TypeOK ==
    /\ proc \in [Procs \cup {Idle} -> Proc]
    /\ ring \in Seq(Procs)
    /\ booted \in 0 .. Len(BootOrder)
    /\ cur \in Procs \cup {Idle}
    /\ need \in BOOLEAN
    /\ enabled \in BOOLEAN
    /\ clkticks \in Tick
    /\ wq \in [Completions -> Seq(Procs)]
    /\ \A c \in Completions : Len(wq[c]) <= QLen

\* Only the current process is PROC_ACTIVE: the switch never leaves a second
\* "Currently running" behind, whatever sys_wake, event_set, an alarm or a kill
\* did to the state of either process in between.
OnlyCurActive ==
    \A p \in Procs \cup {Idle} : proc[p].state = "ACTIVE" => p = cur

\* A process that blocked, was killed, or finished its alarm handler does not
\* execute another instruction of its program: a reschedule is pending until
\* the interrupt that takes the processor away from it.
BlockedDoesNotRun ==
    cur # Idle /\ (\/ proc[cur].state \in {"SLEEP", "KILLED"}
                   \/ proc[cur].regs.code = "spin") => need

\* An alarm handler never interrupts another one: the registers kept aside
\* while it runs are those of the main program, and the main program does not
\* run until they are put back.
HandlerNotNested ==
    \A p \in Procs :
        LET r == proc[p]
        IN  /\ r.active => r.regs.code # "main" /\ r.backup_regs.code \notin {"handler", "spin"}
            /\ ~r.active => r.regs.code \notin {"handler", "spin"}

\* A process that uses no alarm and is blocked in wait() is in a wait queue, so
\* a completion can still wake it: sys_wake strands nobody it dequeued.
WaiterIsQueued ==
    \A p \in Procs :
        /\ "alarm" \notin Uses[p]
        /\ proc[p].state = "SLEEP"
        /\ proc[p].regs.call = "wait"
        => \E c \in Completions : p \in QueueSet(wq[c])

\* The processes that want the processor and do not hold it. One whose alarm
\* handler is done only waits for its old state to be put back.
Wanting ==
    {p \in Procs \ {cur} :
        proc[p].state = "RUN" /\ ~(proc[p].active /\ proc[p].done)}

Cpu == INSTANCE CpuShare WITH holder <- cur, wanting <- Wanting

\* The scheduler implements CpuShare: no process that wants to run is dropped
\* by the scan, by a wake-up or by an alarm, and the idle task is selected only
\* if the scan found nobody.
ImplementsCpuShare == Cpu!Safe

\* Round robin: every process that wants the processor gets it, under the timer
\* interrupt alone, even if every other process computes for ever.
EveryoneRuns == Cpu!NoStarvation

\* Times that are not within Cardinality(Procs) ticks of the wrap of the clock
FarFromWrap(t) == t + Cardinality(Procs) <= TickMod

SleepEnds ==
    \A p \in Procs :
        (proc[p].state = "SLEEP" /\ FarFromWrap(proc[p].ticks_wakeup))
            ~> (proc[p].state # "SLEEP")

AlarmFires ==
    \A p \in Procs :
        (proc[p].next > 0 /\ FarFromWrap(proc[p].next) /\ ~proc[p].active)
            ~> (proc[p].active \/ proc[p].next = 0 \/ ~FarFromWrap(proc[p].next))

\* Sleepers and alarms are served although a scan stops at the first process it
\* can run and so looks at the timers of only part of the list. Each process is
\* looked at once in Cardinality(Procs) ticks, so times closer than that to the
\* wrap of the clock are excluded.
TimersExpire == SleepEnds /\ AlarmFires

\* "PROC_SLEEP: Is waiting on something" (proc.h:40): a sleeping process has a
\* wake-up time, an event or a wait queue that can end its sleep. (An alarm does
\* not: its handler puts the process back to sleep.)
SleepIsWaiting ==
    \A p \in Procs :
        proc[p].state = "SLEEP" =>
            \/ proc[p].ticks_wakeup # Never
            \/ proc[p].event_mask # {}
            \/ \E c \in Completions : p \in QueueSet(wq[c])
=============================================================================
