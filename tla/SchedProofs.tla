---------------------------- MODULE SchedProofs ----------------------------
(* Theorems about Sched, for every value of its constants. *)
EXTENDS Sched, SequenceTheorems, WellFoundedInduction, TLAPS

\* The scan stops at a definite place: a set of positions has a first one.
LEMMA FirstIsLeast ==
    ASSUME NEW S \in SUBSET Nat, S # {}
    PROVE  First(S) \in S /\ \A j \in S : First(S) <= j
<1>. DEFINE Less == {ss \in Nat \X Nat : ss[1] < ss[2]}
<1>1. OpToRel(<, Nat) = Less
  BY Zenon DEF OpToRel
<1>2. IsWellFoundedOn(Less, Nat)
  BY <1>1, NatLessThanWellFounded, Zenon
<1>3. PICK k \in S : \A j \in S : <<j, k>> \notin Less
  <2>. HIDE DEF Less
  <2>. QED  BY <1>2, WFMin, Zenon
<1>4. ASSUME NEW j \in S
      PROVE  k <= j
  <2>1. j < k => <<j, k>> \in Less
    OBVIOUS
  <2>2. ~(j < k)
    BY <1>3, <2>1
  <2>. QED  BY <2>2
<1>5. QED
  BY <1>4 DEF First

\* A remainder is a number below the divisor: 32-bit values stay 32-bit values.
LEMMA ModRange ==
    ASSUME NEW n \in Nat \ {0}, NEW a \in Int
    PROVE  a % n \in 0 .. n - 1
OBVIOUS

-----------------------------------------------------------------------------
(* The inductive invariant *)

\* One struct proc: while a handler runs the main program's registers are kept
\* aside and the state to go back to is not PROC_ACTIVE; a process that spins
\* behind the trampoline has told the kernel so.
Good(r) ==
    /\ r \in Proc
    /\ r.active => /\ r.regs.code # "main"
                   /\ r.backup_regs.code \notin {"handler", "spin"}
                   /\ r.last_state # "ACTIVE"
    /\ ~r.active => r.regs.code \notin {"handler", "spin"}
    /\ r.regs.code = "spin" => r.done

\* The process table, while c is the current process.
TableOK(tbl, c) ==
    /\ tbl \in [Procs \cup {Idle} -> Proc]
    /\ \A p \in Procs : Good(tbl[p])
    /\ \A p \in Procs \cup {Idle} : tbl[p].state = "ACTIVE" => p = c

\* The current process is on the list, and only the enabled scheduler puts one
\* there.
CurOK ==
    /\ cur # Idle => cur \in InRing
    /\ cur # Idle \/ need => enabled

IInv == TypeOK /\ TableOK(proc, cur) /\ CurOK /\ BlockedDoesNotRun

-----------------------------------------------------------------------------
(* One struct proc *)

\* uint32_t addition yields a clock value.
LEMMA LaterIsTick ==
    ASSUME NEW t \in Nat, NEW d \in Nat
    PROVE  Later(t, d) \in Tick
BY SchedAssumption, ModRange DEF Later, Tick

\* do_spawn initialises a good struct proc.
LEMMA NewProcGood == Good(NewProc)
<1>1. 0 \in Tick /\ Never \in Tick
  BY SchedAssumption DEF Tick, Never
<1>2. QED
  BY <1>1 DEF Good, NewProc, Proc, Regs, State, MainRegs

\* The timer part of a scan keeps a struct proc good, never makes it current,
\* and never leaves it spinning.
LEMMA CheckTimersGood ==
    ASSUME NEW r, Good(r), r.state # "ACTIVE", NEW t \in Tick
    PROVE  /\ Good(CheckTimers(r, t))
           /\ CheckTimers(r, t).state # "ACTIVE"
           /\ CheckTimers(r, t).regs.code # "spin"
<1>. DEFINE done == IF r.active /\ r.done THEN HandleTaskTimerDone(r) ELSE r
<1>0. 0 \in Tick /\ Never \in Tick /\ t \in Nat /\ r.period \in Nat
  BY SchedAssumption DEF Tick, Never, Good, Proc
<1>1. CASE AlarmDue(r, t)
  <2>1. Later(t, r.period) \in Tick
    BY <1>0, LaterIsTick
  <2>. DEFINE q == HandleTaskTimer(r, t)
  <2>2. q \in Proc
    BY <1>0, <2>1 DEF HandleTaskTimer, HandlerRegs, Good, Proc, Regs, State
  <2>3. /\ q.active /\ q.last_state = r.state /\ q.state = "RUN"
        /\ q.regs = HandlerRegs /\ q.backup_regs = r.regs
    BY DEF HandleTaskTimer, Good, Proc
  <2>4. q.regs.code = "handler"
    BY <2>3 DEF HandlerRegs
  <2>5. r.regs.code \notin {"handler", "spin"}
    BY <1>1 DEF AlarmDue, Good
  <2>6. QED
    BY <1>1, <2>2, <2>3, <2>4, <2>5 DEF CheckTimers, Good
<1>2. CASE ~AlarmDue(r, t)
  <2>1. Good(done) /\ done.state # "ACTIVE" /\ done.regs.code # "spin"
    <3>1. CASE r.active /\ r.done
      <4>. DEFINE q == HandleTaskTimerDone(r)
      <4>1. q \in Proc
        BY DEF HandleTaskTimerDone, Good, Proc
      <4>2. /\ ~q.active /\ q.state = r.last_state /\ q.regs = r.backup_regs
        BY DEF HandleTaskTimerDone, Good, Proc
      <4>3. QED
        BY <3>1, <4>1, <4>2 DEF Good
    <3>2. CASE ~(r.active /\ r.done)
      BY <3>2 DEF Good
    <3>3. QED
      BY <3>1, <3>2
  <2>2. CheckTimers(r, t) = CheckWakeup(done, t)
    BY <1>2 DEF CheckTimers
  <2>. HIDE DEF done
  <2>. DEFINE q == [done EXCEPT !.ticks_wakeup = Never, !.state = "RUN"]
  <2>3. Good(q) /\ q.state = "RUN" /\ q.regs.code # "spin"
    <3>1. q \in Proc
      BY <1>0, <2>1 DEF Good, Proc, State
    <3>2. /\ q.regs = done.regs /\ q.backup_regs = done.backup_regs
          /\ q.active = done.active /\ q.done = done.done
          /\ q.last_state = done.last_state /\ q.state = "RUN"
      BY <2>1 DEF Good, Proc
    <3>3. QED
      BY <2>1, <3>1, <3>2 DEF Good
  <2>4. QED
    BY <2>1, <2>2, <2>3 DEF CheckWakeup
<1>3. QED
  BY <1>1, <1>2

-----------------------------------------------------------------------------
(* schedule() *)

\* Nobody is PROC_ACTIVE once the process that loses the processor is put back.
LEMMA PutBackOK ==
    ASSUME cur \in Procs \cup {Idle}, NEW tbl, TableOK(tbl, cur)
    PROVE  /\ PutBack(tbl) \in [Procs \cup {Idle} -> Proc]
           /\ \A p \in Procs : Good(PutBack(tbl)[p])
           /\ \A p \in Procs \cup {Idle} : PutBack(tbl)[p].state # "ACTIVE"
<1>. DEFINE With(p, s) == [tbl[p] EXCEPT !.state = s]
<1>1. ASSUME NEW p \in Procs \cup {Idle}, NEW s \in {"SLEEP", "RUN"}
      PROVE  /\ With(p, s) \in Proc
             /\ With(p, s).state = s
             /\ Good(tbl[p]) => Good(With(p, s))
  <2>1. tbl[p] \in Proc
    BY DEF TableOK
  <2>2. With(p, s) \in Proc
    BY <2>1 DEF Proc, State
  <2>3. /\ With(p, s).regs = tbl[p].regs /\ With(p, s).backup_regs = tbl[p].backup_regs
        /\ With(p, s).active = tbl[p].active /\ With(p, s).done = tbl[p].done
        /\ With(p, s).last_state = tbl[p].last_state /\ With(p, s).state = s
    BY <2>1 DEF Proc
  <2>4. QED
    BY <2>2, <2>3 DEF Good
<1>2. ASSUME NEW p \in Procs \cup {Idle}
      PROVE  PutBack(tbl)[p] = IF p = cur /\ (cur = Idle \/ tbl[cur].state = "ACTIVE")
                                 THEN With(p, IF cur = Idle THEN "SLEEP" ELSE "RUN")
                                 ELSE tbl[p]
  BY SchedAssumption DEF PutBack, TableOK
<1>3. PutBack(tbl) \in [Procs \cup {Idle} -> Proc]
  <2>1. tbl \in [Procs \cup {Idle} -> Proc]
    BY DEF TableOK
  <2>2. With(cur, "RUN") \in Proc /\ With(cur, "SLEEP") \in Proc
    BY <1>1
  <2>3. QED
    BY <2>1, <2>2 DEF PutBack
<1>4. QED
  BY <1>1, <1>2, <1>3 DEF TableOK

\* The scan looks at processes of the list only, wherever it starts.
LEMMA ScanOrderOK ==
    ASSUME ring \in Seq(Procs), cur # Idle => cur \in InRing, NEW k \in 1 .. Len(ring)
    PROVE  ScanOrder[k] \in InRing /\ ScanOrder[k] \in Procs
<1>1. Len(ring) \in Nat \ {0}
  BY LenProperties
<1>2. ScanStart \in Nat
  <2>1. CASE cur = Idle
    BY <2>1 DEF ScanStart
  <2>2. CASE cur # Idle
    <3>1. \E i \in 1 .. Len(ring) : ring[i] = cur
      BY <2>2 DEF InRing
    <3>. DEFINE pos == CHOOSE i \in 1 .. Len(ring) : ring[i] = cur
    <3>2. ScanStart = (pos % Len(ring)) + 1
      BY <2>2 DEF ScanStart
    <3>3. pos \in 1 .. Len(ring)
      BY <3>1
    <3>. HIDE DEF pos
    <3>4. pos \in Int
      BY <1>1, <3>3
    <3>5. pos % Len(ring) \in 0 .. Len(ring) - 1
      BY <1>1, <3>4, ModRange
    <3>6. QED
      BY <1>1, <3>2, <3>5
  <2>3. QED
    BY <2>1, <2>2
<1>. DEFINE i == ((ScanStart + k - 2) % Len(ring)) + 1
<1>3. i \in 1 .. Len(ring)
  <2>1. ScanStart + k - 2 \in Int
    BY <1>1, <1>2
  <2>2. (ScanStart + k - 2) % Len(ring) \in 0 .. Len(ring) - 1
    BY <1>1, <2>1, ModRange
  <2>3. QED
    BY <1>1, <2>2
<1>4. ScanOrder[k] = ring[i]
  BY DEF ScanOrder
<1>. HIDE DEF i
<1>5. QED
  BY <1>3, <1>4, ElementOfSeq DEF InRing

\* schedule() re-establishes the invariant from any good table: the process it
\* selects is the only PROC_ACTIVE one, can run, and no reschedule is pending.
LEMMA ScheduleOK ==
    ASSUME ring \in Seq(Procs), cur \in Procs \cup {Idle}, cur # Idle => cur \in InRing,
           NEW tbl, TableOK(tbl, cur), NEW t \in Tick, enabled,
           Schedule(tbl, t), UNCHANGED <<ring, enabled>>
    PROVE  /\ cur' \in Procs \cup {Idle} /\ need' = FALSE
           /\ TableOK(proc', cur') /\ CurOK' /\ BlockedDoesNotRun'
<1>. DEFINE put   == PutBack(tbl)
            order == ScanOrder
            hits  == Eligible(put, t, order)
            last  == IF hits = {} THEN Len(ring) ELSE First(hits)
            next  == IF hits = {} THEN Idle ELSE order[last]
            scanned == {order[k] : k \in 1 .. last}
<1>1. cur' = next /\ need' = FALSE /\ proc' = Switched(put, t, scanned, next)
  BY DEF Schedule
<1>2. /\ put \in [Procs \cup {Idle} -> Proc]
      /\ \A p \in Procs : Good(put[p])
      /\ \A p \in Procs \cup {Idle} : put[p].state # "ACTIVE"
  BY PutBackOK
<1>3. \A k \in 1 .. Len(ring) : order[k] \in InRing /\ order[k] \in Procs
  BY ScanOrderOK
<1>4. Len(ring) \in Nat /\ hits \subseteq 1 .. Len(ring)
  BY LenProperties DEF Eligible
<1>5. hits # {} => last \in hits
  BY <1>4, FirstIsLeast
<1>6. scanned \subseteq Procs
  <2>1. last \in 0 .. Len(ring)
    BY <1>4, <1>5
  <2>2. QED
    BY <1>3, <1>4, <2>1
<1>7. next \in Procs \cup {Idle} /\ (next # Idle => next \in InRing \cap scanned)
  <2>1. CASE hits = {}
    BY <2>1
  <2>2. CASE hits # {}
    <3>1. last \in 1 .. Len(ring)
      BY <1>4, <1>5, <2>2
    <3>2. order[last] \in scanned
      BY <3>1
    <3>3. QED
      BY <1>3, <2>2, <3>1, <3>2
  <2>3. QED
    BY <2>1, <2>2
<1>. DEFINE timed(p) == IF p \in scanned THEN CheckTimers(put[p], t) ELSE put[p]
<1>8. proc' = [p \in Procs \cup {Idle} |->
                 [timed(p) EXCEPT !.state = IF p = next THEN "ACTIVE" ELSE @]]
  BY <1>1, <1>2, Zenon DEF Switched
<1>. HIDE DEF put, order, hits, last, next, scanned
<1>9. ASSUME NEW p \in Procs
      PROVE  /\ Good(timed(p)) /\ timed(p).state # "ACTIVE"
             /\ p \in scanned => timed(p).regs.code # "spin"
  BY <1>2, CheckTimersGood
<1>10. Idle \notin scanned /\ timed(Idle) = put[Idle]
  BY <1>6, SchedAssumption
<1>11. ASSUME NEW p \in Procs
       PROVE  /\ Good(proc'[p])
              /\ proc'[p].state = "ACTIVE" <=> p = next
              /\ proc'[p].regs = timed(p).regs
  <2>. DEFINE q == timed(p)
              s == IF p = next THEN "ACTIVE" ELSE q.state
              r == [q EXCEPT !.state = s]
  <2>1. proc'[p] = r
    BY <1>8
  <2>2. Good(q) /\ q.state # "ACTIVE"
    BY <1>9
  <2>. HIDE DEF q
  <2>3. r \in Proc
    BY <2>2 DEF Good, Proc, State
  <2>4. /\ r.regs = q.regs /\ r.backup_regs = q.backup_regs /\ r.active = q.active
        /\ r.done = q.done /\ r.last_state = q.last_state /\ r.state = s
    BY <2>2 DEF Good, Proc
  <2>5. Good(r) /\ (r.state = "ACTIVE" <=> p = next)
    BY <2>2, <2>3, <2>4 DEF Good
  <2>6. QED
    BY <2>1, <2>4, <2>5 DEF q
<1>12. proc'[Idle] \in Proc /\ (proc'[Idle].state = "ACTIVE" => next = Idle)
  <2>1. proc'[Idle] = [put[Idle] EXCEPT !.state = IF Idle = next THEN "ACTIVE" ELSE @]
    BY <1>8, <1>10
  <2>2. put[Idle] \in Proc /\ put[Idle].state # "ACTIVE"
    BY <1>2
  <2>3. QED
    BY <2>1, <2>2 DEF Proc, State
<1>13. TableOK(proc', cur')
  <2>1. proc' \in [Procs \cup {Idle} -> Proc]
    <3>1. \A p \in Procs \cup {Idle} : proc'[p] \in Proc
      BY <1>11, <1>12 DEF Good
    <3>2. QED
      BY <1>8, <3>1
  <2>2. QED
    BY <1>1, <1>11, <1>12, <2>1 DEF TableOK
<1>14. CurOK'
  BY <1>1, <1>7 DEF CurOK, InRing
<1>15. BlockedDoesNotRun'
  <2>1. next # Idle => next \in Procs /\ next \in scanned
    BY <1>7
  <2>2. next # Idle => proc'[next].state = "ACTIVE" /\ proc'[next].regs.code # "spin"
    BY <1>9, <1>11, <2>1
  <2>3. QED
    BY <1>1, <2>2 DEF BlockedDoesNotRun
<1>16. QED
  BY <1>1, <1>7, <1>13, <1>14, <1>15

-----------------------------------------------------------------------------
(* System calls *)

\* A system call that leaves everybody else alone and its caller good.
LEMMA CallerOnly ==
    ASSUME TableOK(proc, cur), cur \in Procs, NEW r, Good(r)
    PROVE  TableOK([proc EXCEPT ![cur] = r], cur)
BY DEF TableOK, Good

\* Putting the caller to sleep in the call k.
LEMMA BlockedGood ==
    ASSUME NEW r, Good(r), NEW k \in {"none", "wait", "sleep", "event_wait"}
    PROVE  Good([r EXCEPT !.state = "SLEEP", !.regs.call = k])
<1>. DEFINE q == [r EXCEPT !.state = "SLEEP", !.regs.call = k]
<1>1. r \in Proc /\ r.regs \in Regs
  BY DEF Good, Proc
<1>2. q \in Proc
  BY <1>1 DEF Proc, State, Regs
<1>3. /\ q.backup_regs = r.backup_regs /\ q.active = r.active
      /\ q.done = r.done /\ q.last_state = r.last_state
  BY <1>1 DEF Proc
<1>4. q.regs.code = r.regs.code
  BY <1>1 DEF Proc, Regs
<1>5. QED
  BY <1>2, <1>3, <1>4 DEF Good

\* What every system call may rely on: its caller is a process, it runs, and the
\* scheduler is on.
LEMMA CallerOK ==
    ASSUME IInv, NEW k, Calls(k)
    PROVE  cur \in Procs /\ Good(proc[cur]) /\ proc[cur].regs.code # "spin"
BY DEF IInv, TypeOK, TableOK, Calls

\* A call that asked for a reschedule satisfies BlockedDoesNotRun at once.
LEMMA RescheduleOK ==
    ASSUME IInv, cur # Idle, RequestSchedule, UNCHANGED <<cur, ring, enabled>>
    PROVE  need' = TRUE /\ CurOK' /\ BlockedDoesNotRun'
<1>1. enabled
  BY DEF IInv, CurOK
<1>2. need' = TRUE
  BY <1>1 DEF RequestSchedule
<1>3. QED
  BY <1>1, <1>2 DEF IInv, CurOK, InRing, BlockedDoesNotRun

\* sys_wait blocks its caller with a reschedule pending, in a queue with room for it.
LEMMA SysWaitOK ==
    ASSUME IInv, NEW c \in Completions, SysWait(c)
    PROVE  IInv'
<1>. DEFINE r == [proc[cur] EXCEPT !.state = "SLEEP", !.regs.call = "wait"]
<1>1. cur \in Procs /\ Good(proc[cur])
  BY CallerOK DEF SysWait
<1>2. proc' = [proc EXCEPT ![cur] = r]
  BY DEF SysWait, Block
<1>3. TableOK(proc', cur')
  BY <1>1, <1>2, BlockedGood, CallerOnly DEF SysWait, IInv
<1>4. CurOK' /\ BlockedDoesNotRun' /\ need' = TRUE
  BY <1>1, SchedAssumption, RescheduleOK DEF SysWait
<1>5. wq' \in [Completions -> Seq(Procs)] /\ \A d \in Completions : Len(wq'[d]) <= QLen
  <2>1. /\ wq \in [Completions -> Seq(Procs)] /\ Len(wq[c]) < QLen /\ QLen \in Nat
        /\ \A d \in Completions : Len(wq[d]) <= QLen
        /\ wq' = [wq EXCEPT ![c] = Append(wq[c], cur)]
    BY SchedAssumption DEF SysWait, IInv, TypeOK
  <2>2. Append(wq[c], cur) \in Seq(Procs) /\ Len(Append(wq[c], cur)) <= QLen
    BY <1>1, <2>1
  <2>3. QED
    BY <2>1, <2>2
<1>6. TypeOK'
  BY <1>3, <1>4, <1>5 DEF SysWait, IInv, TypeOK, TableOK
<1>7. QED
  BY <1>3, <1>4, <1>6 DEF IInv

\* sys_sleep blocks its caller with a reschedule pending.
LEMMA SysSleepOK ==
    ASSUME IInv, NEW d \in SleepTicks, SysSleep(d)
    PROVE  IInv'
<1>. DEFINE b == [proc[cur] EXCEPT !.state = "SLEEP", !.regs.call = "sleep"]
            r == [b EXCEPT !.ticks_wakeup = Later(clkticks, d)]
<1>1. cur \in Procs /\ Good(proc[cur]) /\ Later(clkticks, d) \in Tick
  <2>1. clkticks \in Nat /\ d \in Nat
    BY SchedAssumption DEF IInv, TypeOK, Tick
  <2>2. QED
    BY <2>1, CallerOK, LaterIsTick DEF SysSleep
<1>2. proc' = [proc EXCEPT ![cur] = r]
  BY <1>1 DEF SysSleep, IInv, TypeOK
<1>3. Good(r)
  <2>1. Good(b)
    BY <1>1, BlockedGood
  <2>. HIDE DEF b
  <2>2. r \in Proc
    BY <1>1, <2>1 DEF Good, Proc
  <2>3. /\ r.regs = b.regs /\ r.backup_regs = b.backup_regs /\ r.active = b.active
        /\ r.done = b.done /\ r.last_state = b.last_state
    BY <2>1 DEF Good, Proc
  <2>4. QED
    BY <2>1, <2>2, <2>3 DEF Good
<1>4. TableOK(proc', cur')
  BY <1>1, <1>2, <1>3, CallerOnly DEF SysSleep, IInv
<1>5. CurOK' /\ BlockedDoesNotRun' /\ need' = TRUE
  BY <1>1, SchedAssumption, RescheduleOK DEF SysSleep
<1>6. QED
  BY <1>4, <1>5 DEF SysSleep, IInv, TypeOK, TableOK

\* sys_yield only asks for a reschedule.
LEMMA SysYieldOK ==
    ASSUME IInv, SysYield
    PROVE  IInv'
<1>1. cur \in Procs
  BY CallerOK DEF SysYield
<1>2. CurOK' /\ BlockedDoesNotRun' /\ need' = TRUE
  BY <1>1, SchedAssumption, RescheduleOK DEF SysYield
<1>3. QED
  BY <1>2 DEF SysYield, IInv, TypeOK, TableOK

\* sys_event_wait blocks its caller with a reschedule pending.
LEMMA SysEventWaitOK ==
    ASSUME IInv, NEW mask \in SUBSET Events, SysEventWait(mask)
    PROVE  IInv'
<1>. DEFINE b == [proc[cur] EXCEPT !.state = "SLEEP", !.regs.call = "event_wait"]
            r == [b EXCEPT !.event_mask = @ \cup mask]
<1>1. cur \in Procs /\ Good(proc[cur])
  BY CallerOK DEF SysEventWait
<1>2. proc' = [proc EXCEPT ![cur] = r]
  BY <1>1 DEF SysEventWait, IInv, TypeOK
<1>3. Good(r)
  <2>1. Good(b)
    BY <1>1, BlockedGood
  <2>. HIDE DEF b
  <2>2. r \in Proc
    BY <2>1 DEF Good, Proc
  <2>3. /\ r.regs = b.regs /\ r.backup_regs = b.backup_regs /\ r.active = b.active
        /\ r.done = b.done /\ r.last_state = b.last_state
    BY <2>1 DEF Good, Proc
  <2>4. QED
    BY <2>1, <2>2, <2>3 DEF Good
<1>4. TableOK(proc', cur')
  BY <1>1, <1>2, <1>3, CallerOnly DEF SysEventWait, IInv
<1>5. CurOK' /\ BlockedDoesNotRun' /\ need' = TRUE
  BY <1>1, SchedAssumption, RescheduleOK DEF SysEventWait
<1>6. QED
  BY <1>4, <1>5 DEF SysEventWait, IInv, TypeOK, TableOK

\* sys_alarm sets timer fields of its caller to clock values and nothing else.
LEMMA SysAlarmOK ==
    ASSUME IInv, NEW d \in AlarmTicks, NEW once \in BOOLEAN, SysAlarm(d, once)
    PROVE  IInv'
<1>. DEFINE r == [proc[cur] EXCEPT !.period = d % TickMod, !.oneshot = once,
                                   !.next = Later(clkticks, d)]
<1>1. cur \in Procs /\ Good(proc[cur])
  BY CallerOK DEF SysAlarm
<1>2. Later(clkticks, d) \in Tick /\ d % TickMod \in Tick
  <2>1. clkticks \in Nat /\ d \in Nat
    BY SchedAssumption DEF IInv, TypeOK, Tick
  <2>2. d % TickMod \in 0 .. TickMod - 1
    BY <2>1, SchedAssumption, ModRange
  <2>3. QED
    BY <2>1, <2>2, LaterIsTick DEF Tick
<1>3. proc' = [proc EXCEPT ![cur] = r]
  BY <1>1 DEF SysAlarm, IInv, TypeOK
<1>4. r \in Proc
  BY <1>1, <1>2 DEF Good, Proc
<1>5. /\ r.regs = proc[cur].regs /\ r.backup_regs = proc[cur].backup_regs
      /\ r.active = proc[cur].active /\ r.done = proc[cur].done
      /\ r.last_state = proc[cur].last_state /\ r.state = proc[cur].state
  BY <1>1 DEF Good, Proc
<1>. HIDE DEF r
<1>6. Good(r)
  BY <1>1, <1>4, <1>5 DEF Good
<1>7. TableOK(proc', cur')
  BY <1>1, <1>3, <1>6, CallerOnly DEF SysAlarm, IInv
<1>8. proc'[cur] = r
  BY <1>1, <1>3 DEF IInv, TypeOK
<1>9. CurOK' /\ BlockedDoesNotRun'
  BY <1>5, <1>8 DEF SysAlarm, IInv, CurOK, InRing, BlockedDoesNotRun
<1>10. QED
  BY <1>7, <1>9 DEF SysAlarm, IInv, TypeOK, TableOK

\* A handler that is done spins with a reschedule pending.
LEMMA SysUttDoneOK ==
    ASSUME IInv, SysUttDone
    PROVE  IInv'
<1>. DEFINE r == [proc[cur] EXCEPT !.done = TRUE, !.regs = [@ EXCEPT !.code = "spin"]]
<1>1. cur \in Procs /\ Good(proc[cur]) /\ proc[cur].regs.code = "handler"
  BY DEF SysUttDone, IInv, TypeOK, TableOK
<1>2. proc' = [proc EXCEPT ![cur] = r]
  BY <1>1 DEF SysUttDone, IInv, TypeOK
<1>3. Good(r)
  <2>1. proc[cur] \in Proc /\ proc[cur].regs \in Regs
    BY <1>1 DEF Good, Proc
  <2>2. r \in Proc /\ r.regs.code = "spin"
    BY <2>1 DEF Proc, Regs
  <2>3. /\ r.backup_regs = proc[cur].backup_regs /\ r.active = proc[cur].active
        /\ r.done /\ r.last_state = proc[cur].last_state
    BY <2>1 DEF Proc
  <2>4. QED
    BY <1>1, <2>2, <2>3 DEF Good
<1>4. TableOK(proc', cur')
  BY <1>1, <1>2, <1>3, CallerOnly DEF SysUttDone, IInv
<1>5. CurOK' /\ BlockedDoesNotRun' /\ need' = TRUE
  BY <1>1, SchedAssumption, RescheduleOK DEF SysUttDone
<1>6. QED
  BY <1>4, <1>5 DEF SysUttDone, IInv, TypeOK, TableOK

\* A process that faults is killed with a reschedule pending.
LEMMA UserPageFaultOK ==
    ASSUME IInv, UserPageFault
    PROVE  IInv'
<1>. DEFINE r == [proc[cur] EXCEPT !.state = "KILLED", !.ticks_wakeup = Never,
                      !.event_mask = {}, !.regs = [@ EXCEPT !.code = "fault"]]
<1>1. cur \in Procs /\ Good(proc[cur])
  BY CallerOK DEF UserPageFault
<1>2. proc' = [proc EXCEPT ![cur] = r]
  BY <1>1 DEF UserPageFault, IInv, TypeOK
<1>3. Good(r)
  <2>1. proc[cur] \in Proc /\ proc[cur].regs \in Regs /\ Never \in Tick
    BY <1>1, SchedAssumption DEF Good, Proc, Never, Tick
  <2>2. r \in Proc /\ r.regs.code = "fault"
    BY <2>1 DEF Proc, Regs, State
  <2>3. /\ r.backup_regs = proc[cur].backup_regs /\ r.active = proc[cur].active
        /\ r.last_state = proc[cur].last_state
    BY <2>1 DEF Proc
  <2>4. QED
    BY <1>1, <2>2, <2>3 DEF Good
<1>4. TableOK(proc', cur')
  BY <1>1, <1>2, <1>3, CallerOnly DEF UserPageFault, IInv
<1>5. CurOK' /\ BlockedDoesNotRun' /\ need' = TRUE
  BY <1>1, SchedAssumption, RescheduleOK DEF UserPageFault
<1>6. QED
  BY <1>4, <1>5 DEF UserPageFault, IInv, TypeOK, TableOK

\* Setting processes to run, clearing event bits on the way, keeps a table good
\* and changes nobody's registers.
LEMMA RunGood ==
    ASSUME NEW r \in Proc, NEW m \in SUBSET Events, NEW q,
           q = [r EXCEPT !.state = "RUN", !.event_mask = m]
    PROVE  q \in Proc /\ q.state = "RUN" /\ q.regs = r.regs /\ (Good(r) => Good(q))
<1>1. q \in Proc
  BY DEF Proc, State
<1>2. /\ q.regs = r.regs /\ q.backup_regs = r.backup_regs /\ q.active = r.active
      /\ q.done = r.done /\ q.last_state = r.last_state /\ q.state = "RUN"
  BY DEF Proc
<1>3. QED
  BY <1>1, <1>2 DEF Good

\* Waking a queue keeps the table good: it makes nobody current, and changes no
\* registers.
LEMMA WakeAllOK ==
    ASSUME NEW tbl, NEW c, TableOK(tbl, c), NEW q
    PROVE  /\ TableOK(WakeAll(tbl, q), c)
           /\ \A p \in Procs : /\ WakeAll(tbl, q)[p].regs = tbl[p].regs
                               /\ WakeAll(tbl, q)[p].state \in {"RUN", tbl[p].state}
<1>1. ASSUME NEW p \in Procs \cup {Idle}
      PROVE  /\ WakeAll(tbl, q)[p] \in Proc
             /\ WakeAll(tbl, q)[p].regs = tbl[p].regs
             /\ WakeAll(tbl, q)[p].state \in {"RUN", tbl[p].state}
             /\ Good(tbl[p]) => Good(WakeAll(tbl, q)[p])
  <2>. DEFINE woken == [tbl[p] EXCEPT !.state = "RUN"]
  <2>1. tbl[p] \in Proc /\ WakeAll(tbl, q)[p] \in {tbl[p], woken}
    BY DEF WakeAll, TableOK
  <2>2. woken \in Proc
    BY <2>1 DEF Proc, State
  <2>3. /\ woken.regs = tbl[p].regs /\ woken.backup_regs = tbl[p].backup_regs
        /\ woken.active = tbl[p].active /\ woken.done = tbl[p].done
        /\ woken.last_state = tbl[p].last_state /\ woken.state = "RUN"
    BY <2>1 DEF Proc
  <2>4. Good(tbl[p]) => Good(woken)
    BY <2>2, <2>3 DEF Good
  <2>5. QED
    BY <2>1, <2>2, <2>3, <2>4
<1>2. WakeAll(tbl, q) \in [Procs \cup {Idle} -> Proc]
  BY <1>1 DEF WakeAll, TableOK
<1>3. QED
  BY <1>1, <1>2 DEF TableOK

\* sys_wake changes states to PROC_RUN and empties one queue.
LEMMA SysWakeOK ==
    ASSUME IInv, NEW c \in Completions, SysWake(c)
    PROVE  IInv'
<1>1. cur \in Procs /\ ~need
  BY CallerOK DEF SysWake, Calls
<1>2. /\ TableOK(proc', cur')
      /\ proc'[cur].regs = proc[cur].regs
      /\ proc'[cur].state \in {"RUN", proc[cur].state}
  BY <1>1, WakeAllOK DEF SysWake, IInv
<1>3. CurOK' /\ BlockedDoesNotRun'
  BY <1>1, <1>2 DEF SysWake, IInv, CurOK, InRing, BlockedDoesNotRun
<1>4. wq' \in [Completions -> Seq(Procs)] /\ \A d \in Completions : Len(wq'[d]) <= QLen
  <2>1. <<>> \in Seq(Procs) /\ Len(<<>>) <= QLen
    BY SchedAssumption
  <2>2. QED
    BY <2>1 DEF SysWake, IInv, TypeOK
<1>5. QED
  BY <1>2, <1>3, <1>4 DEF SysWake, IInv, TypeOK, TableOK

\* sys_event_set sets processes other than its caller to run, so the caller stays
\* the one that is PROC_ACTIVE.
LEMMA SysEventSetOK ==
    ASSUME IInv, NEW mask \in SUBSET Events, SysEventSet(mask)
    PROVE  IInv'
<1>. DEFINE hit == {p \in InRing \ {cur} : proc[p].event_mask \cap mask # {}}
            q(p) == [proc[p] EXCEPT !.state = "RUN", !.event_mask = @ \ mask]
<1>1. cur \in Procs /\ ~need
  BY CallerOK DEF SysEventSet, Calls
<1>2. proc' = [p \in Procs \cup {Idle} |-> IF p \in hit THEN q(p) ELSE proc[p]]
  BY DEF SysEventSet, IInv, TypeOK
<1>3. ASSUME NEW p \in Procs \cup {Idle}
      PROVE  /\ q(p) \in Proc /\ q(p).state = "RUN"
             /\ Good(proc[p]) => Good(q(p))
  <2>1. proc[p] \in Proc
    BY DEF IInv, TypeOK
  <2>2. proc[p].event_mask \ mask \in SUBSET Events
    BY <2>1 DEF Proc
  <2>3. q(p) = [proc[p] EXCEPT !.state = "RUN", !.event_mask = proc[p].event_mask \ mask]
    BY <2>1 DEF Proc
  <2>. HIDE DEF q
  <2>4. QED
    BY <2>1, <2>2, <2>3, RunGood
<1>4. cur \notin hit
  OBVIOUS
<1>. HIDE DEF hit, q
<1>5. TableOK(proc', cur')
  <2>1. \A p \in Procs \cup {Idle} : proc'[p] \in {proc[p], q(p)}
    BY <1>2
  <2>2. proc' \in [Procs \cup {Idle} -> Proc]
    BY <1>2, <1>3 DEF IInv, TypeOK
  <2>3. \A p \in Procs : Good(proc'[p])
    BY <1>3, <2>1 DEF IInv, TableOK
  <2>4. \A p \in Procs \cup {Idle} : proc'[p].state = "ACTIVE" => p = cur
    BY <1>3, <2>1 DEF IInv, TableOK
  <2>5. QED
    BY <2>2, <2>3, <2>4 DEF TableOK, SysEventSet
<1>6. proc'[cur] = proc[cur]
  BY <1>1, <1>2, <1>4
<1>7. need' \in BOOLEAN /\ CurOK' /\ BlockedDoesNotRun'
  <2>1. CASE need' = need
    <3>1. UNCHANGED <<cur, ring, enabled>>
      BY DEF SysEventSet
    <3>2. CurOK'
      BY <2>1, <3>1 DEF IInv, CurOK, InRing
    <3>3. BlockedDoesNotRun'
      BY <1>6, <2>1, <3>1 DEF IInv, BlockedDoesNotRun
    <3>4. QED
      BY <2>1, <3>2, <3>3 DEF IInv, TypeOK
  <2>2. CASE RequestSchedule
    BY <1>1, <2>2, SchedAssumption, RescheduleOK DEF SysEventSet
  <2>3. QED
    BY <2>1, <2>2 DEF SysEventSet
<1>8. QED
  BY <1>5, <1>7 DEF SysEventSet, IInv, TypeOK, TableOK

-----------------------------------------------------------------------------
(* Interrupts and boot *)

\* The end of every interrupt, with a good table and the scheduler on if asked
\* for.
LEMMA IrqReturnOK ==
    ASSUME IInv, NEW tbl, TableOK(tbl, cur), NEW t \in Tick,
           NEW asked \in BOOLEAN, asked => enabled,
           ~asked => \/ cur = Idle
                     \/ /\ tbl[cur].state \in {"RUN", proc[cur].state}
                        /\ tbl[cur].regs = proc[cur].regs
                        /\ ~need,
           IrqReturn(tbl, t, asked), UNCHANGED <<ring, enabled>>
    PROVE  /\ cur' \in Procs \cup {Idle} /\ need' \in BOOLEAN
           /\ TableOK(proc', cur') /\ CurOK' /\ BlockedDoesNotRun'
<1>1. CASE asked
  <2>1. Schedule(tbl, t)
    BY <1>1 DEF IrqReturn
  <2>2. ring \in Seq(Procs) /\ cur \in Procs \cup {Idle} /\ (cur # Idle => cur \in InRing)
    BY DEF IInv, TypeOK, CurOK
  <2>3. QED
    BY <1>1, <2>1, <2>2, ScheduleOK
<1>2. CASE ~asked
  <2>1. proc' = tbl /\ need' = FALSE /\ cur' = cur
    BY <1>2 DEF IrqReturn
  <2>2. QED
    BY <1>2, <2>1 DEF IInv, TypeOK, CurOK, InRing, BlockedDoesNotRun
<1>3. QED
  BY <1>1, <1>2

\* The timer interrupt advances the clock and ends in schedule() or in the same
\* process.
LEMMA TimerIntOK ==
    ASSUME IInv, TimerInt
    PROVE  IInv'
<1>. DEFINE t == Later(clkticks, 1)
<1>1. t \in Tick
  <2>1. clkticks \in Nat
    BY SchedAssumption DEF IInv, TypeOK, Tick
  <2>2. QED
    BY <2>1, LaterIsTick
<1>2. (need \/ enabled) \in BOOLEAN /\ (need \/ enabled => enabled)
  BY DEF IInv, TypeOK, CurOK
<1>3. ~(need \/ enabled) => cur = Idle
  BY DEF IInv, CurOK
<1>4. IrqReturn(proc, t, need \/ enabled) /\ UNCHANGED <<ring, enabled>> /\ clkticks' = t
  BY DEF TimerInt
<1>. HIDE DEF t
<1>5. /\ cur' \in Procs \cup {Idle} /\ need' \in BOOLEAN
      /\ TableOK(proc', cur') /\ CurOK' /\ BlockedDoesNotRun'
  BY <1>1, <1>2, <1>3, <1>4, IrqReturnOK DEF IInv
<1>6. QED
  BY <1>1, <1>4, <1>5 DEF TimerInt, IInv, TypeOK, TableOK

\* A device interrupt wakes a queue and ends in schedule() or in the same process.
LEMMA DeviceIntOK ==
    ASSUME IInv, NEW c \in Completions, DeviceInt(c)
    PROVE  IInv'
<1>. DEFINE tbl == WakeAll(proc, wq[c])
<1>1. /\ TableOK(tbl, cur)
      /\ \A p \in Procs : tbl[p].regs = proc[p].regs /\ tbl[p].state \in {"RUN", proc[p].state}
  BY WakeAllOK DEF IInv
<1>2. IrqReturn(tbl, clkticks, need) /\ UNCHANGED <<ring, enabled>>
  BY DEF DeviceInt
<1>3. need \in BOOLEAN /\ (need => enabled) /\ clkticks \in Tick /\ cur \in Procs \cup {Idle}
  BY DEF IInv, TypeOK, CurOK
<1>. HIDE DEF tbl
<1>4. /\ cur' \in Procs \cup {Idle} /\ need' \in BOOLEAN
      /\ TableOK(proc', cur') /\ CurOK' /\ BlockedDoesNotRun'
  BY <1>1, <1>2, <1>3, IrqReturnOK
<1>5. wq' \in [Completions -> Seq(Procs)] /\ \A d \in Completions : Len(wq'[d]) <= QLen
  <2>1. <<>> \in Seq(Procs) /\ Len(<<>>) <= QLen
    BY SchedAssumption
  <2>2. QED
    BY <2>1 DEF DeviceInt, IInv, TypeOK
<1>6. QED
  BY <1>4, <1>5 DEF DeviceInt, IInv, TypeOK, TableOK

\* Spawning keeps everybody on the list and adds the new process, whether or not
\* the list is empty.
LEMMA SpawnRing ==
    ASSUME IInv, Spawn
    PROVE  /\ ring' \in Seq(Procs)
           /\ \A x \in InRing : x \in InRing'
           /\ BootOrder[booted + 1] \in Procs \cap InRing'
<1>. DEFINE p == BootOrder[booted + 1]
            longer == IF ring = <<>> THEN <<p>> ELSE <<Head(ring), p>> \o Tail(ring)
<1>1. p \in Procs
  BY SchedAssumption DEF Spawn, IInv, TypeOK
<1>2. ring' = longer
  BY DEF Spawn
<1>. HIDE DEF p
<1>3. CASE ring = <<>>
  <2>1. ring' = <<p>> /\ Len(ring') = 1 /\ ring'[1] = p /\ Len(ring) = 0
    BY <1>2, <1>3
  <2>2. InRing = {} /\ p \in InRing'
    BY <2>1 DEF InRing
  <2>3. QED
    BY <1>1, <2>1, <2>2 DEF p
<1>4. CASE ring # <<>>
  <2>1. ring \in Seq(Procs) /\ Len(ring) \in Nat \ {0}
    BY <1>4, EmptySeq DEF IInv, TypeOK
  <2>2. /\ ring' \in Seq(Procs) /\ Len(ring') = Len(ring) + 1
        /\ \A i \in 1 .. Len(ring) : ring[i] = ring'[IF i = 1 THEN 1 ELSE i + 1]
        /\ ring'[2] = p
    <3>. DEFINE front == <<Head(ring), p>>
                back  == Tail(ring)
    <3>1. /\ front \in Seq(Procs) /\ Len(front) = 2
          /\ front[1] = ring[1] /\ front[2] = p
      <4>1. Head(ring) = ring[1] /\ Head(ring) \in Procs
        BY <1>4, <2>1, HeadTailProperties
      <4>2. QED
        BY <1>1, <4>1
    <3>2. /\ back \in Seq(Procs) /\ Len(back) = Len(ring) - 1
          /\ \A i \in 1 .. Len(ring) - 1 : back[i] = ring[i + 1]
      BY <1>4, <2>1, HeadTailProperties
    <3>3. ring' = front \o back
      BY <1>2, <1>4
    <3>. HIDE DEF front, back
    <3>4. /\ front \o back \in Seq(Procs)
          /\ Len(front \o back) = Len(front) + Len(back)
          /\ \A i \in 1 .. Len(front) + Len(back) :
               (front \o back)[i] = IF i <= Len(front) THEN front[i] ELSE back[i - Len(front)]
      BY <3>1, <3>2, ConcatProperties
    <3>5. Len(front) + Len(back) = Len(ring) + 1
      BY <2>1, <3>1, <3>2
    <3>6. /\ ring' \in Seq(Procs) /\ Len(ring') = Len(ring) + 1
          /\ \A i \in 1 .. Len(ring) + 1 :
               ring'[i] = IF i <= 2 THEN front[i] ELSE back[i - 2]
          /\ 2 \in 1 .. Len(ring) + 1
      BY <3>1, <3>3, <3>4, <3>5
    <3>7. ASSUME NEW i \in 1 .. Len(ring)
          PROVE  ring[i] = ring'[IF i = 1 THEN 1 ELSE i + 1]
      <4>1. CASE i = 1
        BY <2>1, <3>1, <3>6, <4>1
      <4>2. CASE i # 1
        <5>1. /\ i + 1 \in 1 .. Len(ring) + 1 /\ ~(i + 1 <= 2)
              /\ i - 1 \in 1 .. Len(ring) - 1 /\ (i + 1) - 2 = i - 1 /\ (i - 1) + 1 = i
          BY <2>1, <4>2
        <5>2. ring'[i + 1] = back[i - 1] /\ back[i - 1] = ring[i]
          BY <3>2, <3>6, <5>1
        <5>3. QED
          BY <4>2, <5>2
      <4>3. QED
        BY <4>1, <4>2
    <3>8. ring'[2] = p
      BY <3>1, <3>6
    <3>9. QED
      BY <3>6, <3>7, <3>8
  <2>3. ASSUME NEW i \in 1 .. Len(ring)
        PROVE  ring[i] \in InRing'
    <3>. DEFINE j == IF i = 1 THEN 1 ELSE i + 1
    <3>1. j \in 1 .. Len(ring') /\ ring[i] = ring'[j]
      BY <2>1, <2>2
    <3>2. QED
      BY <3>1 DEF InRing
  <2>4. p \in InRing'
    BY <2>1, <2>2 DEF InRing
  <2>5. \A x \in InRing : x \in InRing'
    BY <2>3 DEF InRing
  <2>6. QED
    BY <1>1, <2>2, <2>4, <2>5 DEF p
<1>5. QED
  BY <1>3, <1>4 DEF p

\* Spawning adds a runnable process to the list, before the scheduler is on.
LEMMA SpawnOK ==
    ASSUME IInv, Spawn
    PROVE  IInv'
<1>. DEFINE p == BootOrder[booted + 1]
<1>1. p \in Procs /\ booted + 1 \in 0 .. Len(BootOrder)
  BY SchedAssumption DEF Spawn, IInv, TypeOK
<1>2. proc' = [proc EXCEPT ![p] = NewProc]
  BY DEF Spawn
<1>. HIDE DEF p
<1>3. ring' \in Seq(Procs) /\ \A x \in InRing : x \in InRing'
  BY SpawnRing
<1>4. TableOK(proc', cur)
  BY <1>1, <1>2, NewProcGood DEF IInv, TableOK, Good, NewProc
<1>5. CurOK' /\ BlockedDoesNotRun'
  <2>1. CurOK'
    BY <1>3 DEF Spawn, IInv, CurOK
  <2>2. cur # Idle => proc'[cur] \in {proc[cur], NewProc}
    BY <1>1, <1>2 DEF IInv, TypeOK
  <2>3. NewProc.state = "RUN" /\ NewProc.regs.code = "main"
    BY DEF NewProc, MainRegs
  <2>4. QED
    BY <2>1, <2>2, <2>3 DEF Spawn, IInv, BlockedDoesNotRun
<1>6. QED
  BY <1>1, <1>3, <1>4, <1>5 DEF Spawn, IInv, TypeOK, TableOK

\* The state main() starts in satisfies the invariant.
LEMMA InitOK == Init => IInv
<1>. SUFFICES ASSUME Init
              PROVE  IInv
  OBVIOUS
<1>. DEFINE row(p) == [NewProc EXCEPT !.state = IF p = Idle THEN "SLEEP" ELSE "NONE"]
<1>1. Good(NewProc)
  BY NewProcGood
<1>2. ASSUME NEW p
      PROVE  row(p) \in Proc /\ row(p).state # "ACTIVE" /\ Good(row(p))
  <2>1. row(p) \in Proc
    BY <1>1 DEF Good, Proc, State
  <2>2. /\ row(p).regs = NewProc.regs /\ row(p).active = NewProc.active
        /\ row(p).done = NewProc.done /\ row(p).state # "ACTIVE"
    BY <1>1 DEF Good, Proc
  <2>3. ~NewProc.active /\ NewProc.regs.code = "main"
    BY DEF NewProc, MainRegs
  <2>4. QED
    BY <2>1, <2>2, <2>3 DEF Good
<1>3. proc = [p \in Procs \cup {Idle} |-> row(p)]
  BY DEF Init
<1>. HIDE DEF row
<1>4. TableOK(proc, cur)
  BY <1>2, <1>3 DEF TableOK
<1>5. TypeOK
  <2>1. 0 \in Tick /\ <<>> \in Seq(Procs) /\ Len(<<>>) <= QLen /\ 0 \in 0 .. Len(BootOrder)
    BY SchedAssumption DEF Tick
  <2>2. QED
    BY <1>4, <2>1 DEF Init, TypeOK, TableOK
<1>6. CurOK /\ BlockedDoesNotRun
  BY DEF Init, CurOK, BlockedDoesNotRun
<1>7. QED
  BY <1>4, <1>5, <1>6 DEF IInv

\* The invariant is inductive: every action of the scheduler preserves it.
LEMMA StepOK == IInv /\ [Next]_vars => IInv'
<1>. SUFFICES ASSUME IInv, [Next]_vars
              PROVE  IInv'
  OBVIOUS
<1>1. CASE Boot
  <2>1. CASE Spawn
    BY <2>1, SpawnOK
  <2>2. CASE SpawnFails
    BY <2>2, SchedAssumption
    DEF SpawnFails, IInv, TypeOK, TableOK, CurOK, InRing, BlockedDoesNotRun
  <2>3. CASE EnableScheduler
    BY <2>3 DEF EnableScheduler, IInv, TypeOK, TableOK, CurOK, InRing, BlockedDoesNotRun
  <2>4. QED
    BY <1>1, <2>1, <2>2, <2>3 DEF Boot
<1>2. CASE TimerInt
  BY <1>2, TimerIntOK
<1>3. ASSUME NEW c \in Completions, DeviceInt(c) \/ SysWait(c) \/ SysWake(c)
      PROVE  IInv'
  BY <1>3, DeviceIntOK, SysWaitOK, SysWakeOK
<1>4. ASSUME NEW d \in SleepTicks, SysSleep(d)
      PROVE  IInv'
  BY <1>4, SysSleepOK
<1>5. CASE SysYield
  BY <1>5, SysYieldOK
<1>6. ASSUME NEW mask \in SUBSET Events \ {{}}, SysEventSet(mask) \/ SysEventWait(mask)
      PROVE  IInv'
  BY <1>6, SysEventSetOK, SysEventWaitOK
<1>7. ASSUME NEW d \in AlarmTicks, NEW once \in BOOLEAN, SysAlarm(d, once)
      PROVE  IInv'
  BY <1>7, SysAlarmOK
<1>8. CASE SysUttDone
  BY <1>8, SysUttDoneOK
<1>9. CASE UserPageFault
  BY <1>9, UserPageFaultOK
<1>10. CASE UNCHANGED vars
  BY <1>10 DEF vars, IInv, TypeOK, TableOK, CurOK, InRing, BlockedDoesNotRun
<1>11. QED
  BY <1>1, <1>2, <1>3, <1>4, <1>5, <1>6, <1>7, <1>8, <1>9, <1>10 DEF Next

\* The invariant holds in every state of every behaviour.
LEMMA Invariance == Spec => []IInv
BY InitOK, StepOK, PTL DEF Spec

-----------------------------------------------------------------------------
(* The theorems *)

\* Every field keeps its type: clock values stay 32-bit ones, wait queues stay
\* within their FIFO, the list holds processes.
THEOREM TypeCorrect == Spec => []TypeOK
<1>1. IInv => TypeOK
  BY DEF IInv
<1>2. QED
  BY <1>1, Invariance, PTL

\* schedule() and everything that changes a process state between two of its
\* calls leave at most the current process PROC_ACTIVE.
THEOREM OneActive == Spec => []OnlyCurActive
<1>1. IInv => OnlyCurActive
  BY DEF IInv, TableOK, OnlyCurActive
<1>2. QED
  BY <1>1, Invariance, PTL

\* A process that blocked, was killed or finished its handler executes no user
\* code before it is scheduled again, for any number of processes and any clock.
THEOREM NoRunAfterBlock == Spec => []BlockedDoesNotRun
<1>1. IInv => BlockedDoesNotRun
  BY DEF IInv
<1>2. QED
  BY <1>1, Invariance, PTL

\* Alarm handlers do not nest, so the single saved register set is enough.
THEOREM HandlersDoNotNest == Spec => []HandlerNotNested
<1>1. IInv => HandlerNotNested
  BY DEF IInv, TableOK, Good, HandlerNotNested
<1>2. QED
  BY <1>1, Invariance, PTL

-----------------------------------------------------------------------------
(* Sched implements CpuShare *)

\* Who is on the list: a process that was never spawned is in no state to be
\* scheduled, and whoever sleeps in a wait queue was spawned.
Listed ==
    /\ \A p \in Procs : p \notin InRing => proc[p].state = "NONE"
    /\ \A c \in Completions : QueueSet(wq[c]) \subseteq InRing

\* What the mapping to CpuShare looks at in a struct proc
Wants(r) == r.state = "RUN" /\ ~(r.active /\ r.done)

\* The timer part of a scan takes nobody's wish to run away, and finds it.
LEMMA CheckTimersKeepsWish ==
    ASSUME NEW r \in Proc, Wants(r), NEW t \in Tick
    PROVE  Wants(CheckTimers(r, t)) /\ CheckTimers(r, t).state = "RUN"
<1>1. CASE AlarmDue(r, t)
  <2>. DEFINE q == HandleTaskTimer(r, t)
  <2>1. q.state = "RUN" /\ q.active /\ ~q.done
    BY DEF HandleTaskTimer, Proc
  <2>2. QED
    BY <1>1, <2>1 DEF CheckTimers, Wants
<1>2. CASE ~AlarmDue(r, t)
  BY <1>2 DEF CheckTimers, CheckWakeup, Wants
<1>3. QED
  BY <1>1, <1>2

\* The scan makes a full turn: every process of the list has a place in it.
LEMMA ScanOrderCovers ==
    ASSUME ring \in Seq(Procs), cur # Idle => cur \in InRing, NEW p \in InRing
    PROVE  \E k \in 1 .. Len(ring) : ScanOrder[k] = p
<1>1. PICK i \in 1 .. Len(ring) : ring[i] = p
  BY DEF InRing
<1>2. Len(ring) \in Nat \ {0}
  BY <1>1, LenProperties
<1>3. ScanStart \in 1 .. Len(ring)
  <2>1. CASE cur = Idle
    BY <1>2, <2>1 DEF ScanStart
  <2>2. CASE cur # Idle
    <3>. DEFINE pos == CHOOSE j \in 1 .. Len(ring) : ring[j] = cur
    <3>1. \E j \in 1 .. Len(ring) : ring[j] = cur
      BY <2>2 DEF InRing
    <3>2. pos \in 1 .. Len(ring) /\ ScanStart = (pos % Len(ring)) + 1
      BY <2>2, <3>1 DEF ScanStart
    <3>. HIDE DEF pos
    <3>3. pos \in Int
      BY <1>2, <3>2
    <3>4. pos % Len(ring) \in 0 .. Len(ring) - 1
      BY <1>2, <3>3, ModRange
    <3>5. QED
      BY <1>2, <3>2, <3>4
  <2>3. QED
    BY <2>1, <2>2
<1>. DEFINE k == IF i >= ScanStart THEN i - ScanStart + 1 ELSE i - ScanStart + 1 + Len(ring)
<1>4. k \in 1 .. Len(ring)
  BY <1>2, <1>3
<1>5. (ScanStart + k - 2) % Len(ring) = i - 1
  <2>1. CASE i >= ScanStart
    <3>1. ScanStart + k - 2 = i - 1 /\ i - 1 \in 0 .. Len(ring) - 1
      BY <1>2, <1>3, <2>1
    <3>. HIDE DEF k
    <3>2. QED
      BY <1>2, <3>1
  <2>2. CASE ~(i >= ScanStart)
    <3>1. ScanStart + k - 2 = (i - 1) + Len(ring) /\ i - 1 \in 0 .. Len(ring) - 1
      BY <1>2, <1>3, <2>2
    <3>. HIDE DEF k
    <3>2. QED
      BY <1>2, <3>1
  <2>3. QED
    BY <2>1, <2>2
<1>. HIDE DEF k
<1>6. ScanOrder[k] = ring[((ScanStart + k - 2) % Len(ring)) + 1]
  BY <1>4 DEF ScanOrder
<1>7. ScanOrder[k] = p
  BY <1>1, <1>2, <1>5, <1>6
<1>8. QED
  BY <1>4, <1>7

\* What schedule() does to the table: it checks the timers of some processes,
\* of all if it idles, and then nobody can run; nobody but the one it selects
\* gets another state from the switch.
LEMMA ScheduleEffect ==
    ASSUME ring \in Seq(Procs), cur \in Procs \cup {Idle}, cur # Idle => cur \in InRing,
           NEW tbl, TableOK(tbl, cur), NEW t \in Tick, Schedule(tbl, t)
    PROVE  /\ cur' \in Procs \cup {Idle} /\ need' = FALSE
           /\ \E scanned \in SUBSET (Procs \cap InRing) :
                 /\ \A p \in Procs :
                       LET q == PutBack(tbl)[p]
                       IN  proc'[p] = [(IF p \in scanned THEN CheckTimers(q, t) ELSE q)
                                          EXCEPT !.state = IF p = cur' THEN "ACTIVE" ELSE @]
                 /\ cur' = Idle => \A p \in InRing :
                       p \in scanned /\ CheckTimers(PutBack(tbl)[p], t).state # "RUN"
<1>. DEFINE put   == PutBack(tbl)
            order == ScanOrder
            hits  == Eligible(put, t, order)
            last  == IF hits = {} THEN Len(ring) ELSE First(hits)
            next  == IF hits = {} THEN Idle ELSE order[last]
            scanned == {order[k] : k \in 1 .. last}
<1>1. cur' = next /\ need' = FALSE /\ proc' = Switched(put, t, scanned, next)
  BY DEF Schedule
<1>2. put \in [Procs \cup {Idle} -> Proc]
  BY PutBackOK
<1>3. \A k \in 1 .. Len(ring) : order[k] \in InRing /\ order[k] \in Procs
  BY ScanOrderOK
<1>4. Len(ring) \in Nat /\ hits \subseteq 1 .. Len(ring)
  BY LenProperties DEF Eligible
<1>5. hits # {} => last \in hits
  BY <1>4, FirstIsLeast
<1>6. last \in 0 .. Len(ring) /\ (hits # {} => last \in 1 .. Len(ring))
  BY <1>4, <1>5
<1>7. scanned \in SUBSET (Procs \cap InRing)
  BY <1>3, <1>4, <1>6
<1>8. next \in Procs \cup {Idle} /\ (next = Idle => hits = {})
  BY <1>3, <1>6, SchedAssumption
<1>9. ASSUME hits = {}, NEW p \in InRing
      PROVE  p \in scanned /\ CheckTimers(put[p], t).state # "RUN"
  <2>1. PICK k \in 1 .. Len(ring) : order[k] = p
    BY ScanOrderCovers
  <2>2. k \notin hits
    BY <1>9
  <2>3. CheckTimers(put[order[k]], t).state # "RUN"
    BY <2>2 DEF Eligible
  <2>4. p \in scanned
    BY <1>9, <2>1
  <2>5. QED
    BY <2>1, <2>3, <2>4
<1>. HIDE DEF put, order, hits, last, next, scanned
<1>10. ASSUME NEW p \in Procs
       PROVE  proc'[p] = [(IF p \in scanned THEN CheckTimers(put[p], t) ELSE put[p])
                             EXCEPT !.state = IF p = cur' THEN "ACTIVE" ELSE @]
  BY <1>1, <1>2 DEF Switched
<1>11. cur' = Idle => \A p \in InRing : p \in scanned /\ CheckTimers(put[p], t).state # "RUN"
  BY <1>1, <1>8, <1>9
<1>12. QED
  BY <1>1, <1>7, <1>8, <1>10, <1>11 DEF put

\* A step that leaves the processor alone and takes nobody's wish away is one of
\* CpuShare: whoever wants to run now and did not before has arrived.
LEMMA ArriveStep ==
    ASSUME cur \in Procs \cup {Idle}, cur' = cur,
           \A p \in Procs \ {cur} : Wants(proc[p]) => Wants(proc'[p])
    PROVE  \E S \in SUBSET Procs : Cpu!Arrive(S)
<1>1. Wanting \subseteq Wanting' /\ Wanting' \in SUBSET Procs /\ cur \notin Wanting'
  BY DEF Wanting, Wants
<1>2. Wanting' = Wanting \cup (Wanting' \ {cur})
  BY <1>1
<1>3. Cpu!Arrive(Wanting')
  BY <1>2 DEF Cpu!Arrive
<1>4. QED
  BY <1>1, <1>3

\* schedule() is a step of CpuShare: the process selected takes the processor and
\* nobody else's wish goes away; if there is none, nobody wanted to run, and nobody
\* does after the timers were checked.
LEMMA ScheduleStep ==
    ASSUME IInv, Listed, NEW tbl, TableOK(tbl, cur), NEW t \in Tick, Schedule(tbl, t),
           \A p \in Procs \ {cur} : Wants(proc[p]) => Wants(tbl[p]),
           \A p \in Procs \ InRing : tbl[p].state = "NONE"
    PROVE  Cpu!GoIdle \/ \E p \in Procs, S \in SUBSET Procs : Cpu!Dispatch(p, S)
<1>. DEFINE put == PutBack(tbl)
<1>1. ring \in Seq(Procs) /\ cur \in Procs \cup {Idle} /\ (cur # Idle => cur \in InRing)
  BY DEF IInv, TypeOK, CurOK
<1>2. PICK scanned \in SUBSET (Procs \cap InRing) :
         /\ \A p \in Procs :
               proc'[p] = [(IF p \in scanned THEN CheckTimers(put[p], t) ELSE put[p])
                              EXCEPT !.state = IF p = cur' THEN "ACTIVE" ELSE @]
         /\ cur' = Idle => \A p \in InRing :
               p \in scanned /\ CheckTimers(put[p], t).state # "RUN"
  BY <1>1, ScheduleEffect
<1>3. cur' \in Procs \cup {Idle}
  BY <1>1, ScheduleEffect
<1>4. /\ put \in [Procs \cup {Idle} -> Proc]
      /\ \A p \in Procs : Good(put[p])
      /\ \A p \in Procs \cup {Idle} : put[p].state # "ACTIVE"
  BY <1>1, PutBackOK
<1>5. \A p \in Procs : p # cur => put[p] = tbl[p]
  BY SchedAssumption DEF PutBack, TableOK
<1>. HIDE DEF put
<1>. DEFINE timed(p) == IF p \in scanned THEN CheckTimers(put[p], t) ELSE put[p]
<1>6. ASSUME NEW p \in Procs, p # cur'
      PROVE  proc'[p] = timed(p)
  <2>1. timed(p) \in Proc
    BY <1>4, CheckTimersGood DEF Good
  <2>. HIDE DEF timed
  <2>2. [timed(p) EXCEPT !.state = timed(p).state] = timed(p)
    BY <2>1 DEF Proc
  <2>3. proc'[p] = [timed(p) EXCEPT !.state = timed(p).state]
    BY <1>2, <1>6 DEF timed
  <2>4. QED
    BY <2>2, <2>3
<1>7. ASSUME NEW p \in Wanting
      PROVE  /\ p \in InRing /\ p \in Procs /\ Wants(timed(p))
             /\ CheckTimers(put[p], t).state = "RUN"
  <2>1. p \in Procs /\ p # cur /\ Wants(proc[p])
    BY DEF Wanting, Wants
  <2>2. Wants(tbl[p]) /\ put[p] = tbl[p] /\ put[p] \in Proc
    BY <1>4, <1>5, <2>1
  <2>3. p \in InRing
    BY <2>1, <2>2 DEF Wants
  <2>4. QED
    BY <2>1, <2>2, <2>3, CheckTimersKeepsWish
<1>8. CASE cur' = Idle
  <2>1. Wanting = {}
    BY <1>2, <1>7, <1>8
  <2>2. ASSUME NEW p \in Procs
        PROVE  proc'[p].state # "RUN"
    <3>1. proc'[p] = timed(p)
      BY <1>6, <1>8, SchedAssumption
    <3>2. CASE p \in InRing
      BY <1>2, <1>8, <3>1, <3>2
    <3>3. CASE p \notin InRing
      <4>1. p # cur /\ p \notin scanned
        BY <1>1, <3>3, SchedAssumption
      <4>2. tbl[p].state = "NONE"
        BY <3>3
      <4>3. QED
        BY <1>5, <3>1, <4>1, <4>2
    <3>4. QED
      BY <3>2, <3>3
  <2>3. Wanting' = {}
    BY <2>2 DEF Wanting
  <2>4. Cpu!GoIdle
    BY <1>8, <2>1, <2>3 DEF Cpu!GoIdle
  <2>5. QED
    BY <2>4
<1>9. CASE cur' # Idle
  <2>. DEFINE S == Wanting' \cup {cur'}
  <2>1. cur' \in Procs /\ S \in SUBSET Procs /\ cur' \notin Wanting'
    BY <1>3, <1>9 DEF Wanting
  <2>2. ASSUME NEW p \in Wanting, p # cur'
        PROVE  p \in Wanting'
    <3>1. p \in Procs /\ Wants(proc'[p])
      BY <1>6, <1>7, <2>2
    <3>2. QED
      BY <2>2, <3>1 DEF Wanting, Wants
  <2>3. Wanting' = (Wanting \cup S) \ {cur'}
    BY <2>1, <2>2
  <2>4. Cpu!Dispatch(cur', S)
    BY <2>3 DEF Cpu!Dispatch
  <2>5. QED
    BY <2>1, <2>4
<1>10. QED
  BY <1>8, <1>9

\* Nobody else is touched by a system call of the current process: a step of
\* CpuShare in which nobody arrives, or at most its own wish to run is at stake.
LEMMA CallerStep ==
    ASSUME IInv, Listed, cur \in Procs, UNCHANGED <<cur, ring>>,
           \A p \in Procs \ {cur} : proc'[p] = proc[p],
           \A c \in Completions : QueueSet(wq'[c]) \subseteq InRing
    PROVE  Listed' /\ \E S \in SUBSET Procs : Cpu!Arrive(S)
<1>1. InRing' = InRing /\ cur \in InRing
  BY SchedAssumption DEF IInv, CurOK, InRing
<1>2. Listed'
  BY <1>1 DEF Listed
<1>3. QED
  BY <1>2, ArriveStep DEF IInv, TypeOK

\* Setting the processes of a queue to run takes no wish away and reaches nobody
\* who is not on the list.
LEMMA WakeAllKeepsWish ==
    ASSUME IInv, Listed, NEW c \in Completions, NEW p \in Procs
    PROVE  /\ Wants(proc[p]) => Wants(WakeAll(proc, wq[c])[p])
           /\ p \notin InRing => WakeAll(proc, wq[c])[p].state = "NONE"
<1>1. proc \in [Procs \cup {Idle} -> Proc] /\ proc[p] \in Proc
  BY DEF IInv, TypeOK
<1>. DEFINE woken == [proc[p] EXCEPT !.state = "RUN"]
<1>2. woken.state = "RUN" /\ woken.active = proc[p].active /\ woken.done = proc[p].done
  BY <1>1 DEF Proc
<1>3. WakeAll(proc, wq[c])[p] = IF p \in QueueSet(wq[c]) THEN woken ELSE proc[p]
  BY <1>1 DEF WakeAll
<1>. HIDE DEF woken
<1>4. QED
  BY <1>2, <1>3 DEF Wants, Listed

\* The end of an interrupt is a step of CpuShare and adds nobody to the list.
LEMMA IrqReturnStep ==
    ASSUME IInv, Listed, IInv', NEW tbl, TableOK(tbl, cur), NEW t \in Tick,
           NEW asked \in BOOLEAN, IrqReturn(tbl, t, asked), UNCHANGED ring,
           \A p \in Procs \ {cur} : Wants(proc[p]) => Wants(tbl[p]),
           \A p \in Procs \ InRing : tbl[p].state = "NONE"
    PROVE  /\ \A p \in Procs \ InRing : proc'[p].state = "NONE"
           /\ Cpu!Next
<1>1. InRing' = InRing
  BY DEF InRing
<1>2. CASE asked
  <2>1. Schedule(tbl, t)
    BY <1>2 DEF IrqReturn
  <2>2. ring \in Seq(Procs) /\ cur \in Procs \cup {Idle} /\ (cur # Idle => cur \in InRing)
    BY DEF IInv, TypeOK, CurOK
  <2>. DEFINE put == PutBack(tbl)
  <2>3. PICK scanned \in SUBSET (Procs \cap InRing) :
           \A p \in Procs :
              proc'[p] = [(IF p \in scanned THEN CheckTimers(put[p], t) ELSE put[p])
                             EXCEPT !.state = IF p = cur' THEN "ACTIVE" ELSE @]
    BY <2>1, <2>2, ScheduleEffect
  <2>4. ASSUME NEW p \in Procs \ InRing
        PROVE  proc'[p].state = "NONE"
    <3>1. p # cur /\ p # cur' /\ p \notin scanned
      BY <1>1, <2>2, SchedAssumption DEF IInv, CurOK
    <3>2. put[p] = tbl[p] /\ tbl[p] \in Proc
      BY <3>1, SchedAssumption DEF PutBack, TableOK
    <3>3. proc'[p] = [tbl[p] EXCEPT !.state = tbl[p].state]
      BY <2>3, <3>1, <3>2
    <3>4. QED
      BY <3>2, <3>3 DEF Proc
  <2>5. QED
    BY <2>1, <2>4, ScheduleStep DEF Cpu!Next
<1>3. CASE ~asked
  <2>1. proc' = tbl /\ cur' = cur /\ cur \in Procs \cup {Idle}
    BY <1>3 DEF IrqReturn, IInv, TypeOK
  <2>2. QED
    BY <2>1, ArriveStep DEF Cpu!Next
<1>4. QED
  BY <1>2, <1>3

\* Every action keeps the list in order and is a step of CpuShare, or leaves
\* holder and pool alone.
LEMMA RefinementStep ==
    ASSUME IInv, IInv', Listed, [Next]_vars
    PROVE  Listed' /\ [Cpu!Next]_(Cpu!vars)
<1>. USE DEF Cpu!Next
<1>0. cur \in Procs \cup {Idle} /\ clkticks \in Tick /\ need \in BOOLEAN /\ enabled \in BOOLEAN
      /\ TableOK(proc, cur) /\ proc \in [Procs \cup {Idle} -> Proc]
      /\ wq \in [Completions -> Seq(Procs)]
  BY DEF IInv, TypeOK
<1>1. ASSUME Spawn
      PROVE  Listed' /\ \E S \in SUBSET Procs : Cpu!Arrive(S)
  <2>. DEFINE q == BootOrder[booted + 1]
  <2>1. /\ \A x \in InRing : x \in InRing'
        /\ q \in Procs \cap InRing'
    BY <1>1, SpawnRing
  <2>2. proc' = [proc EXCEPT ![q] = NewProc] /\ cur' = cur /\ wq' = wq
    BY <1>1 DEF Spawn
  <2>. HIDE DEF q
  <2>3. Wants(NewProc)
    BY DEF Wants, NewProc
  <2>4. \A p \in Procs : proc'[p] = IF p = q THEN NewProc ELSE proc[p]
    BY <1>0, <2>1, <2>2
  <2>5. Listed'
    BY <2>1, <2>2, <2>4 DEF Listed
  <2>6. QED
    BY <1>0, <2>2, <2>3, <2>4, <2>5, ArriveStep
<1>2. ASSUME UNCHANGED <<proc, ring, cur, wq>>
      PROVE  Listed' /\ \E S \in SUBSET Procs : Cpu!Arrive(S)
  <2>1. Listed'
    BY <1>2 DEF Listed, InRing
  <2>2. QED
    BY <1>0, <1>2, <2>1, ArriveStep
<1>3. ASSUME TimerInt
      PROVE  Listed' /\ Cpu!Next
  <2>1. Later(clkticks, 1) \in Tick /\ (need \/ enabled) \in BOOLEAN
    <3>1. clkticks \in Nat
      BY <1>0, SchedAssumption DEF Tick
    <3>2. QED
      BY <1>0, <3>1, LaterIsTick
  <2>2. /\ IrqReturn(proc, Later(clkticks, 1), need \/ enabled)
        /\ UNCHANGED <<ring, wq>>
    BY <1>3 DEF TimerInt
  <2>3. \A p \in Procs \ InRing : proc[p].state = "NONE"
    BY DEF Listed
  <2>4. Cpu!Next /\ \A p \in Procs \ InRing : proc'[p].state = "NONE"
    BY <1>0, <2>1, <2>2, <2>3, IrqReturnStep
  <2>5. Listed'
    BY <2>2, <2>4 DEF Listed, InRing
  <2>6. QED
    BY <2>4, <2>5
<1>4. ASSUME NEW c \in Completions, DeviceInt(c)
      PROVE  Listed' /\ Cpu!Next
  <2>. DEFINE tbl == WakeAll(proc, wq[c])
  <2>1. TableOK(tbl, cur)
    BY <1>0, WakeAllOK
  <2>2. /\ \A p \in Procs \ {cur} : Wants(proc[p]) => Wants(tbl[p])
        /\ \A p \in Procs \ InRing : tbl[p].state = "NONE"
    BY WakeAllKeepsWish
  <2>3. /\ IrqReturn(tbl, clkticks, need) /\ UNCHANGED ring
        /\ wq' = [wq EXCEPT ![c] = <<>>]
    BY <1>4 DEF DeviceInt
  <2>. HIDE DEF tbl
  <2>4. Cpu!Next /\ \A p \in Procs \ InRing : proc'[p].state = "NONE"
    BY <1>0, <2>1, <2>2, <2>3, IrqReturnStep
  <2>5. \A d \in Completions : QueueSet(wq'[d]) \subseteq QueueSet(wq[d])
    BY <1>0, <2>3 DEF QueueSet
  <2>6. Listed'
    BY <2>3, <2>4, <2>5 DEF Listed, InRing
  <2>7. QED
    BY <2>4, <2>6
<1>5. ASSUME NEW c \in Completions, SysWait(c)
      PROVE  Listed' /\ \E S \in SUBSET Procs : Cpu!Arrive(S)
  <2>1. cur \in Procs /\ cur \in InRing
    BY <1>5, CallerOK, SchedAssumption DEF SysWait, IInv, CurOK
  <2>2. /\ \A p \in Procs \ {cur} : proc'[p] = proc[p]
        /\ UNCHANGED <<cur, ring>>
        /\ wq' = [wq EXCEPT ![c] = Append(wq[c], cur)]
    BY <1>0, <1>5, <2>1 DEF SysWait, Block
  <2>3. QueueSet(Append(wq[c], cur)) \subseteq QueueSet(wq[c]) \cup {cur}
    BY <1>0, <2>1 DEF QueueSet
  <2>4. \A d \in Completions : QueueSet(wq'[d]) \subseteq InRing
    BY <1>0, <2>1, <2>2, <2>3 DEF Listed
  <2>5. QED
    BY <2>1, <2>2, <2>4, CallerStep
<1>6. ASSUME NEW c \in Completions, SysWake(c)
      PROVE  Listed' /\ \E S \in SUBSET Procs : Cpu!Arrive(S)
  <2>1. /\ proc' = WakeAll(proc, wq[c]) /\ UNCHANGED <<cur, ring>>
        /\ wq' = [wq EXCEPT ![c] = <<>>]
    BY <1>6 DEF SysWake
  <2>2. \A d \in Completions : QueueSet(wq'[d]) \subseteq QueueSet(wq[d])
    BY <1>0, <2>1 DEF QueueSet
  <2>3. Listed'
    BY <2>1, <2>2, WakeAllKeepsWish DEF Listed, InRing
  <2>4. \A p \in Procs \ {cur} : Wants(proc[p]) => Wants(proc'[p])
    BY <2>1, WakeAllKeepsWish
  <2>5. QED
    BY <1>0, <2>1, <2>3, <2>4, ArriveStep
<1>7. ASSUME NEW mask, SysEventSet(mask)
      PROVE  Listed' /\ \E S \in SUBSET Procs : Cpu!Arrive(S)
  <2>. DEFINE hit == {p \in InRing \ {cur} : proc[p].event_mask \cap mask # {}}
              q(p) == [proc[p] EXCEPT !.state = "RUN", !.event_mask = @ \ mask]
  <2>1. /\ proc' = [p \in Procs \cup {Idle} |-> IF p \in hit THEN q(p) ELSE proc[p]]
        /\ UNCHANGED <<cur, ring, wq>>
    BY <1>0, <1>7 DEF SysEventSet
  <2>2. ASSUME NEW p \in Procs
        PROVE  q(p).state = "RUN" /\ q(p).active = proc[p].active /\ q(p).done = proc[p].done
    BY <1>0 DEF Proc
  <2>3. hit \subseteq InRing
    OBVIOUS
  <2>. HIDE DEF hit, q
  <2>4. Listed'
    BY <2>1, <2>3 DEF Listed, InRing
  <2>5. \A p \in Procs \ {cur} : Wants(proc[p]) => Wants(proc'[p])
    BY <2>1, <2>2 DEF Wants
  <2>6. QED
    BY <1>0, <2>1, <2>4, <2>5, ArriveStep
<1>8. ASSUME cur \in Procs, UNCHANGED <<cur, ring, wq>>,
             \A p \in Procs \ {cur} : proc'[p] = proc[p]
      PROVE  Listed' /\ \E S \in SUBSET Procs : Cpu!Arrive(S)
  <2>1. \A c \in Completions : QueueSet(wq'[c]) \subseteq InRing
    BY <1>8 DEF Listed
  <2>2. QED
    BY <1>8, <2>1, CallerStep
<1>9. CASE Boot
  BY <1>1, <1>2, <1>9 DEF Boot, SpawnFails, EnableScheduler
<1>10. ASSUME NEW d \in SleepTicks, SysSleep(d)
       PROVE  Listed' /\ Cpu!Next
  BY <1>0, <1>8, <1>10, CallerOK DEF SysSleep
<1>11. CASE SysYield
  BY <1>0, <1>8, <1>11, CallerOK DEF SysYield
<1>12. ASSUME NEW mask, SysEventWait(mask)
       PROVE  Listed' /\ Cpu!Next
  BY <1>0, <1>8, <1>12, CallerOK DEF SysEventWait
<1>13. ASSUME NEW d, NEW once, SysAlarm(d, once)
       PROVE  Listed' /\ Cpu!Next
  BY <1>0, <1>8, <1>13, CallerOK DEF SysAlarm
<1>14. CASE SysUttDone
  BY <1>0, <1>8, <1>14 DEF SysUttDone
<1>15. CASE UserPageFault
  BY <1>0, <1>8, <1>15, CallerOK DEF UserPageFault
<1>16. CASE UNCHANGED vars
  BY <1>2, <1>16 DEF vars
<1>17. QED
  BY <1>3, <1>4, <1>5, <1>6, <1>7, <1>9, <1>10, <1>11, <1>12, <1>13, <1>14, <1>15, <1>16
  DEF Next

\* Sched implements CpuShare: no scan, wake-up, alarm or kill makes the scheduler
\* forget a process that wants to run, and it idles only when nobody does, for any
\* number of processes and any clock.
THEOREM SchedImplementsCpuShare == Spec => ImplementsCpuShare
<1>1. Init => Listed /\ Cpu!Init
  <2>. SUFFICES ASSUME Init
                PROVE  Listed /\ Cpu!Init
    OBVIOUS
  <2>1. ASSUME NEW p \in Procs
        PROVE  proc[p].state = "NONE"
    BY SchedAssumption DEF Init, NewProc
  <2>2. Listed
    BY <2>1 DEF Init, Listed, QueueSet, InRing
  <2>3. QED
    BY <2>1, <2>2 DEF Init, Cpu!Init, Wanting
<1>2. IInv /\ IInv' /\ Listed /\ [Next]_vars => Listed' /\ [Cpu!Next]_(Cpu!vars)
  BY RefinementStep
<1>3. QED
  BY <1>1, <1>2, Invariance, PTL DEF Spec, ImplementsCpuShare, Cpu!Safe

-----------------------------------------------------------------------------
(* Nobody who waits is stranded *)

\* A struct proc of a process that never asked for an alarm
NoAlarm(r) == r.next = 0 /\ ~r.active
Waits(r) == r.state = "SLEEP" /\ r.regs.call = "wait"
Queued(p) == \E c \in Completions : p \in QueueSet(wq[c])

\* Without an alarm the timer part of a scan can only wake.
LEMMA TimersOnlyWake ==
    ASSUME NEW r \in Proc, NoAlarm(r), NEW t \in Tick
    PROVE  LET q == CheckTimers(r, t)
           IN  q \in Proc /\ NoAlarm(q) /\ q.regs = r.regs /\ q.state \in {"RUN", r.state}
<1>. DEFINE woken == [r EXCEPT !.ticks_wakeup = Never, !.state = "RUN"]
<1>1. CheckTimers(r, t) \in {r, woken}
  BY DEF CheckTimers, AlarmDue, NoAlarm, CheckWakeup, Proc
<1>2. Never \in Tick
  BY SchedAssumption DEF Never, Tick
<1>3. /\ woken \in Proc /\ woken.next = r.next /\ woken.active = r.active
      /\ woken.regs = r.regs /\ woken.state = "RUN"
  BY <1>2 DEF Proc, State
<1>. HIDE DEF woken
<1>4. QED
  BY <1>1, <1>3 DEF NoAlarm

\* After an interrupt a process without alarm waits only if it waited in the table
\* the interrupt left.
LEMMA IrqReturnOnlyWakes ==
    ASSUME IInv, NEW tbl, TableOK(tbl, cur), NEW t \in Tick, NEW asked \in BOOLEAN,
           IrqReturn(tbl, t, asked), NEW p \in Procs, NoAlarm(tbl[p])
    PROVE  NoAlarm(proc'[p]) /\ (Waits(proc'[p]) => Waits(tbl[p]))
<1>1. CASE asked
  <2>. DEFINE put == PutBack(tbl)
  <2>1. Schedule(tbl, t)
    BY <1>1 DEF IrqReturn
  <2>2. ring \in Seq(Procs) /\ cur \in Procs \cup {Idle} /\ (cur # Idle => cur \in InRing)
    BY DEF IInv, TypeOK, CurOK
  <2>3. PICK scanned \in SUBSET (Procs \cap InRing) :
           \A x \in Procs :
              proc'[x] = [(IF x \in scanned THEN CheckTimers(put[x], t) ELSE put[x])
                             EXCEPT !.state = IF x = cur' THEN "ACTIVE" ELSE @]
    BY <2>1, <2>2, ScheduleEffect
  <2>. DEFINE back == [tbl[p] EXCEPT !.state = "RUN"]
  <2>4. tbl[p] \in Proc /\ put[p] \in {tbl[p], back}
    BY SchedAssumption DEF PutBack, TableOK
  <2>5. /\ back \in Proc /\ back.next = tbl[p].next /\ back.active = tbl[p].active
        /\ back.regs = tbl[p].regs /\ back.state = "RUN"
    BY <2>4 DEF Proc, State
  <2>. HIDE DEF put, back
  <2>6. /\ put[p] \in Proc /\ NoAlarm(put[p]) /\ put[p].regs = tbl[p].regs
        /\ put[p].state \in {"RUN", tbl[p].state}
    BY <2>4, <2>5 DEF NoAlarm
  <2>. DEFINE q == IF p \in scanned THEN CheckTimers(put[p], t) ELSE put[p]
  <2>7. /\ q \in Proc /\ NoAlarm(q) /\ q.regs = tbl[p].regs
        /\ q.state \in {"RUN", tbl[p].state}
    BY <2>6, TimersOnlyWake
  <2>8. proc'[p] = [q EXCEPT !.state = IF p = cur' THEN "ACTIVE" ELSE @]
    BY <2>3
  <2>. HIDE DEF q
  <2>9. /\ proc'[p].next = q.next /\ proc'[p].active = q.active /\ proc'[p].regs = q.regs
        /\ proc'[p].state \in {"ACTIVE", q.state}
    BY <2>7, <2>8 DEF Proc
  <2>10. QED
    BY <2>7, <2>9 DEF NoAlarm, Waits
<1>2. CASE ~asked
  BY <1>2 DEF IrqReturn
<1>3. QED
  BY <1>1, <1>2

\* Waking a queue wakes everybody in it and changes nothing else of anybody.
LEMMA WakeAllOnlyWakes ==
    ASSUME IInv, NEW c \in Completions, NEW p \in Procs
    PROVE  LET q == WakeAll(proc, wq[c])[p]
           IN  /\ NoAlarm(proc[p]) => NoAlarm(q)
               /\ Waits(q) => Waits(proc[p]) /\ p \notin QueueSet(wq[c])
<1>1. proc \in [Procs \cup {Idle} -> Proc] /\ proc[p] \in Proc
  BY DEF IInv, TypeOK
<1>. DEFINE woken == [proc[p] EXCEPT !.state = "RUN"]
<1>2. woken.state = "RUN" /\ woken.active = proc[p].active /\ woken.next = proc[p].next
  BY <1>1 DEF Proc
<1>3. WakeAll(proc, wq[c])[p] = IF p \in QueueSet(wq[c]) THEN woken ELSE proc[p]
  BY <1>1 DEF WakeAll
<1>. HIDE DEF woken
<1>4. QED
  BY <1>2, <1>3 DEF NoAlarm, Waits

\* Whoever is in another queue stays there when one is emptied.
LEMMA EmptiedQueue ==
    ASSUME IInv, NEW c \in Completions, wq' = [wq EXCEPT ![c] = <<>>],
           NEW p, Queued(p), p \notin QueueSet(wq[c])
    PROVE  Queued(p)'
<1>1. PICK d \in Completions : p \in QueueSet(wq[d])
  BY DEF Queued
<1>2. d # c /\ wq'[d] = wq[d]
  BY <1>1 DEF IInv, TypeOK
<1>3. QED
  BY <1>1, <1>2 DEF Queued, QueueSet

\* What a process without alarm needs to be found by the next completion, or
\* not to need one
Found(p) == NoAlarm(proc[p]) /\ (Waits(proc[p]) => Queued(p))

\* Every action keeps a process without alarm findable: what blocks it in wait()
\* queues it, and what dequeues it wakes it.
LEMMA WaiterStep ==
    ASSUME IInv, NEW p \in Procs, "alarm" \notin Uses[p], Found(p), [Next]_vars
    PROVE  Found(p)'
<1>0. /\ cur \in Procs \cup {Idle} /\ clkticks \in Tick /\ need \in BOOLEAN
      /\ enabled \in BOOLEAN /\ TableOK(proc, cur) /\ proc[p] \in Proc
      /\ proc \in [Procs \cup {Idle} -> Proc] /\ wq \in [Completions -> Seq(Procs)]
  BY DEF IInv, TypeOK
<1>1. ASSUME UNCHANGED wq, proc'[p] = proc[p]
      PROVE  Found(p)'
  BY <1>1 DEF Found, NoAlarm, Waits, Queued, QueueSet
<1>2. ASSUME Spawn
      PROVE  Found(p)'
  <2>1. UNCHANGED wq /\ proc'[p] \in {proc[p], NewProc}
    BY <1>0, <1>2 DEF Spawn
  <2>2. NewProc.next = 0 /\ NewProc.active = FALSE /\ NewProc.state = "RUN"
    BY DEF NewProc
  <2>3. proc'[p] = NewProc => Found(p)'
    BY <2>2 DEF Found, NoAlarm, Waits
  <2>4. QED
    BY <1>1, <2>1, <2>3
<1>3. ASSUME TimerInt
      PROVE  Found(p)'
  <2>1. clkticks \in Nat
    BY <1>0, SchedAssumption DEF Tick
  <2>2. Later(clkticks, 1) \in Tick /\ (need \/ enabled) \in BOOLEAN
    BY <1>0, <2>1, LaterIsTick
  <2>3. IrqReturn(proc, Later(clkticks, 1), need \/ enabled) /\ UNCHANGED wq
    BY <1>3 DEF TimerInt
  <2>4. NoAlarm(proc'[p]) /\ (Waits(proc'[p]) => Waits(proc[p]))
    BY <1>0, <2>2, <2>3, IrqReturnOnlyWakes DEF Found
  <2>5. QED
    BY <2>3, <2>4 DEF Found, NoAlarm, Waits, Queued, QueueSet
<1>4. ASSUME NEW c \in Completions, DeviceInt(c)
      PROVE  Found(p)'
  <2>. DEFINE tbl == WakeAll(proc, wq[c])
  <2>1. TableOK(tbl, cur)
    BY <1>0, WakeAllOK
  <2>2. NoAlarm(tbl[p]) /\ (Waits(tbl[p]) => Waits(proc[p]) /\ p \notin QueueSet(wq[c]))
    BY WakeAllOnlyWakes DEF Found
  <2>3. IrqReturn(tbl, clkticks, need) /\ wq' = [wq EXCEPT ![c] = <<>>]
    BY <1>4 DEF DeviceInt
  <2>. HIDE DEF tbl
  <2>4. NoAlarm(proc'[p]) /\ (Waits(proc'[p]) => Waits(tbl[p]))
    BY <1>0, <2>1, <2>2, <2>3, IrqReturnOnlyWakes
  <2>5. Waits(proc'[p]) => Queued(p)'
    BY <2>2, <2>3, <2>4, EmptiedQueue DEF Found
  <2>6. QED
    BY <2>4, <2>5 DEF Found, NoAlarm, Waits
<1>5. ASSUME NEW c \in Completions, SysWake(c)
      PROVE  Found(p)'
  <2>1. proc' = WakeAll(proc, wq[c]) /\ wq' = [wq EXCEPT ![c] = <<>>]
    BY <1>5 DEF SysWake
  <2>2. NoAlarm(proc'[p]) /\ (Waits(proc'[p]) => Waits(proc[p]) /\ p \notin QueueSet(wq[c]))
    BY <2>1, WakeAllOnlyWakes DEF Found
  <2>3. Waits(proc'[p]) => Queued(p)'
    BY <2>1, <2>2, EmptiedQueue DEF Found
  <2>4. QED
    BY <2>2, <2>3 DEF Found, NoAlarm, Waits
<1>6. ASSUME NEW c \in Completions, SysWait(c)
      PROVE  Found(p)'
  <2>1. cur \in Procs
    BY <1>6, CallerOK DEF SysWait
  <2>2. /\ proc' = [proc EXCEPT ![cur].state = "SLEEP", ![cur].regs.call = "wait"]
        /\ wq' = [wq EXCEPT ![c] = Append(wq[c], cur)]
    BY <1>6 DEF SysWait, Block
  <2>3. QueueSet(wq'[c]) = QueueSet(wq[c]) \cup {cur}
    BY <1>0, <2>1, <2>2 DEF QueueSet
  <2>4. \A d \in Completions : QueueSet(wq[d]) \subseteq QueueSet(wq'[d])
    BY <1>0, <2>2, <2>3 DEF QueueSet
  <2>5. Queued(p) \/ p = cur => Queued(p)'
    BY <2>3, <2>4 DEF Queued
  <2>6. proc'[p].next = proc[p].next /\ proc'[p].active = proc[p].active
    BY <1>0, <2>1, <2>2 DEF Proc
  <2>7. p # cur => proc'[p] = proc[p]
    BY <1>0, <2>2
  <2>8. QED
    BY <2>5, <2>6, <2>7 DEF Found, NoAlarm, Waits
<1>7. ASSUME NEW mask, SysEventSet(mask)
      PROVE  Found(p)'
  <2>. DEFINE q == [proc[p] EXCEPT !.state = "RUN", !.event_mask = @ \ mask]
  <2>1. proc'[p] \in {proc[p], q} /\ UNCHANGED wq
    BY <1>0, <1>7 DEF SysEventSet
  <2>2. q.state = "RUN" /\ q.next = proc[p].next /\ q.active = proc[p].active
    BY <1>0 DEF Proc
  <2>. HIDE DEF q
  <2>3. proc'[p] = q => Found(p)'
    BY <2>2 DEF Found, NoAlarm, Waits
  <2>4. QED
    BY <1>1, <2>1, <2>3
<1>8. ASSUME cur \in Procs, UNCHANGED wq,
             \A x \in Procs \ {cur} : proc'[x] = proc[x],
             p = cur => NoAlarm(proc'[p]) /\ ~Waits(proc'[p])
      PROVE  Found(p)'
  <2>1. CASE p = cur
    BY <1>8, <2>1 DEF Found, NoAlarm, Waits
  <2>2. CASE p # cur
    BY <1>1, <1>8, <2>2
  <2>3. QED
    BY <2>1, <2>2
<1>9. CASE Boot
  BY <1>1, <1>2, <1>9 DEF Boot, SpawnFails, EnableScheduler
<1>10. ASSUME NEW d \in SleepTicks, SysSleep(d)
       PROVE  Found(p)'
  <2>1. cur \in Procs
    BY <1>10, CallerOK DEF SysSleep
  <2>2. proc' = [proc EXCEPT ![cur].state = "SLEEP", ![cur].regs.call = "sleep",
                             ![cur].ticks_wakeup = Later(clkticks, d)] /\ UNCHANGED wq
    BY <1>10 DEF SysSleep
  <2>3. p = cur => proc'[p].regs.call = "sleep" /\ proc'[p].next = proc[p].next
                   /\ proc'[p].active = proc[p].active
    BY <1>0, <2>2 DEF Proc, Regs
  <2>4. QED
    BY <1>0, <1>8, <2>1, <2>2, <2>3 DEF Found, NoAlarm, Waits
<1>11. CASE SysYield
  BY <1>1, <1>11 DEF SysYield
<1>12. ASSUME NEW mask, SysEventWait(mask)
       PROVE  Found(p)'
  <2>1. cur \in Procs
    BY <1>12, CallerOK DEF SysEventWait
  <2>2. proc' = [proc EXCEPT ![cur].state = "SLEEP", ![cur].regs.call = "event_wait",
                             ![cur].event_mask = @ \cup mask] /\ UNCHANGED wq
    BY <1>12 DEF SysEventWait
  <2>3. p = cur => proc'[p].regs.call = "event_wait" /\ proc'[p].next = proc[p].next
                   /\ proc'[p].active = proc[p].active
    BY <1>0, <2>2 DEF Proc, Regs
  <2>4. QED
    BY <1>0, <1>8, <2>1, <2>2, <2>3 DEF Found, NoAlarm, Waits
<1>13. ASSUME NEW d, NEW once, SysAlarm(d, once)
       PROVE  Found(p)'
  <2>1. p # cur /\ UNCHANGED wq
    BY <1>13 DEF SysAlarm, Calls
  <2>2. proc'[p] = proc[p]
    BY <1>0, <1>13, <2>1 DEF SysAlarm
  <2>3. QED
    BY <1>1, <2>1, <2>2
<1>14. CASE SysUttDone
  <2>1. p # cur
    BY <1>14 DEF SysUttDone, IInv, TableOK, Good, Found, NoAlarm
  <2>2. proc'[p] = proc[p] /\ UNCHANGED wq
    BY <1>0, <1>14, <2>1 DEF SysUttDone
  <2>3. QED
    BY <1>1, <2>2
<1>15. CASE UserPageFault
  <2>1. cur \in Procs
    BY <1>15, CallerOK DEF UserPageFault
  <2>2. proc' = [proc EXCEPT ![cur].state = "KILLED", ![cur].ticks_wakeup = Never,
                             ![cur].event_mask = {},
                             ![cur].regs = [@ EXCEPT !.code = "fault"]] /\ UNCHANGED wq
    BY <1>15 DEF UserPageFault
  <2>3. p = cur => proc'[p].state = "KILLED" /\ proc'[p].next = proc[p].next
                   /\ proc'[p].active = proc[p].active
    BY <1>0, <2>2 DEF Proc
  <2>4. QED
    BY <1>0, <1>8, <2>1, <2>2, <2>3 DEF Found, NoAlarm, Waits
<1>16. CASE UNCHANGED vars
  BY <1>1, <1>16 DEF vars
<1>17. QED
  BY <1>3, <1>4, <1>5, <1>6, <1>7, <1>9, <1>10, <1>11, <1>12, <1>13, <1>14, <1>15, <1>16
  DEF Next

\* A process that uses no alarm and is blocked in wait() is in a wait queue: no
\* order of waits, wakes, kills and interrupts strands it, with any number of
\* processes, completions and queue slots.
THEOREM WaitersAreQueued == Spec => []WaiterIsQueued
<1>. DEFINE W == \A p \in Procs : "alarm" \notin Uses[p] => Found(p)
<1>1. Init => W
  <2>1. ASSUME Init, NEW p \in Procs
        PROVE  Found(p)
    <3>1. proc[p] = [NewProc EXCEPT !.state = "NONE"]
      BY <2>1, SchedAssumption DEF Init
    <3>2. proc[p].next = 0 /\ proc[p].active = FALSE /\ proc[p].state = "NONE"
      BY <3>1 DEF NewProc
    <3>3. QED
      BY <3>2 DEF Found, NoAlarm, Waits
  <2>2. QED
    BY <2>1
<1>2. IInv /\ W /\ [Next]_vars => W'
  BY WaiterStep
<1>3. W => WaiterIsQueued
  BY DEF WaiterIsQueued, Found, Waits, Queued
<1>4. QED
  BY <1>1, <1>2, <1>3, Invariance, PTL DEF Spec
=============================================================================
