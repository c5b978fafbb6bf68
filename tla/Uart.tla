-------------------------------- MODULE Uart --------------------------------
(***************************************************************************)
(* The console UART: the interrupt handler (arch/uart.c), the two software *)
(* FIFOs (sys/uart.h), uart_read and uart_write (dev/uart.c), which run in *)
(* the caller's mode and are preemptible anywhere, and the line input and  *)
(* output of the C library above them (gets, putchar, cons_write).         *)
(*                                                                         *)
(* A task is whatever prints: a process, the alarm handler that the kernel *)
(* puts on top of one (handle_alarm of user/console.c prints), or the      *)
(* kernel itself, in an interrupt or a fault. Nothing locks the driver, so *)
(* a task may be stopped anywhere in it while another one runs; that the   *)
(* last two kinds run to their end meanwhile is one of the interleavings.  *)
(* One task reads, the console.                                            *)
(*                                                                         *)
(* A task is at a program point and executes one access to shared memory   *)
(* or to a device register per action. The interrupt handler and sys_wait  *)
(* are one action each: they execute with IRQs masked. The device holds    *)
(* one byte each way, since UART1LinCtrlHigh leaves its FIFOs off.         *)
(***************************************************************************)
EXTENDS Naturals, Sequences

CONSTANTS
    Tasks,    \* whatever prints on the console
    reader,   \* the one that also reads from it
    N,        \* UART_FIFO_SIZE
    MaxIn,    \* bound: bytes that arrive on the line
    MaxOut,   \* bound: bytes written by the tasks
    Lens,     \* lengths passed to cons_write
    Follow    \* bound: the crossings of tasks after which their behaviour is followed

ASSUME UartAssumption == /\ reader \in Tasks
                         /\ N \in Nat \ {0, 1} /\ MaxIn \in Nat /\ MaxOut \in Nat
                         /\ Lens \subseteq Nat \ {0}
                         /\ Follow \subseteq {"ctrl", "tx"}

VARIABLES
    rx, tx,      \* struct uart_fifo: [data, head, tail]
    ctrl,        \* the interrupt-enable bits of UART1Ctrl
    hwrx, hwtx,  \* the receive and transmit holding registers: empty or one byte
    task,        \* task[t]: program point and locals of t
    arrived,     \* history: number of bytes that reached the receive register
    written,     \* history: number of bytes put in the transmit FIFO
    got,         \* history: bytes returned by uart_read, in order
    sent,        \* history: bytes that left on the line, in order
    over,        \* history: the FIFOs that were filled onto themselves
    crossed      \* history: where tasks crossed each other, see Crossing

vars == <<rx, tx, ctrl, hwrx, hwtx, task, arrived, written, got, sent, over, crossed>>

\* What got and sent are compared with: they are kept up to the first time the
\* FIFO was filled onto itself, or tasks crossed in a way that touches it.
RxBroken == "rx" \in over \/ "ctrl" \in crossed
TxBroken == "tx" \in over \/ crossed \intersect {"ctrl", "tx"} # {}

-----------------------------------------------------------------------------
(* struct uart_fifo *)

Empty == [data |-> [i \in 0 .. N - 1 |-> 0], head |-> 0, tail |-> 0]

\* Fault: the index wraps one slot too late.
WrapLate(i) == IF i > N THEN 0 ELSE i

Wrap(i) == IF i >= N THEN 0 ELSE i

FifoFree(f) == IF f.tail > f.head THEN f.tail - f.head
               ELSE N - (f.head - f.tail)

FifoAvailable(f) == IF f.tail >= f.head THEN f.tail - f.head
                    ELSE N - (f.head - f.tail)

Contents(f) ==
    [i \in 1 .. FifoAvailable(f) |-> f.data[(f.head + i - 1) % N]]

\* Fault: the head moves past two bytes.
PopTwo(f) == [f EXCEPT !.head = Wrap(Wrap(@ + 1) + 1)]

Pop(f) == [f EXCEPT !.head = Wrap(@ + 1)]

Push(f, b) == [f EXCEPT !.data[f.tail] = b, !.tail = Wrap(@ + 1)]

Fills(f) == Wrap(f.tail + 1) = f.head

-----------------------------------------------------------------------------
(* The line and the device *)

ByteArrives ==
    /\ arrived < MaxIn
    /\ hwrx = <<>>
    /\ hwrx' = <<arrived + 1>>
    /\ arrived' = arrived + 1
    /\ UNCHANGED <<rx, tx, ctrl, hwtx, task, written, got, sent, over, crossed>>

ByteLeaves ==
    /\ hwtx # <<>>
    /\ sent' = IF TxBroken THEN sent ELSE sent \o hwtx
    /\ hwtx' = <<>>
    /\ UNCHANGED <<rx, tx, ctrl, hwrx, task, arrived, written, got, over, crossed>>

-----------------------------------------------------------------------------
(* uart1_intr *)

RxPending == "RIE" \in ctrl /\ hwrx # <<>>
TxPending == "TIE" \in ctrl /\ hwtx = <<>>

\* Fault: the transmit interrupt is disabled with the last byte still queued.
TxDisableEarly == FifoAvailable(tx) <= 1

\* ep93xx_uart_tx disables its interrupt when there is nothing to transmit.
TxDisable == tx.head = tx.tail

\* Fault: the handler leaves the sleepers asleep.
WakenNone == task

\* sys_wake on uart->wait: every task that sleeps there is set to run.
Woken ==
    [t \in Tasks |-> IF task[t].pc = "asleep" THEN [task[t] EXCEPT !.pc = "woken"]
                     ELSE task[t]]

\* ep93xx_uart_rx: its room count is 0 only if it interrupts uart_fifo_remove
\* before the head is wrapped, and otherwise the byte is taken.
IsrRx ==
    IF RxPending /\ FifoFree(rx) > 0
      THEN /\ rx' = Push(rx, hwrx[1])
           /\ over' = IF Fills(rx) THEN over \cup {"rx"} ELSE over
           /\ hwrx' = <<>>
      ELSE UNCHANGED <<rx, over, hwrx>>

IsrTx ==
    IF TxPending /\ ~TxDisable
      THEN /\ hwtx' = <<tx.data[tx.head]>>
           /\ tx' = Pop(tx)
      ELSE UNCHANGED <<tx, hwtx>>

Isr ==
    /\ RxPending \/ TxPending
    /\ IsrRx
    /\ task' = IF RxPending THEN Woken ELSE task
    /\ IsrTx
    /\ ctrl' = IF TxPending /\ TxDisable THEN ctrl \ {"TIE"} ELSE ctrl
    /\ UNCHANGED <<arrived, written, got, sent, crossed>>

-----------------------------------------------------------------------------
(* Tasks *)

\* Program points: "ready" between calls; rd_* in uart_read, wr_* in uart_write;
\* "empty" after a uart_read that returned 0; "asleep" in
\* wait(cons_in_completion), "woken" after it. off and on are the three accesses
\* of a read-modify-write of UART1Ctrl, outl(UART1Ctrl, inl(UART1Ctrl) &= ~TIE):
\* a load, a store (_w) by the inner assignment, and one more (_v) by outl.
PCs == {"ready", "empty", "asleep", "woken",
        "rd_off", "rd_off_w", "rd_off_v", "rd_avail", "rd_data", "rd_head", "rd_wrap",
        "rd_on", "rd_on_w", "rd_on_v",
        "wr_off", "wr_off_w", "wr_off_v", "wr_free", "wr_data", "wr_data_w",
        "wr_tail", "wr_tail_w", "wr_wrap", "wr_wrap_w", "wr_on", "wr_on_w", "wr_on_v"}

\* At work on the receive and on the transmit FIFO
Reading(t) ==
    task[t].pc \in {"rd_avail", "rd_data", "rd_head", "rd_wrap", "rd_on", "rd_on_w"}
Writing(t) ==
    task[t].pc \in {"wr_free", "wr_data", "wr_data_w", "wr_tail", "wr_tail_w",
                    "wr_wrap", "wr_wrap_w", "wr_on", "wr_on_w"}

\* Holding a copy of UART1Ctrl that is yet to be stored
Copied == {"rd_off_w", "rd_off_v", "rd_on_w", "rd_on_v",
           "wr_off_w", "wr_off_v", "wr_on_w", "wr_on_v"}
Holding(t) == task[t].pc \in Copied

Idle == [pc |-> "ready", reg |-> {}, idx |-> 0, len |-> 0, left |-> 0, got |-> FALSE]

At(t, pc) == task[t].pc = pc
Goto(t, pc) == task' = [task EXCEPT ![t].pc = pc]

\* What a task does to others when it stores UART1Ctrl and goes on at next. "ctrl":
\* another one holds a copy of the register, which is stale from now on. "tx":
\* another one is at work on the transmit FIFO, and this one joins it. ("wild" is
\* set in WriteDataStore.)
Crossing(t, next) ==
    (IF \E u \in Tasks \ {t} : Holding(u) THEN {"ctrl"} ELSE {})
        \cup (IF next = "wr_free" /\ \E u \in Tasks \ {t} : Writing(u) THEN {"tx"} ELSE {})

LoadCtrl(t, pc, next) ==
    /\ At(t, pc)
    /\ task' = [task EXCEPT ![t].pc = next, ![t].reg = ctrl]
    /\ UNCHANGED <<rx, tx, ctrl, hwrx, hwtx, arrived, written, got, sent, over, crossed>>

\* A task that is between calls has no locals.
Leave(t, next) ==
    LET reg == IF next \in Copied THEN task[t].reg ELSE {}
    IN  task' = [task EXCEPT ![t] = IF next \in {"ready", "empty"}
                                      THEN [Idle EXCEPT !.pc = next]
                                      ELSE [@ EXCEPT !.pc = next, !.reg = reg]]

StoreCtrl(t, pc, next, value) ==
    /\ At(t, pc)
    /\ ctrl' = value
    /\ Leave(t, next)
    /\ crossed' = crossed \cup Crossing(t, next)
    /\ UNCHANGED <<rx, tx, hwrx, hwtx, arrived, written, got, sent, over>>

\* gets()/getchar(): read one byte; with echo, write it; without one, wait.
StartRead(t) ==
    /\ t = reader
    /\ At(t, "ready")
    /\ Goto(t, "rd_off")
    /\ UNCHANGED <<rx, tx, ctrl, hwrx, hwtx, arrived, written, got, sent, over, crossed>>

ReadOff(t) == LoadCtrl(t, "rd_off", "rd_off_w")

ReadOffStore(t) ==
    \/ StoreCtrl(t, "rd_off_w", "rd_off_v", task[t].reg \ {"RIE"})
    \/ StoreCtrl(t, "rd_off_v", "rd_avail", task[t].reg \ {"RIE"})

\* uart_fifo_available looks at head and tail several times: if the handler may
\* come in between, the count may be anything.
ReadAvail(t) ==
    /\ At(t, "rd_avail")
    /\ \E any \in IF "RIE" \in ctrl THEN BOOLEAN ELSE {FifoAvailable(rx) > 0} :
           task' = [task EXCEPT ![t].pc = IF any THEN "rd_data" ELSE "rd_on", ![t].got = any]
    /\ UNCHANGED <<rx, tx, ctrl, hwrx, hwtx, arrived, written, got, sent, over, crossed>>

\* uart_fifo_remove, one byte: the byte at the head; ++head; wrap the head.
ReadData(t) ==
    /\ At(t, "rd_data")
    /\ got' = IF RxBroken THEN got ELSE Append(got, rx.data[rx.head])
    /\ Goto(t, "rd_head")
    /\ UNCHANGED <<rx, tx, ctrl, hwrx, hwtx, arrived, written, sent, over, crossed>>

ReadHead(t) ==
    /\ At(t, "rd_head")
    /\ rx' = [rx EXCEPT !.head = @ + 1]
    /\ Goto(t, "rd_wrap")
    /\ UNCHANGED <<tx, ctrl, hwrx, hwtx, arrived, written, got, sent, over, crossed>>

ReadWrap(t) ==
    /\ At(t, "rd_wrap")
    /\ rx' = [rx EXCEPT !.head = Wrap(@)]
    /\ Goto(t, "rd_on")
    /\ UNCHANGED <<tx, ctrl, hwrx, hwtx, arrived, written, got, sent, over, crossed>>

ReadOn(t) == LoadCtrl(t, "rd_on", "rd_on_w")

\* Fault: the value loaded before the read is written back unchanged.
ReadOnStoreStale(t) ==
    \/ StoreCtrl(t, "rd_on_w", "rd_on_v", task[t].reg)
    \/ StoreCtrl(t, "rd_on_v", IF task[t].got THEN "ready" ELSE "empty", task[t].reg)

ReadOnStore(t) ==
    \/ StoreCtrl(t, "rd_on_w", "rd_on_v", task[t].reg \cup {"RIE"})
    \/ StoreCtrl(t, "rd_on_v", IF task[t].got THEN "ready" ELSE "empty",
                 task[t].reg \cup {"RIE"})

\* wait(cons_in_completion): a system call, so one step. Other bytes may have
\* arrived since uart_read found none.
Wait(t) ==
    /\ At(t, "empty")
    /\ Goto(t, "asleep")
    /\ UNCHANGED <<rx, tx, ctrl, hwrx, hwtx, arrived, written, got, sent, over, crossed>>

\* Woken, the loop goes around. In gets() its condition first looks at c, which is
\* not initialised if no byte was read yet, and may end the line.
Resume(t) ==
    /\ At(t, "woken")
    /\ Goto(t, "rd_off") \/ Goto(t, "ready")
    /\ UNCHANGED <<rx, tx, ctrl, hwrx, hwtx, arrived, written, got, sent, over, crossed>>

\* cons_write(buf, len), from flush() or putchar().
StartWrite(t, len) ==
    /\ At(t, "ready")
    /\ \A u \in Tasks : written + task[u].left + len <= MaxOut
    /\ task' = [task EXCEPT ![t].pc = "wr_off", ![t].left = len]
    /\ UNCHANGED <<rx, tx, ctrl, hwrx, hwtx, arrived, written, got, sent, over, crossed>>

\* Fault: uart_write does not disable the transmit interrupt.
WriteOffSkipped(t) == LoadCtrl(t, "wr_off", "wr_free")

WriteOff(t) == LoadCtrl(t, "wr_off", "wr_off_w")

WriteOffStore(t) ==
    \/ StoreCtrl(t, "wr_off_w", "wr_off_v", task[t].reg \ {"TIE"})
    \/ StoreCtrl(t, "wr_off_v", "wr_free", task[t].reg \ {"TIE"})

Alone(t) == "TIE" \notin ctrl /\ \A u \in Tasks \ {t} : ~Writing(u)

\* len = min(len, available), where available is what uart_fifo_free returns. It
\* looks at head and tail several times: if they may move in between, the result
\* may be anything, and nothing is written if it is not positive.
WriteFree(t) ==
    /\ At(t, "wr_free")
    /\ \E room \in IF Alone(t) THEN {FifoFree(tx)} ELSE 0 .. task[t].left :
           task' = [task EXCEPT
                      ![t].pc = IF room > 0 THEN "wr_data" ELSE "wr_on",
                      ![t].len = IF task[t].left > room THEN room ELSE task[t].left]
    /\ UNCHANGED <<rx, tx, ctrl, hwrx, hwtx, arrived, written, got, sent, over, crossed>>

\* uart_fifo_add, one byte: data[tail] = byte; ++tail; wrap the tail. Each loads
\* the tail before it stores.
LoadTail(t, pc, next) ==
    /\ At(t, pc)
    /\ task' = [task EXCEPT ![t].pc = next, ![t].idx = tx.tail]
    /\ UNCHANGED <<rx, tx, ctrl, hwrx, hwtx, arrived, written, got, sent, over, crossed>>

Stored(t, next) == task' = [task EXCEPT ![t].pc = next, ![t].idx = 0]

WriteData(t) == LoadTail(t, "wr_data", "wr_data_w")

\* Behind the last slot is the head itself ("wild"): what follows is not modelled.
WriteDataStore(t) ==
    /\ At(t, "wr_data_w")
    /\ IF task[t].idx < N
         THEN tx' = [tx EXCEPT !.data[task[t].idx] = written + 1] /\ UNCHANGED crossed
         ELSE crossed' = crossed \cup {"wild"} /\ UNCHANGED tx
    /\ written' = written + 1
    /\ Stored(t, "wr_tail")
    /\ UNCHANGED <<rx, ctrl, hwrx, hwtx, arrived, got, sent, over>>

WriteTail(t) == LoadTail(t, "wr_tail", "wr_tail_w")

WriteTailStore(t) ==
    /\ At(t, "wr_tail_w")
    /\ tx' = [tx EXCEPT !.tail = task[t].idx + 1]
    /\ over' = IF Wrap(task[t].idx + 1) = tx.head THEN over \cup {"tx"} ELSE over
    /\ Stored(t, "wr_wrap")
    /\ UNCHANGED <<rx, ctrl, hwrx, hwtx, arrived, written, got, sent, crossed>>

\* The byte is in: on to the next one.
NextByte(t) ==
    task' = [task EXCEPT ![t].pc = IF task[t].len > 1 THEN "wr_data" ELSE "wr_on",
                         ![t].len = @ - 1, ![t].left = @ - 1]

WriteWrap(t) ==
    /\ At(t, "wr_wrap")
    /\ IF tx.tail >= N THEN Goto(t, "wr_wrap_w") ELSE NextByte(t)
    /\ UNCHANGED <<rx, tx, ctrl, hwrx, hwtx, arrived, written, got, sent, over, crossed>>

WriteWrapStore(t) ==
    /\ At(t, "wr_wrap_w")
    /\ tx' = [tx EXCEPT !.tail = 0]
    /\ NextByte(t)
    /\ UNCHANGED <<rx, ctrl, hwrx, hwtx, arrived, written, got, sent, over, crossed>>

WriteOn(t) == LoadCtrl(t, "wr_on", "wr_on_w")

\* cons_write calls uart_write again until all bytes are in the FIFO.
WriteOnStore(t) ==
    \/ StoreCtrl(t, "wr_on_w", "wr_on_v", task[t].reg \cup {"TIE"})
    \/ StoreCtrl(t, "wr_on_v", IF task[t].left > 0 THEN "wr_off" ELSE "ready",
                 task[t].reg \cup {"TIE"})

Read(t) ==
    \/ StartRead(t) \/ ReadOff(t) \/ ReadOffStore(t) \/ ReadAvail(t)
    \/ ReadData(t) \/ ReadHead(t) \/ ReadWrap(t) \/ ReadOn(t) \/ ReadOnStore(t)
    \/ Wait(t) \/ Resume(t)

Write(t) ==
    \/ WriteOff(t) \/ WriteOffStore(t) \/ WriteFree(t) \/ WriteData(t) \/ WriteDataStore(t)
    \/ WriteTail(t) \/ WriteTailStore(t) \/ WriteWrap(t) \/ WriteWrapStore(t)
    \/ WriteOn(t) \/ WriteOnStore(t)

-----------------------------------------------------------------------------
\* ep93xx_uart_open: FIFOs cleared, both interrupts enabled.
Init ==
    /\ rx = Empty /\ tx = Empty
    /\ ctrl = {"RIE", "TIE"}
    /\ hwrx = <<>> /\ hwtx = <<>>
    /\ task = [t \in Tasks |-> Idle]
    /\ arrived = 0 /\ written = 0
    /\ got = <<>> /\ sent = <<>>
    /\ over = {} /\ crossed = {}

Followed == crossed \subseteq Follow

Next ==
    /\ Followed
    /\ \/ ByteArrives \/ ByteLeaves \/ Isr
       \/ \E t \in Tasks : Read(t) \/ Write(t) \/ \E len \in Lens : StartWrite(t, len)

Spec == Init /\ [][Next]_vars

\* The device interrupts while its line is asserted, bytes leave the line, and a
\* task that is in the middle of a call goes on with it (CpuShare!NoStarvation;
\* a process goes on when the handler on top of it has ended). No task has to
\* start a call, and no byte has to arrive. The interrupt is taken before the next
\* instruction of any task, so it is enough that its line is asserted again and
\* again: cons_write, which calls uart_write until there is room, enables it for a
\* moment on every turn.
FairSpec ==
    /\ Spec
    /\ SF_vars(Followed /\ Isr)
    /\ WF_vars(Followed /\ ByteLeaves)
    /\ \A t \in Tasks : WF_vars(Followed /\ Write(t))
    /\ WF_vars(Followed /\ Read(reader) /\ ~At(reader, "ready"))

-----------------------------------------------------------------------------
(* Properties *)

TypeOK ==
    /\ rx \in [data : [0 .. N - 1 -> 0 .. MaxIn], head : 0 .. N, tail : 0 .. N - 1]
    /\ tx \in [data : [0 .. N - 1 -> Nat], head : 0 .. N - 1, tail : Nat]
    /\ ctrl \subseteq {"RIE", "TIE"}
    /\ hwrx \in {<<>>} \cup {<<b>> : b \in 1 .. MaxIn}
    /\ hwtx \in Seq(Nat) /\ Len(hwtx) <= 1
    /\ task \in [Tasks -> [pc : PCs, reg : SUBSET {"RIE", "TIE"}, idx : Nat,
                            len : 0 .. MaxOut, left : 0 .. MaxOut, got : BOOLEAN]]
    /\ arrived \in 0 .. MaxIn /\ written \in Nat
    /\ over \subseteq {"rx", "tx"} /\ crossed \subseteq {"ctrl", "tx", "wild"}
    /\ "tx" \notin crossed => tx.tail <= N

\* "Disable transmit so we don't clash with the transmit queue" (dev/uart.c:71)
\* and "Disable receive so we don't clash with the receive queue" (dev/uart.c:98):
\* while a task works on a FIFO, the interrupt that works on the other end of it
\* is disabled. A second writer enables it when it is done, under the first.
NoClash ==
    \A t \in Tasks : /\ Reading(t) => "RIE" \notin ctrl
                     /\ Writing(t) => "TIE" \notin ctrl

\* What is left of NoClash: only two things let the interrupt in while a task works
\* on a FIFO. Either another task stored the enable register while this one, or a
\* third, was in the middle of rewriting it; or, for the transmit FIFO, two tasks
\* were in uart_write at once. Whatever else tasks and handler do to the register
\* between each other's accesses keeps the interrupt out.
KeptOut ==
    \A t \in Tasks :
        /\ Reading(t) /\ "RIE" \in ctrl => "ctrl" \in crossed
        /\ Writing(t) /\ "TIE" \in ctrl => crossed \intersect {"ctrl", "tx"} # {}

TxArmed ==
    (\A t \in Tasks : ~Writing(t) /\ task[t].pc \notin {"wr_off_w", "wr_off_v"})
        /\ tx.head # tx.tail
            => "TIE" \in ctrl

RxArmed == At(reader, "asleep") => "RIE" \in ctrl

\* Output never stalls and input is never deaf: when no write is under way and
\* bytes are queued, the transmit interrupt that will move them is enabled,
\* although the handler disables it and every call rewrites the register it
\* lives in; and a reader that sleeps for input has left the receive interrupt
\* enabled. So it is with any number of tasks inside uart_write at once, as long
\* as none of them stores the register while another holds a copy of it: then the
\* stale copy may take either bit away for good (arch/uart.c:127, 133, 139, 145).
Armed == "ctrl" \in crossed \/ (TxArmed /\ RxArmed)

InOrder(s) == \A i \in 1 .. Len(s) : s[i] = i

\* Bytes in the receive FIFO that uart_read has not returned yet
Unread == IF At(reader, "rd_head") THEN Tail(Contents(rx)) ELSE Contents(rx)

RxInOrder == RxBroken \/ InOrder(got \o Unread \o hwrx)

TxInOrder == TxBroken \/ InOrder(sent \o hwtx \o Contents(tx))

\* Bytes go through each FIFO in order, each exactly once, until it is overrun
\* (uart_fifo_free reports what is held, not what is free), tasks cross in the
\* enable register, or, for output, two tasks write at once. A byte being removed
\* has been returned already but is still in the FIFO.
BytesInOrder == RxInOrder /\ TxInOrder

\* What is queued for output leaves on the line, however many tasks are in
\* uart_write, unless a stale copy of the enable register was stored, or a byte
\* went to a place behind the FIFO.
TxDrains ==
    (tx.head # tx.tail /\ "tx" \notin over) ~>
        (tx.head = tx.tail \/ "ctrl" \in crossed \/ ~Followed)

\* A byte that arrives while the reader sleeps for input wakes it, unless a stale
\* copy of the enable register was stored.
InputWakes ==
    (At(reader, "asleep") /\ hwrx # <<>>) ~>
        (~At(reader, "asleep") \/ "ctrl" \in crossed \/ ~Followed)

=============================================================================
