# A TLA+ model of ERTOS

ERTOS is a small real-time operating system for the EP9302 (ARM920T) boards:
a preemptive round-robin scheduler, a dozen system calls, a fixed-chunk
allocator, a console UART, an Ethernet/IP stack, and drivers for NAND and USB.
This directory holds TLA+ modules translated from that source, TLC
configurations that check them on small instances, and theorems that TLAPS
checks for every value of the constants.

`PROJECT.json` maps every definition to the lines it models, lists the runs, the
mutants (plausible bugs under which each property fails), the hazards of the
code and the disagreements between code and comments that the runs show.

## 1. Inventory

| Part | State it keeps | Operations | What makes it correct |
|---|---|---|---|
| Scheduler (`kernel/sched.c`, `kernel/timers.c`) | `procs` (circular list of `struct proc`), `cur`, `_need_reschedule`, `sched_enabled`, `clkticks`, the timer part of each process | `spawn`, `enable_scheduler`, `timer_int`, `schedule` with `check_timers`, `handle_task_timer`, `handle_task_timer_done`, `swtch` | one process is `PROC_ACTIVE`; nobody who wants the processor is dropped or starved; sleeps end, alarms fire; handlers do not nest |
| System calls (`kernel/syscall.c`) | process states, `event_mask`, wait queues | `sys_wait`, `sys_wake`, `sys_sleep`, `sys_yield`, `sys_event_set`, `sys_event_wait`, `sys_alarm`, `sys_utt_done` | a process that blocks does not run on; a wake-up is not lost; a killed process stays dead |
| Exception entry (`arch/irq.S`, `arch/cpu.S`, `kernel/irq.c`) | saved registers | interrupt, system call, page fault | rescheduling happens where it was asked for |
| FIFO and list (`kernel/list.c`, `sys/list.h`) | ring of pointers with head, tail, free count; intrusive lists | `bfifo_alloc`, `bfifo_queue`, `bfifo_dequeue`, `list_add_after`, `list_remove` | behaves as a bounded queue |
| Allocator (`kernel/mem.c`) | heap cursor, one FIFO of free chunks per size | `smalloc`, `malloc`, `free`, `mem_init` | blocks in use are disjoint and large enough |
| UART (`arch/uart.c`, `dev/uart.c`, `sys/uart.h`) | two byte FIFOs, interrupt enables, the receive completion | `uart1_intr`, `uart_read`, `uart_write` | tasks and handler do not touch one FIFO at once, but where tasks cross; bytes keep their order; output drains; input wakes the reader |
| Console, stdio (`kernel/cons.c`, `lib/stdio.c`) | per-process output buffer | `cons_read`, `cons_write`, `getchar`, `gets`, `putchar`, `flush`, `printf` | a reader sleeps only without input; nothing is lost between buffer and FIFO |
| Semaphores (`kernel/sem.c`, `arch/sem.S`) | count, waiter list | `sem_init`, `sem_try_down`, `sem_down`, `sem_up` | mutual exclusion, waiters are woken |
| Ethernet (`net/dll/eth.c`, `arch/eth.c`) | rx/tx packet queues, descriptor and status rings, `rx_completion` | `en_eth_rx`, rx and tx tasks, `process_rx_queue`, `process_tx_queue`, `ep9301_xmit` | each frame is processed once and freed once; the receive task is not left asleep with work queued |
| ARP, IP, ICMP, UDP (`net/dll/arp.c`, `net/trans`) | ARP cache, routing table | one input handler per protocol, `en_ip_output`, `en_arp_request`, route operations | every packet ends up freed or queued; the cheapest matching route is used |
| Packets (`net/core/pkt.c`) | buffer, length, capacity | `pkt_alloc`, `pkt_free`, `pkt_grow`, `pkt_add_head`, `pkt_add_tail`, `pkt_del_head` | length never exceeds capacity |
| USB (`dev/usb.c`, `dev/ohci.c`) | next address, list of devices, the root hub's addresses and endpoint 0, the controller's registers | `ohci_init`, `usb_attach_device`, `hub_out`, `hub_in`, `ohci_isr` | host and hub use one address; descriptors end up where they belong; a failed enumeration frees the device's memory |
| NAND (`dev/nand.c`, `dev/hamming.c`) | chip registers and memory, error-correcting codes | reset, read, program, erase; `hamming_compute_256`, `hamming_correct_256` | ready is awaited; a page reads back as written or says that it does not; nothing else is touched |
| C library (`lib/`) | none | division, memory and string functions | they compute what their names say |
| User programs (`user/`) | none shared | console commands, `red` | use the calls as intended |

How they interact. User programs enter the kernel by `swi` (`arm_svc_entry`,
`c_svc`, one function of `syscall_table`). Devices and the 100 Hz timer enter by
`arm_irq_entry` and `c_irq`; handlers call kernel functions directly
(`ep93xx_uart_rx` calls `sys_wake`). Both paths end by looking at
`_need_reschedule`: an interrupt then runs `schedule()` and loads another
process's registers; a system call waits for the next interrupt, which does.
User code and drivers' task-side code (`uart_write`, the allocator, the network
tasks) run with interrupts on and are preempted anywhere.

What is hard. The interleaving of calls with interrupts is coarse (calls are
atomic) but its effects are not: a process's state is written by its own calls,
by wake-ups, by its alarm, by the end of its alarm handler and by a kill, and the
scheduler sees only the last of these. Alarm handlers run on top of a blocked
process and restore the old state afterwards. Times are 32-bit and wrap. Below
that, task-side code shares FIFOs and a device register with a handler, guarded
only by an enable bit in that same register. The allocator keeps all its state
in FIFOs that trust the pointers handed back. `PROJECT.json` lists each such
hazard with the line where it bites and the property that covers it, or why
none does.

## 2. Plan

Written, in this order:

1. `Sched` with its abstract specification `CpuShare`: the core.
2. `SchedProofs`: type correctness and three safety invariants of `Sched`.
3. `Bfifo`, `BfifoProofs`: the FIFO as operators, and proofs that it is a
   bounded queue, so that `Sched` may use sequences for wait queues.
4. `Uart`: the console path.
5. `Mem`: the allocator over `Bfifo`.
6. `Pkt`, `PktProofs`: packet buffers as operators on sequences, and proofs of
   what each operation does to the contents.
7. `Net`: the network stack over `Pkt`: who holds a packet, who frees it, what is
   sent.
8. `Usb`: bringing up the controller and enumerating the root hub.

9. `Hamming`, `Nand`, `NandProofs`: the flash driver against the chip, what its code
   corrects, as operators and as theorems, and the proof that pages read back.
10. `Eth`: the queues of the receive and transmit tasks pointer by pointer against
   the driver's interrupt handler, and the status and descriptor rings.
11. `Lib`, `Routes`: division, checksums, strings, numbers as text, the console's line, the
   output buffer and the routing table against reference definitions.

12. `SchedProofs` (with the refinement of `CpuShare`), `UartProofs`, `EthProofs`, `NetProofs`,
   `MemProofs`: the safety properties of these modules for every value of their constants. In
   `EthProofs` the one about the linked lists came last, since it needs to know what a walk
   along the pointers finds.

## 3. Modules

**`CpuShare`** is what a scheduler promises: a holder, a pool of processes that
want the processor, nobody leaves the pool except by being dispatched, the
processor idles only when the pool is empty, nobody starves.

**`Sched`** has one variable per kernel global (`proc` is the table of
`struct proc`, `ring` the circular list as a sequence from its head, `need` is
`_need_reschedule`) and one action per system call, interrupt and boot step.

* A system call or interrupt handler is one action because it runs with IRQs
  masked. A call that asked for a reschedule is followed by an interrupt before
  its caller runs user code (`irq.S:84-87`): calls are enabled only while `need`
  is false. Preemption between any two calls is free.
* `schedule()` is `Schedule`: put the old process back (`PutBack`), scan from
  its successor (`ScanOrder`), check the timers of every process passed
  (`CheckTimers`), switch to the first that can run, else to idle. Its branch for
  `cur == NULL` cannot be reached: `sched_init` sets `cur` before interrupts are
  on.
* A register set is reduced to the code it would resume (program, alarm handler,
  the spin behind the trampoline, the spin behind a page fault) and to the call
  that code blocked in. `backup_regs` and the swap of register sets around an
  alarm handler are modelled.
* `spawn` inserts behind the head (`list_add_after`); the timer may interrupt
  between two spawns. It runs only at boot, before `enable_scheduler`, which is
  the only place the repository calls it from. `spawn` may fail.
* A wait queue is a sequence of at most `QLen` elements; a full one refuses the
  caller, which then changes nothing. `BfifoProofs` is the reason why the ring
  buffer may be read as a sequence.
* `DeviceInt(c)` is any handler that completes `c`. What programs do is the
  constant `Uses`: which calls each makes, in any order.
* The scan relies on `prev` pointers nowhere, so they are not modelled.

**`Uart`** has any number of tasks, which is whatever prints: a process, the alarm
handler that the kernel puts on top of one (`handle_alarm` in `user/console.c` prints on top
of a `uart_write` it preempted), the network tasks, an interrupt handler or a page
fault. Nothing locks the driver, so a task may be stopped anywhere in it while another runs.
One task also reads, the console.

* A task is at a program point and executes one access to shared memory or to
  `UART1Ctrl` per action. Setting or clearing an enable bit,
  `outl(UART1Ctrl, (inl(UART1Ctrl) &= ~TIE))`, is a load and two stores, one by the inner
  assignment and one by `outl` (`arch/regs.h:306-307`). `uart_fifo_add` loads the tail before each
  store of it. The handler and `wait()` are one action each (interrupts masked).
* The device, which is not in the repository, holds one byte each way because
  `UART1LinCtrlHigh` leaves its FIFOs off (`arch/uart.c:87`); a byte that arrives
  while the last is unread is lost in the device and is a step that changes
  nothing. Bytes are numbered so that order, loss and duplication show.
* `gets` and `getchar` are a loop of `uart_read`, echo and `wait`; line editing is in
  `Lib`. `c` in `gets()` is read uninitialised if no byte was read, so `Resume` may go
  on or return.
* History variables: `arrived`, `written`, `got`, `sent`; `over`, the FIFOs that were ever
  filled onto themselves; `crossed`, how tasks have crossed each other. `"ctrl"`: one stored
  the enable register while another held a copy of it. `"tx"`: two were in `uart_write` at
  once. `"wild"`: one of those wrote a byte behind the FIFO, where its head is; the
  model stops there. `Follow` names the crossings after which a behaviour is followed.
* `uart_fifo_free` returns the number of bytes held, not the room its comment promises, so a
  FIFO is overrun when more than its size is pending. The order properties are stated up to
  the first overrun or crossing that touches the FIFO.

**`Bfifo`** has the operations of `struct bfifo` on records, and
`BfifoContents`, the queue such a record stands for.

**`Mem`** computes the layout that `mem_init` produces (addresses are offsets
from the aligned heap start; sizes are multiples of 4, so chunks are contiguous)
and has the actions `Smalloc`, `Malloc` and `Free` on the FIFOs of free chunks. A
call is one action: `malloc` takes no lock (the comment at `mem.c:103` asks for
one), so preempted callers are not covered. Calls that return NULL change
nothing.

**`Pkt`** has `struct en_net_pkt` as a record of a buffer (a sequence of cells) and
a length, and its operations as operators: `pkt_alloc` and `pkt_grow` with their
padding, `pkt_reserve`, `pkt_add_head`, `pkt_add_tail`, `pkt_add`, `pkt_del_head`.
A cell is what the user of the module takes it to be. Each operator is the outcome
in which `malloc` succeeds; where it fails the caller's action chooses otherwise
(`Added` lists all outcomes of `pkt_add`). `Ocksum16` takes the sum of the
buffer's words, which is all the checksum depends on.

**`Net`** is the path of a frame: `DriverRx` (the driver allocates a packet and
`en_eth_rx` queues it), `RxTake` (`en_eth_rx_drain`), one action per input handler
and kind of message, `TxStep` (`en_eth_tx_task` and `ep9301_xmit`).

* A cell is a header: one for Ethernet, ARP, IP, IP options, ICMP, UDP, padding.
  Lengths, the strip of a header and the 46-byte minimum of a frame (three cells)
  are counted in cells. `ok` in a header stands for the checks that look at nothing
  else in the packet; the ICMP checksum is computed with the code's arithmetic.
  An ARP request is sent with 12 bytes behind its addresses (`arp.c:148` counts
  four hardware addresses); they are part of its cell.
* `NetAssumption` says what a frame is: at least an Ethernet header and a message of the
  type it names; an ARP message names its sender; a header that says ICMP has its options and
  an ICMP message behind it, within the length it states. No handler checks that last part:
  `en_icmp_input` works on whatever is at that place. A datagram may state any length, 0
  included (`TypeOK` lets `len` be 0), and may be padded.
* A handler runs in the receive task alone and shares only the queues with others,
  so it is one action, up to and including `en_eth_output`. Queue operations are
  taken as atomic, although the locks around them are commented out; what their
  races do is in `Eth`.
* A packet's memory is the packet itself: `Pkts` is what `malloc` has left. Every
  allocation may fail: that of a received frame, of an ARP request, of a cache
  entry, and the growth of a buffer for a header, which the callers do not notice.
  The history variable `cut` names the packets this happened to.
* One interface, which is bound from the start; routes are reduced to the set
  `Reachable`, since with one interface the choice by metric has no effect; the table
  itself is in `Routes`.
* Packets are queued and taken at the same end, as in the code.

**`Usb`** is the command `usb init`: `ohci_init`, then `usb_attach_device` with the
root hub, whose endpoint 0 (`hub_out`, `hub_in`) answers the host's messages in the
same task. A request is three messages and a read: `Setup`, `Data`, `In` and one of
`Assign`, `ReadDevice`, `ReadString`, `ReadConfiguration`. Each action ends where
memory is allocated or a message has reached the hub, so that a request is given up in
every state of the hub. Descriptors are what they describe, not bytes. The
failures of `ohci_init` that come before the controller is reset change nothing and are
left out; the interrupt handler only acknowledges and prints. A second `usb init` finds the
controller in use. The packets of the messages are counted (`packets`): the driver of the
controller owns them (`usb.c:185`: "HCD now owns token") and never frees any, so `InitLeaves`
says what does remain, `PacketMax` of them at most.

**`Hamming`** is the code of `dev/hamming.c`. A bit's index is the function of its
binary digits (8 of the byte, 3 of the bit in it), so the module is the same for
any odd number of digits above one, 11 included; a block and a code are the sets of
their bits that are one. `Compute` is `hamming_compute_256` with its inverted pad
bits, `Verdict` and `Corrected` are `hamming_correct_256`.

**`Nand`** has each function of `dev/nand.c` as the sequence of bus cycles it
performs (select, command, address, data in, data out, the wait for ready, deselect),
and the console commands as the cycles they add up to. One action is one cycle.
The chip is external: a table of the commands it accepts in each mode (`Follows`),
a page register, and an array of pages. While it is busy it takes no cycle but
`RESET`'s end, a load, a program or an erase is a step of its own (`ChipDone`),
which may fail; programming only clears bits; bits of the array change while it
rests (`Flip`). A page is reduced to the columns that are addressed: eight blocks, their
codes, the mark of a bad page. `want` is what the user was told the pages hold. Two tasks
using the driver at once are not modelled: only the console uses it. `NandAssumption` says
that a command names pages, blocks, sectors and columns the chip has (`CommandOK`), which
the driver takes for granted, and that the bits that may change are bits of the chip.

**`Eth`** has the four parties that share the rings and lists of the Ethernet code:
the controller (external: `Post`, `Send`), the interrupt handler, the receive task and
the transmit task. A step of the handler is one access to the controller or one frame;
tasks stop while it runs. A task's step is one half of `list_add_after` or of
`list_remove`. What input handlers do to a packet is in `Net`; here `RxInput` frees it or sends
it. History is kept in one record `h`: the frames the handler should see next, whether it
has gone astray, which packets were dropped from a queue, whether a queue was
corrupted, whether a descriptor was overwritten. The handler goes astray, as the code
does, on a frame shorter than 60 or longer than 1518 bytes, whose status it never moves past,
and on a status that is posted after the interrupt was cleared and before
`RXStsQCurAdd` was read. Once a list is corrupted the model stops, because what a task
does with memory that is something else is not in this code. `process_tx_queue` only
reports, and is left out.

**`Lib`** has one operator for each function that loops over its arguments, built
from what one round of the loop does, and one behaviour per call: `Init` picks function and
arguments, `Return` gives the result. Machine integers have `W` bits and wrap as the build
(without optimisation) does. `Gets` takes the keys typed, `IDLE` where there is none yet, and
the value the uninitialised `c` happens to have. The properties compare results with
definitions of another form: quotient and remainder for shifting and subtracting, long
division of polynomials for the checksums, the characters not erased by any later key for
line editing, maximal runs for the word splitter.

**`Routes`** is the routing table of `net/trans/ip.c` over the pointers of
`list_add_after` and `list_remove`: adding a route, deleting one, and looking up the matching
route of least metric. A netmask is the number of its zero bits. `Lib` runs sequences of
additions and deletions of routes that can be found, looks up every address after them, and
compares the list with what the operations mean (`Meant`): an addition puts one route in
front, a deletion removes one. `MemoryRight` asks that of sequences that delete the newest
route only, `DeletesOne` of all.

**`MCSched`, `MCUart`, `MCMem`, `MCCalls`, `MCNet`, `MCCommands`, `MCEth`** hold the small
instances. Two of them hold two components each that share no state, `MCCalls` those of `Mem`
and `Lib`, `MCCommands` those of `Nand` and `Usb`. `MCInit` and `MCNext` let a behaviour be one of the first
component, in which the second rests, or the other way round, so the states are those of the one and those of the
other, and each property speaks of its own. The symmetry of `calls` permutes
the allocator's `Slots`, which `Lib` does not mention.

A definition whose comment begins with "Fault:" is a plausible bug, kept beside
the definition it alters; no specification uses it.

## 4. Runs

| Run | Question | Bounds | Result |
|---|---|---|---|
| `sched_safety` | Do the calls, interrupts, alarms and faults keep the process table consistent, and does `Sched` implement `CpuShare`? | 2 processes, 1 completion with queue of 2, 1 event, clock modulo 4 | holds |
| `sched_live` | Is anybody starved, does a sleep not end, an alarm not fire? | 3 processes, one computing for ever; clock modulo 6 | holds |
| `sched_lost_wakeup` | Is a sleeping process always waiting for something? | 2 processes, 1 completion | violated |
| `uart` | Do tasks and handler keep out of each other's way but where tasks cross, is what is enabled what has to be, order, draining, waking | 2 tasks, one of which reads, FIFOs of 2, 2 bytes in, 3 out, writes of 1 and 2; followed after two tasks were in `uart_write` | holds |
| `uart_clash` | Is the interrupt disabled whenever a task works on the FIFO? | the same | violated |
| `calls` | FIFOs, chunk sizes, interior chunks, static regions; do the library functions compute what their reference definitions say? | allocator: 2 steps of 2 chunks, 4 blocks; library: longs of 5 bits, memory of 5 bytes, strings up to 3, up to 5 keys or characters, buffers of 2 and 3, every argument of `usb_crc5`, 2 to 4 bytes for `usb_crc16`, 5 routes, 4 additions or deletions | holds |
| `calls_routes` | Does deleting a route remove that route alone? | the same | violated |
| `mem_boundary` | Are blocks in use disjoint? | the allocator's | violated |
| `net` | One holder per packet, frames sent to the right host, packets lost on known paths only, cache, draining | 2 packets, 17 frames, 2 hosts of which one has a route, 2 claimants of one address | holds |
| `net_echo` | Would echo replies pass the check made of messages received? | the same | violated |
| `commands` | NAND: does a page read back as written, does a command touch only its target, does it end? USB: do host and hub agree on the address and the descriptors, what stays allocated, does `usb init` end? | NAND: 2 erase blocks of 2 pages, blocks of 2^3 bits, 3 of 10 commands, 2 changed bits, failing programs and erases; USB: 1 controller, its root hub, every allocation may fail | holds |
| `eth` | Do the rings stay in step, who holds a packet, does the handler catch up? | 3 statuses, 2 descriptors, 3 packets, 3 frames | holds |

Why the bounds are enough. Two processes give every pair of roles (caller and
target, sleeper and waker, the process preempted and the one selected), the
third in `sched_live` gives a scan that stops before it reaches everybody. A
clock modulo 4 or 6 wraps in every behaviour, so the wrap of a `uint32_t` is part
of every run. The UART's FIFOs of two slots wrap and overrun within three bytes. Its second
task is the alarm handler, the kernel or another process: a task that runs from its first
access to its last while the other stands still is one of the interleavings. After a stale
copy of the enable register was stored every property of `uart` allows everything, so `Follow`
leaves those behaviours out; `UartProofs` has no such bound. Two
allocation steps have one inner boundary, which is where steps touch. Two packets
let one be received, or asked for by ARP, while another is processed or waits to be
sent; the frames take every branch of every handler, with and without options and
padding. In `commands` three NAND commands are an erase or write, another one and the read that shows
the damage; one or two bits may change in a block, in its code, or in both. Three statuses
wrap within three frames in `eth`, two descriptors are overrun by three, and three packets give one to each
queue and one to a task. Five bits hold the wrap of a `long`, both signs and two decimal digits; five keys
fill a line of three, erase and end it in every order. Four operations add three routes and
delete any of them, or delete one and add it again.

What the violated runs show (quoted in full in `PROJECT.json`):

* *Lost wake-up.* `handle_task_timer_done` puts back the `PROC_SLEEP` saved when
  the alarm handler started, although `sys_wake` dequeued the process meanwhile.
* *Clash.* "Disable transmit so we don't clash with the transmit queue" (`dev/uart.c:71`):
  a task preempted in `uart_write` finds the interrupt enabled again by the task
  that printed meanwhile, and goes on with the FIFO while the handler may take from it. Further on, a
  stale copy of `UART1Ctrl` can leave the transmit interrupt off with bytes queued, or the
  receive interrupt off while the console sleeps (`arch/uart.c:127-145`). `uart` says what holds
  nevertheless: nothing but such crossings lets the interrupt in (`KeptOut`), and without a
  stale copy what has to be enabled is (`Armed`), however many tasks write.
* *Boundary.* `ptr <= end` in `free` makes the first chunk of a step also a chunk
  of the step below. `calls` states what holds nevertheless: interior chunks are in
  one place and no block is too small.
* *Route deletion.* `en_ip_route_del` "removes the specified route" (`net/trans/ip.c:270`).
  After adding two routes, deleting the first leaves none: `list_add_after` does
  not change the `prev` of the element behind the new one, so `list_remove` unlinks
  every newer route as well.
* *Echo checksum.* `en_icmp_input` adds up the reply with the request's checksum in
  it, byte-swapped, and does not complement the sum.

Other disagreements that the models contain, and whose exceptions the properties of the
passing runs name: `check_timers` starts the alarm handler of a process that
`user_page_fault` killed; a byte between `uart_read` and `wait()` is not noticed
(`lib/stdio.c:265`); `en_arp_input` and `en_ip_input` leave without `pkt_free` when a check
fails, `en_ip_output` when there is no route or no hardware address (`LostWhere`); a
frame of bad length, a late status and an unlocked queue lose or repeat frames (`RingsInStep`,
`HeldOnce`); `gets` puts its NUL behind a full buffer and may return before a key was read,
`printf` prints of the smallest number only the sign (`TextRight`). Of two the properties leave the
result open: `strncpy` writes one byte more than it was given, and `strcmp` of two empty strings
(`MemoryRight`).

Fairness. `Sched`: the timer keeps interrupting (weak fairness of the clock's
movement, which only `TimerInt` brings about and which is always enabled) and
`main` gets through its boot sequence; nothing is assumed of programs or devices,
so a program may compute for ever. `TimersExpire` excludes times
within one turn of the list of the clock's wrap, where `clkticks >= t` does go
wrong. `Uart`: the handler runs if its line is asserted again and
again (strong fairness: `cons_write` calls `uart_write` until there is room, and each turn enables
the interrupt for a moment, before whose end the processor takes it), the device sends
what it holds, and a task in the middle of a call goes on with it, which is
what `EveryoneRuns` shows of the scheduler; no task has to begin a call and no byte
has to arrive. Where the kernel itself prints with IRQs masked this is not so: with a full FIFO it
would turn in `cons_write` for ever, and `TxDrains` does not speak of that. `Net`: the receive task goes on while it has something to do and the
transmit task's sleep ends, which `EveryoneRuns` and `TimersExpire` show of the
scheduler; no frame has to arrive. `QueuesDrain` speaks of a task that is awake: a
frame queued between its last look and `wait()` stays until the next one. `Usb`: a
command that was begun goes on, which again is `EveryoneRuns`; nobody has to type one. `Nand`: a command that
was begun goes on, as above, and the chip finishes what it does, which `nand_busy` loops rely
on; nobody has to give a command. `Eth`: the interrupt is taken and its handler runs to its
end, which the processor sees to; nothing is assumed of the tasks or of the network. `Lib` has no liveness.

Deadlock is checked in the runs of `Sched` and in those of `MCMem` and `MCCalls`: the scheduler and the allocator
never stop, and a library call that has returned stutters, so one that could not return would show. It is not in
those of `Uart`: once the bounded number of bytes has been received and sent,
the task may sleep for input for ever. Nor is it in those of `Net`: when every packet
has leaked and the receive task sleeps, nothing more can happen. Nor in that of `Nand` and `Usb`,
which rest when the bounded commands are used up and where `usb init` changes nothing the second time,
nor in that of `Eth`, which rests when the bounded frames are used up.

## 5. Proofs

`SchedProofs` proves, for any set of processes, boot order, queue length, clock
width, set of periods and set of programs (`SchedAssumption`):

* `TypeCorrect`: `Spec => []TypeOK`;
* `OneActive`: `Spec => []OnlyCurActive`;
* `NoRunAfterBlock`: `Spec => []BlockedDoesNotRun`;
* `HandlersDoNotNest`: `Spec => []HandlerNotNested`.

They follow from one inductive invariant,
`IInv == TypeOK /\ TableOK(proc, cur) /\ CurOK /\ BlockedDoesNotRun`. `TypeOK` and
the three properties are not inductive by themselves: that the processor goes to
one process only depends on `cur` being in the list and on the idle task never
being queued; that handlers do not nest depends on `done` being set only by a
handler that is under way and on the registers kept aside being those of the
program. `TableOK` and `CurOK` say so, for each `struct proc` separately (`Good`).
`ScheduleOK` is the central lemma: from a good table, `schedule()` yields a good
table with exactly the chosen process active and no reschedule pending. Each
action then has a lemma of its own, and `StepOK` combines them.

`BfifoProofs` proves of every FIFO size and every position of head and tail that
`bfifo_queue` appends to the contents (or changes nothing when full),
`bfifo_dequeue` returns and removes the first element, and both keep head, tail and
free count consistent.

`PktProofs` proves of any kind of cell, any contents and any padding that
`pkt_grow` keeps contents and length (`GrownKeeps`), that `pkt_add_head`,
`pkt_add_tail` and `pkt_del_head` prepend, append and remove exactly what they are
given (`AddHeadPrepends`, `AddTailAppends`, `DelHeadRemoves`), each leaving a length
within the buffer, that removing an added header restores the payload
(`AddThenDel`), and what `pkt_add` leaves when it fails half-way (`AddedWraps`).
The argument is by indices: `StoredCells` says which cells a `memcpy` changes, and
`PayloadIs` that a packet's contents are determined by its first `len` cells.
`ChecksumTestExact` shows that adding the carry once, as `ocksum16` does, does not
make the test against `0xffff` wrong for any packet of up to 65535 words. The only
assumptions are that `Padding` is positive and that a zeroed cell is a cell.

`NandProofs` proves first of the code, for blocks of any size and contents (`DigitsAssumption`:
the digits of an index are finitely many, an odd number above one; blocks are finite), that one
changed bit is found and repaired (`OneErrorCorrected`), that a changed bit of the stored code is
told from one of the data (`CodeErrorHarmless`) and that two changed bits are always reported
(`TwoErrorsReported`). `CodesDiffer` is the central lemma: a changed bit turns the parity of
exactly the groups it belongs to, one per digit, so the difference of the codes has as many elements as
there are digits and spells out the index; two changed bits leave an even number, which is why
11 being odd matters. `Judged` puts the cases together: whatever one or two bits of a block
and its code have changed, what `hamming_correct_256` does is right.

Then, for any number of pages and of pages per block, any set of protected and of bad pages, any
commands and any changing bits (`NandAssumption`, section 3), it proves all three safety
properties of `Nand`: `TypeCorrect` (`TypeOK`), `ReadsBackAlways` (`ReadsBack`) and
`OnlyTargetAlways` (`OnlyTarget`). None is inductive: what a page read gives depends on what
the driver has brought the chip into over the last nine bus cycles. The invariant,
`IInv == TypeInv /\ Running`, says for each command and each of its cycles what is known before
it (`LoadStage`, `CellStage`, `EraseStage`, `FillStage` and their like): whether the chip is
selected, which command it is in, whether it may be busy, which page and column it was
given, what its register holds. It follows that no cycle is given to a busy chip and every command
is taken by the mode it is sent in. Across commands it keeps `Told(want)`: the memory differs from
what the user was told, and from the codes of that, only in bits that `flips` counts. When an
erase or a write has ended, and until its status is read, the same holds of what the user is
about to be told. A programmed cell keeps the ones it had in common with the data, so it is the
data only if the cell was erased (`CellFilled`), up to bits that had changed; `ErasedCode` is
why the code of an erased block counts as written: with the pad bits inverted, the code of all
ones is all ones. `FaultsCount` turns the number of faults, which the property speaks of, into the bits
that differ, which `Judged` speaks of.

Two more theorems of `SchedProofs` rest on that invariant. `WaitersAreQueued`: a process that
uses no alarm and sleeps in `wait()` is in a wait queue. The invariant that carries it,
`Found(p)`, adds that such a process has no alarm set, no handler under way and none done,
so what takes it out of a queue makes it runnable in the same step, and nothing puts back an
older state (with an alarm this is wrong, which `sched_lost_wakeup` shows).
`SchedImplementsCpuShare`: `Spec => ImplementsCpuShare`, the
refinement of `CpuShare` for any number of processes. Each action maps to joining the pool,
leaving it, a dispatch or a stutter; `Schedule` needs that the scan reaches
every process of the list once (`Listed`) and that idle is chosen only if none of them can
run. `ImplementsCpuShare` is the safety part of `CpuShare`; that nobody starves is `EveryoneRuns`.

`UartProofs` proves for FIFOs of any size, any number of bytes and any number of tasks that print
(`UartAssumption`): `TypeCorrect`, `InterruptsKeptOut` (`KeptOut`), `InterruptsArmed` (`Armed`) and
`NoByteLost` (`BytesInOrder`). The stronger claim of the comment, `NoClash`, is false with two
tasks, which `uart_clash` shows; the theorems say what other tasks can and cannot do. None of
the properties is inductive. The invariant is `UInv == TypeOK /\ CallsOK /\ TailOK /\ CtrlOK`:

* `CallsOK`: only the reader is at a point of `uart_read`, and how many bytes a write under
  way has left;
* `TailOK`: while `uart_write` was never entered by two, the tail a task has loaded is still
  the tail;
* `CtrlOK`: while no copy of `UART1Ctrl` went stale by another task's store, which enable bits
  are set, given the program points of all tasks, and what each copy not yet stored says of the
  bits its task does not mean to change. Meanwhile the handler may take `TIE` away, which
  storing the copy undoes without harm: it never touches `RIE`, and with `TIE` set again it finds
  nothing to send and takes it away once more.

`CtrlSuffices` gets `KeptOut` and `Armed` from it. `RxOK` and `TxOK` add that the bytes read or sent,
those in the device and those in the FIFO are 1, 2, 3, ... as long as the FIFO was not
filled onto itself and no crossing touched it; they need `UInv`, for the FIFO stands still
between a task's accesses only if the handler is kept out. `Contents` of a ring after one step of head or
tail is a lemma of its own, for every position.

`EthProofs` proves for rings of any size and any frames (`EthAssumption`) `TypeCorrect`,
`RingsAgree` (`RingsInStep`) and, for any finite number of packets, `HeldOnceAlways` (`HeldOnce`). On the receive side the invariant places three pointers: where the
controller posts next (`cur`), what the handler read of that (`isr.cur`), and where the handler is
(`last`). The statuses from `last` on are the frames it has yet to see, which stays true while
the controller posts between any two accesses of the handler. On the transmit side the
descriptors from the controller's index to the driver's are those still to be sent, never more
than the ring holds.

For the lists the hypothesis is `NodesAssumption`: the packets and the two heads are different
addresses, none of them `NULL`. The invariant `HeldOK` says of each queue that some packets are
`Listed`: a sequence in which each leads to the one before, and, since `list_add_after` never
writes the `prev` of the element that was the first, every `prev` leads to the head. So the
second half of `list_remove` writes what is there already, and the task that unlinks a packet
takes what came in front of it along. `Queue` therefore says of a task that has looked at its
queue but not unlinked yet also what the queue will be afterwards: the packets that are not
`lost`, without its own. The packets in use are `Split` among the queues, the tasks and the
lost. Lemmas say what an insertion (`ListedPush`), a removal (`ListedTop`) and a step elsewhere
(`ListedKept`) do to a list, and `ListedChain` that `Chain` arrives at `NULL` on it and
`Elements` is what it holds. `Chain` is a recursive function: `WalkIs` gives a function that satisfies its
equation, and two that do would differ first at some step, which they do not.

`NetProofs` proves, for any set of frames, packets, addresses and routes, `TypeCorrect`,
`PacketsHaveOneHolder` (`OneHolder`), `FramesSentRight` (`SentRight`), `LossesKnown` (`LostWhere`) and
`AddressesKept` (`CacheKeeps`). Hypotheses are `NetAssumption` (section 3) and
`NoPacket`, that `NULL` is not a packet. One lemma, `Outcome`, is proved for every handler: in what
it makes of the packet in hand, that packet is freed, queued for transmission with the right
frame, or left behind with a head that `LostWhere` names, and all other packets
are untouched. `NInv` adds what the handlers rely on: packets received are as the driver filled them
(so each handler finds the header it was called for), cache entries have a hardware
address, and a frame's destination is one the cache knows. The last part is why `SentRight`
stays true while a frame waits: the cache grows at its head, and what it answers for a known address
does not change (`CacheEntered`, `StaysRight`).

`MemProofs` proves for any number of steps and chunks, any sizes and any number of blocks in use
(`MemAssumption`) all four invariants of `Mem`: `TypeCorrect`, `BlocksLargeEnough`
(`BlockIsLargeEnough`), `InteriorChunksUnique` (`InteriorInOnePlace`) and `RegionsDisjoint`
(`StaticDisjoint`). The layout lemmas come first: each step begins where the one before ends
and has chunks twice as large (`Layout`, `StepsAscend`), so a chunk belongs to one step
(`ChunkInjective`) and `free` finds it there and, if it is the first, in the step below, never above
(`WithinOwnStep`). That makes `ChunkInv` inductive: the FIFO of a step holds nothing smaller
than its chunks (`Enough`). `PlaceInv` says that interior chunks are in one
place, in three parts (twice in use, twice queued, both); it needs `BfifoProofs` for what a FIFO holds after
each operation. `StaticInv` says that `heap_cur` is an aligned address between the chunks and the
end of the heap, itself aligned, so the realignment cannot pass the end and `Left` is the true
rest modulo any word size. The provers know no powers of two; `PowerDoubles` and its neighbours get them
from the library's theorem that a set of n elements has 2^n subsets (`FS_SUBSET`, whose own proof in the
library takes 2^(n+1) = 2^n + 2^n for granted). `NandProofs` uses it for the finiteness of a block.

Only model-checked:

* all liveness (`EveryoneRuns`, `TimersExpire`, `TxDrains`, `InputWakes`, `QueuesDrain`,
  `CatchesUp`, `CommandEnds`, `InitEnds`), which is out of the prover's reach (as is ENABLED);
* `Usb`, which has a single instance: `commands` explores it completely;
* `Lib` and `Routes`, whose loops are recursive operators, over bounded arguments.

## 6. Not modelled

Semaphores have no caller and `sem_down` does not block. The Ethernet link task, the PHY
and the reports of `process_tx_queue` are left out, as are the format
string of `printf`, `memset`, `strcpy`, `strlen`, the counters of `kstat.c` and the console commands that
only print. The two CRC routines run over whole bytes and tokens; nothing sends what they return
to a real bus. The range of a NAND block or sector number is not checked by the code
(`PROJECT.json` lists the hazard); the commands modelled stay on the chip.
Start-up assembly, MMU tables, SPI and register definitions are straight-line
hardware set-up with no state to check. `sys_reset`, `sys_kstat` and
`sys_netstat` do not touch the state modelled here. Return values of system calls
are left out, as are stack contents, names and everything printed.
