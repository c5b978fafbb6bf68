-------------------------------- MODULE Eth --------------------------------
(***************************************************************************)
(* The EP9301 Ethernet driver (arch/eth.c) and the packet queues of the    *)
(* framework (net/dll/eth.c) down to their pointers: the ring of receive   *)
(* statuses the controller and the interrupt handler share, the ring of    *)
(* transmit descriptors, and the two lists that the handler, the receive   *)
(* task and the transmit task change without a lock.                       *)
(*                                                                         *)
(* Four parties run: the controller (external), the interrupt handler,     *)
(* which no task interrupts, and the tasks, which interrupt each other     *)
(* between any two steps. What the handlers of a packet do is in Net; here *)
(* the receive task frees a packet or queues it for output.                *)
(***************************************************************************)
EXTENDS Integers, FiniteSets, Sequences, SequencesExt

CONSTANTS
    Pkts,       \* the packets there is memory for
    NULL,
    RXQ, TXQ,   \* the heads of the queues
    RxNum,      \* RX_STS_NUM, RX_DESC_NUM
    TxNum,      \* TX_DESC_NUM
    MaxFrames   \* bound: the frames that arrive

ASSUME EthAssumption ==
    RxNum \in Nat \ {0} /\ TxNum \in Nat \ {0} /\ MaxFrames \in Nat

\* A node has one address, and none is at address 0.
ASSUME NodesAssumption ==
    /\ IsFiniteSet(Pkts) /\ NULL \notin Pkts \union {RXQ, TXQ}
    /\ RXQ # TXQ /\ RXQ \notin Pkts /\ TXQ \notin Pkts

VARIABLES
    dev,        \* where eth_reset is: "down", "on" or "up"
    sts,        \* the receive statuses: length and number of a frame
    cur,        \* RXStsQCurAdd: where the controller puts the next one
    credit,     \* statuses the controller may still use
    irq,        \* IntSts_RxSQ: a status was posted
    isr,        \* the interrupt handler: where it is, its cur and its q
    last,       \* process_rx_queue: the status it looks at next
    next, prev, \* struct list of queues and packets
    frame,      \* the number of the frame a packet holds, 0 if it is free
    rx, tx,     \* the tasks: where they are, and their packet
    txd,        \* transmit descriptors
    txnext,     \* ep9301_xmit: the one it uses next
    txcur,      \* the one the controller sends next
    pending,    \* descriptors the controller has to send
    h           \* history, see Init

ring == <<dev, sts, cur, credit, irq, isr, last>>
lists == <<next, prev, frame>>
txring == <<txd, txnext, txcur, pending>>
vars == <<ring, lists, rx, tx, txring, h>>

-----------------------------------------------------------------------------
(* Lists *)

ListEmpty(q) == next[q] = NULL

\* Fault: the new element does not lead to the old ones.
AddAlone(q, p) ==
    /\ next' = [next EXCEPT ![p] = NULL, ![q] = p]
    /\ prev' = [prev EXCEPT ![p] = q]

\* list_add_after of a free packet, in one piece: the handler is not
\* interrupted. The old first element keeps its prev.
AddAfter(q, p) ==
    /\ next' = [next EXCEPT ![p] = next[q], ![q] = p]
    /\ prev' = [prev EXCEPT ![p] = q]

\* list_remove, its first half and its second
Unlink(p) == IF prev[p] = NULL THEN next ELSE [next EXCEPT ![prev[p]] = next[p]]
Relink(p) == IF next[p] = NULL THEN prev ELSE [prev EXCEPT ![next[p]] = prev[p]]

\* The elements of a queue in order, as far as no element comes twice
Chain(q) ==
    LET c[n \in 0 .. Cardinality(Pkts)] ==
            IF n = 0 THEN <<next[q]>>
            ELSE IF Last(c[n - 1]) = NULL THEN c[n - 1]
            ELSE Append(c[n - 1], next[Last(c[n - 1])])
    IN  c[Cardinality(Pkts)]

Elements(q) == Range(Chain(q)) \ {NULL}
Heads == {RXQ, TXQ}
Nodes == Heads \union Pkts
Free(p) == frame[p] = 0

\* pkt_free: what the packet's memory holds means nothing any more.
PktFree(p) ==
    /\ frame' = [frame EXCEPT ![p] = 0]
    /\ next' = [next EXCEPT ![p] = NULL]
    /\ prev' = [prev EXCEPT ![p] = NULL]

-----------------------------------------------------------------------------
(* The controller *)

Lens == {"runt", "good", "over"}

\* Fault: the pointer runs one past the end before it wraps.
NextInLate(i, n) == IF i + 1 > n THEN 0 ELSE i + 1

NextIn(i, n) == (i + 1) % n

\* eth_reset hands over all statuses and switches the receiver on.
DevOn ==
    /\ dev = "down"
    /\ dev' = "on"
    /\ credit' = RxNum
    /\ UNCHANGED <<sts, cur, irq, isr, last, lists, rx, tx, txring, h>>

\* eth_reset clears what is pending, then lets the interrupt through.
DevUp ==
    /\ dev = "on"
    /\ dev' = "up"
    /\ irq' = FALSE
    /\ UNCHANGED <<sts, cur, credit, isr, last, lists, rx, tx, txring, h>>

\* A frame arrives. The handler goes astray on a frame of bad length, and on
\* one that is posted after it has cleared the interrupt, but before it reads
\* how far it has to go.
Post(len) ==
    /\ dev # "down"
    /\ credit > 0
    /\ h.posted < MaxFrames
    /\ sts' = [sts EXCEPT ![cur] = [len |-> len, n |-> h.posted + 1]]
    /\ cur' = NextIn(cur, RxNum)
    /\ credit' = credit - 1
    /\ irq' = TRUE
    /\ h' = LET strayed == h.strayed \/ len # "good" \/ isr.at = "cur"
            IN  [h EXCEPT !.posted = @ + 1, !.strayed = strayed,
                          !.waiting = IF strayed THEN <<>> ELSE Append(@, h.posted + 1)]
    /\ UNCHANGED <<dev, isr, last, lists, rx, tx, txring>>

\* The controller sends the next descriptor, which is then looked at no more.
Send ==
    /\ pending > 0
    /\ pending' = pending - 1
    /\ txd' = [txd EXCEPT ![txcur] = 0]
    /\ txcur' = NextIn(txcur, TxNum)
    /\ h' = IF h.over THEN h ELSE [h EXCEPT !.tosend = Tail(@)]
    /\ UNCHANGED <<ring, lists, rx, tx, txnext>>

-----------------------------------------------------------------------------
(* The interrupt handler *)

IsrIdle == [at |-> "idle", cur |-> 0, q |-> 0]

\* eth_isr: the interrupt status clears as it is read.
IsrEnter ==
    /\ dev = "up" /\ irq /\ isr.at = "idle"
    /\ irq' = FALSE
    /\ isr' = [isr EXCEPT !.at = "cur"]
    /\ UNCHANGED <<dev, sts, cur, credit, last, lists, rx, tx, txring, h>>

IsrCur ==
    /\ isr.at = "cur"
    /\ isr' = [at |-> "loop", cur |-> cur, q |-> 0]
    /\ UNCHANGED <<dev, sts, cur, credit, irq, last, lists, rx, tx, txring, h>>

\* Fault: one status is taken for each interrupt.
LoopedOnce(l) == [isr EXCEPT !.q = @ + 1, !.at = "enq"]

\* while (last != cur && q < RX_STS_NUM), for the last and q of the iteration
Looped(l) ==
    [isr EXCEPT !.q = @ + 1,
                !.at = IF l # isr.cur /\ isr.q + 1 < RxNum THEN "loop" ELSE "enq"]

\* A bad length: continue, with last where it was.
IsrSkip ==
    /\ isr.at = "loop"
    /\ sts[last].len # "good"
    /\ isr' = Looped(last)
    /\ UNCHANGED <<dev, sts, cur, credit, irq, last, lists, rx, tx, txring, h>>

\* pkt_alloc, en_eth_rx: the frame goes to the head of the queue, and the
\* receive task is woken if it waits. What goes in between the task's look at
\* the queue and its unlinking is dropped with it.
IsrFrame ==
    /\ isr.at = "loop"
    /\ sts[last].len = "good"
    /\ last' = NextIn(last, RxNum)
    /\ isr' = Looped(last')
    /\ \/ \E p \in Pkts :
              /\ Free(p)
              /\ frame' = [frame EXCEPT ![p] = sts[last].n]
              /\ AddAfter(RXQ, p)
              /\ rx' = IF rx.at = "wait" THEN [rx EXCEPT !.at = "test"] ELSE rx
              /\ h' = [h EXCEPT !.waiting = IF @ = <<>> THEN @ ELSE Tail(@),
                                !.lost = IF rx.at = "unlink" THEN @ \union {p} ELSE @]
       \/ /\ \A p \in Pkts : ~Free(p)
          /\ h' = [h EXCEPT !.waiting = IF @ = <<>> THEN @ ELSE Tail(@)]
          /\ UNCHANGED <<lists, rx>>
    /\ UNCHANGED <<dev, sts, cur, credit, irq, tx, txring>>

\* Fault: as many as the ring has are given back, not as many as were taken.
IsrEnqAll ==
    /\ isr.at = "enq"
    /\ credit' = credit + RxNum
    /\ isr' = IsrIdle
    /\ UNCHANGED <<dev, sts, cur, irq, last, lists, rx, tx, txring, h>>

IsrEnq ==
    /\ isr.at = "enq"
    /\ credit' = credit + isr.q
    /\ isr' = IsrIdle
    /\ UNCHANGED <<dev, sts, cur, irq, last, lists, rx, tx, txring, h>>

Isr == IsrEnter \/ IsrCur \/ IsrSkip \/ IsrFrame \/ IsrEnq

-----------------------------------------------------------------------------
(* The receive task *)

RxAt(at) == rx.at = at /\ isr.at = "idle"
RxTo(at) == rx' = [rx EXCEPT !.at = at]
RxDone == rx' = [at |-> "test", pkt |-> NULL]

\* en_eth_rx_drain: is there a packet, and which
RxTest ==
    /\ RxAt("test")
    /\ rx' = IF ListEmpty(RXQ) THEN [rx EXCEPT !.at = "leave"]
                               ELSE [at |-> "unlink", pkt |-> next[RXQ]]
    /\ UNCHANGED <<ring, lists, tx, txring, h>>

RxUnlink ==
    /\ RxAt("unlink") /\ RxTo("relink")
    /\ next' = Unlink(rx.pkt)
    /\ UNCHANGED <<ring, prev, frame, tx, txring, h>>

RxRelink ==
    /\ RxAt("relink") /\ RxTo("input")
    /\ prev' = Relink(rx.pkt)
    /\ UNCHANGED <<ring, next, frame, tx, txring, h>>

\* en_eth_input: the packet is done with, or goes out again.
RxInput ==
    /\ RxAt("input")
    /\ \/ RxDone /\ PktFree(rx.pkt)
       \/ RxTo("add") /\ UNCHANGED lists
    /\ UNCHANGED <<ring, tx, txring, h>>

\* en_eth_output: list_add_after, which the transmit task may interrupt
RxAdd ==
    /\ RxAt("add") /\ RxTo("link")
    /\ next' = [next EXCEPT ![rx.pkt] = next[TXQ]]
    /\ prev' = [prev EXCEPT ![rx.pkt] = TXQ]
    /\ UNCHANGED <<ring, frame, tx, txring, h>>

\* The queue has changed since it was read, or changes back when the transmit
\* task goes on.
RxLink ==
    /\ RxAt("link") /\ RxDone
    /\ next' = [next EXCEPT ![TXQ] = rx.pkt]
    /\ h' = [h EXCEPT !.clash = @ \/ next[TXQ] # next[rx.pkt],
                      !.lost = IF tx.at = "unlink" THEN @ \union {rx.pkt} ELSE @]
    /\ UNCHANGED <<ring, prev, frame, tx, txring>>

\* wait(&rx_completion): a wake before this is not remembered.
RxWait ==
    /\ RxAt("leave") /\ RxTo("wait")
    /\ UNCHANGED <<ring, lists, tx, txring, h>>

RxTask == RxTest \/ RxUnlink \/ RxRelink \/ RxInput \/ RxAdd \/ RxLink \/ RxWait

-----------------------------------------------------------------------------
(* The transmit task *)

TxAt(at) == tx.at = at /\ isr.at = "idle"
TxTo(at) == tx' = [tx EXCEPT !.at = at]
TxDone == tx' = [at |-> "sleep", pkt |-> NULL]

\* en_eth_tx_task: one packet each time its sleep ends
TxTest ==
    /\ TxAt("sleep")
    /\ ~ListEmpty(TXQ)
    /\ tx' = [at |-> "unlink", pkt |-> next[TXQ]]
    /\ UNCHANGED <<ring, lists, rx, txring, h>>

TxUnlink ==
    /\ TxAt("unlink") /\ TxTo("relink")
    /\ next' = Unlink(tx.pkt)
    /\ UNCHANGED <<ring, prev, frame, rx, txring, h>>

TxRelink ==
    /\ TxAt("relink") /\ TxTo("xmit")
    /\ prev' = Relink(tx.pkt)
    /\ UNCHANGED <<ring, next, frame, rx, txring, h>>

\* Fault: the descriptor is not moved on from.
TxXmitStays ==
    /\ TxAt("xmit") /\ TxDone
    /\ txd' = [txd EXCEPT ![txnext] = frame[tx.pkt]]
    /\ PktFree(tx.pkt)
    /\ pending' = pending + 1
    /\ h' = IF h.over \/ pending = TxNum
                THEN [h EXCEPT !.over = TRUE, !.tosend = <<>>]
                ELSE [h EXCEPT !.tosend = Append(@, frame[tx.pkt])]
    /\ UNCHANGED <<ring, rx, txnext, txcur>>

\* ep9301_xmit. Nothing asks whether the controller is done with the
\* descriptor. No frame gets here that is longer than those received.
TxXmit ==
    /\ TxAt("xmit") /\ TxDone
    /\ txd' = [txd EXCEPT ![txnext] = frame[tx.pkt]]
    /\ PktFree(tx.pkt)
    /\ txnext' = NextIn(txnext, TxNum)
    /\ pending' = pending + 1
    /\ h' = IF h.over \/ pending = TxNum
                THEN [h EXCEPT !.over = TRUE, !.tosend = <<>>]
                ELSE [h EXCEPT !.tosend = Append(@, frame[tx.pkt])]
    /\ UNCHANGED <<ring, rx, txcur>>

TxTask == TxTest \/ TxUnlink \/ TxRelink \/ TxXmit

-----------------------------------------------------------------------------

\* h: frames posted, those the handler has yet to see, whether it went astray;
\* packets that were dropped from a queue, whether a queue was corrupted;
\* frames given to the controller, whether a descriptor was overwritten.
Init ==
    /\ dev = "down"
    /\ sts = [i \in 0 .. RxNum - 1 |-> [len |-> "runt", n |-> 0]]
    /\ cur = 0 /\ credit = 0 /\ irq = FALSE /\ last = 0
    /\ isr = IsrIdle
    /\ next = [x \in Nodes |-> NULL]
    /\ prev = [x \in Nodes |-> NULL]
    /\ frame = [p \in Pkts |-> 0]
    /\ rx = [at |-> "wait", pkt |-> NULL]
    /\ tx = [at |-> "sleep", pkt |-> NULL]
    /\ txd = [i \in 0 .. TxNum - 1 |-> 0]
    /\ txnext = 0 /\ txcur = 0 /\ pending = 0
    /\ h = [posted |-> 0, waiting |-> <<>>, strayed |-> FALSE, lost |-> {},
            clash |-> FALSE, tosend |-> <<>>, over |-> FALSE]

\* A corrupted queue leads to memory that is used for something else: nothing
\* is said of what follows.
Next ==
    /\ ~h.clash
    /\ \/ DevOn \/ DevUp
       \/ \E len \in Lens : Post(len)
       \/ Send
       \/ Isr
       \/ RxTask
       \/ TxTask

Spec == Init /\ [][Next]_vars

\* The interrupt is taken, and its handler runs.
FairSpec == Spec /\ WF_vars(~h.clash /\ Isr)

-----------------------------------------------------------------------------
(* Properties *)

\* Pointers lead to packets, indices stay in their rings, and the handler gives
\* back no more than a ring's worth at a time (arch/eth.c, sys/list.h).
TypeOK ==
    /\ dev \in {"down", "on", "up"}
    /\ cur \in 0 .. RxNum - 1 /\ last \in 0 .. RxNum - 1
    /\ credit \in Nat /\ pending \in Nat
    /\ isr.at \in {"idle", "cur", "loop", "enq"} /\ isr.q \in 0 .. RxNum
    /\ next \in [Nodes -> Pkts \union {NULL}]
    /\ prev \in [Nodes -> Nodes \union {NULL}]
    /\ frame \in [Pkts -> 0 .. MaxFrames]
    /\ rx.at \in {"wait", "test", "unlink", "relink", "input", "add", "link", "leave"}
    /\ tx.at \in {"sleep", "unlink", "relink", "xmit"}
    /\ rx.pkt \in Pkts \union {NULL} /\ tx.pkt \in Pkts \union {NULL}
    /\ txnext \in 0 .. TxNum - 1 /\ txcur \in 0 .. TxNum - 1

RxInStep ==
    ~h.strayed =>
        /\ \A i \in DOMAIN h.waiting :
               sts[(last + i - 1) % RxNum] = [len |-> "good", n |-> h.waiting[i]]
        /\ (last + Len(h.waiting)) % RxNum = cur
        /\ dev # "down" =>
               credit + Len(h.waiting) + (IF isr.at \in {"loop", "enq"} THEN isr.q ELSE 0)
                   = RxNum

TxInStep ==
    ~h.over =>
        /\ pending = Len(h.tosend)
        /\ \A i \in DOMAIN h.tosend : txd[(txcur + i - 1) % TxNum] = h.tosend[i]

\* Until the handler goes astray, it and the controller agree: the statuses
\* from last on are the frames it has not seen yet, in order, and every other
\* status was given back or is about to be. No frame is seen twice or missed,
\* and none is overwritten (process_rx_queue). Unless a descriptor is filled
\* that has yet to be sent, those to be sent hold the frames that were given
\* to ep9301_xmit, in order.
RingsInStep == RxInStep /\ TxInStep

\* Who has packet p: a queue it can be reached from, or a task that has
\* unlinked it
Holders(p) ==
    {q \in Heads : p \in Elements(q)}
    \union {t \in {"rx", "tx"} :
               \/ t = "rx" /\ rx.at \in {"relink", "input", "add", "link"} /\ p = rx.pkt
               \/ t = "tx" /\ tx.at \in {"relink", "xmit"} /\ p = tx.pkt}

\* A packet in use is in one queue or with one task, and a free one nowhere,
\* unless it was queued while the other party was unlinking; a queue leads to
\* packets that are gone only after it changed between the two halves of an
\* insertion (list_add_after, list_remove).
HeldOnce ==
    ~h.clash =>
        /\ \A q \in Heads : Last(Chain(q)) = NULL
        /\ \A p \in Pkts :
               LET n == Cardinality(Holders(p))
               IN  CASE Free(p)       -> n = 0
                     [] p \in h.lost  -> n = 0 \/ (n = 1 /\ "unlink" \in {rx.at, tx.at})
                     [] OTHER         -> n = 1

\* The handler catches up with the frames it was interrupted for, unless it
\* goes astray or a queue is corrupted.
CatchesUp == dev = "up" /\ irq ~> h.waiting = <<>> \/ h.strayed \/ h.clash
=============================================================================
