------------------------------ MODULE EthProofs ------------------------------
(***************************************************************************)
(* Theorems about Eth, for rings of every size, any number of packets and  *)
(* any number of frames.                                                   *)
(***************************************************************************)
EXTENDS Eth, SequenceTheorems, FiniteSetTheorems, WellFoundedInduction, TLAPS

-----------------------------------------------------------------------------
(* The inductive invariant *)

Isrs == [at : {"idle", "cur", "loop", "enq"}, cur : 0 .. RxNum - 1, q : 0 .. RxNum]
Statuses == [len : Lens, n : 0 .. MaxFrames]
RxTasks == [at : {"wait", "test", "unlink", "relink", "input", "add", "link", "leave"},
            pkt : Pkts \union {NULL}]
TxTasks == [at : {"sleep", "unlink", "relink", "xmit"}, pkt : Pkts \union {NULL}]
Histories == [posted : 0 .. MaxFrames, waiting : Seq(Nat), strayed : BOOLEAN,
              lost : SUBSET Pkts, clash : BOOLEAN, tosend : Seq(Nat), over : BOOLEAN]

\* The receive ring and its handler, which takes at most a ring's worth in one run
RingType ==
    /\ dev \in {"down", "on", "up"} /\ irq \in BOOLEAN
    /\ sts \in [0 .. RxNum - 1 -> Statuses]
    /\ cur \in 0 .. RxNum - 1 /\ last \in 0 .. RxNum - 1 /\ credit \in Nat
    /\ isr \in Isrs /\ (isr.at = "loop" => isr.q < RxNum)

\* Pointers lead to packets
ListType ==
    /\ next \in [Nodes -> Pkts \union {NULL}]
    /\ prev \in [Nodes -> Nodes \union {NULL}]
    /\ frame \in [Pkts -> 0 .. MaxFrames]

\* A task that is at work has a packet
TaskType ==
    /\ rx \in RxTasks
    /\ rx.at \in {"unlink", "relink", "input", "add", "link"} => rx.pkt \in Pkts
    /\ tx \in TxTasks
    /\ tx.at \in {"unlink", "relink", "xmit"} => tx.pkt \in Pkts

TxType ==
    /\ txd \in [0 .. TxNum - 1 -> 0 .. MaxFrames]
    /\ txnext \in 0 .. TxNum - 1 /\ txcur \in 0 .. TxNum - 1 /\ pending \in Nat

EType == RingType /\ ListType /\ TaskType /\ TxType /\ h \in Histories

\* The index i steps ahead of a in a ring of n
Ahead(a, i, n) == IF a + i >= n THEN a + i - n ELSE a + i

\* What the handler has taken and not yet given back
Taken == IF isr.at \in {"loop", "enq"} THEN isr.q ELSE 0

\* The statuses from last on are the frames the handler has not seen, and the
\* controller writes behind them. While it loops, it has k statuses to go, all of
\* them frames; what raised its interrupt since comes behind those.
RxOK ==
    ~h.strayed =>
        LET w == Len(h.waiting)
        IN  /\ w <= RxNum /\ Ahead(last, w, RxNum) = cur
            /\ \A i \in 1 .. w :
                  sts[Ahead(last, i - 1, RxNum)] = [len |-> "good", n |-> h.waiting[i]]
            /\ dev = "down" => w = 0 /\ isr.at = "idle" /\ ~irq
            /\ dev # "down" => credit + w + Taken = RxNum
            /\ irq \/ isr.at = "cur" => w > 0
            /\ isr.at = "cur" => ~irq
            /\ isr.at = "loop" =>
                  \E k \in 1 .. w : /\ Ahead(last, k, RxNum) = isr.cur
                                    /\ k + isr.q <= RxNum
                                    /\ irq => k < w

\* The descriptors to be sent lie between the controller's and the driver's index.
TxOK ==
    ~h.over =>
        /\ pending = Len(h.tosend) /\ pending <= TxNum
        /\ Ahead(txcur, pending, TxNum) = txnext
        /\ \A i \in 1 .. pending : txd[Ahead(txcur, i - 1, TxNum)] = h.tosend[i]

-----------------------------------------------------------------------------
(* The types are kept *)

LEMMA NextInRange ==
    ASSUME NEW n \in Nat \ {0}, NEW i \in 0 .. n - 1
    PROVE  /\ NextIn(i, n) \in 0 .. n - 1
           /\ NextIn(i, n) = IF i + 1 = n THEN 0 ELSE i + 1
<1>1. CASE i + 1 < n
  <2> i + 1 \in 0 .. n - 1  BY <1>1
  <2> QED  BY <1>1 DEF NextIn
<1>2. CASE i + 1 = n  BY <1>2 DEF NextIn
<1> QED  BY <1>1, <1>2

\* What the list operations do to the pointers, for a packet p
LEMMA UnlinkType ==
    ASSUME ListType, NEW p \in Pkts
    PROVE  /\ Unlink(p) \in [Nodes -> Pkts \union {NULL}]
           /\ Relink(p) \in [Nodes -> Nodes \union {NULL}]
BY DEF ListType, Nodes, Unlink, Relink

LEMMA PktFreeType ==
    ASSUME ListType, NEW p \in Pkts, PktFree(p) PROVE ListType'
BY EthAssumption DEF ListType, Nodes, PktFree

LEMMA AddAfterType ==
    ASSUME ListType, NEW p \in Pkts, NEW q \in Heads, AddAfter(q, p)
    PROVE  /\ next' \in [Nodes -> Pkts \union {NULL}]
           /\ prev' \in [Nodes -> Nodes \union {NULL}]
BY DEF ListType, Nodes, AddAfter

\* The controller's steps
LEMMA ETypeDevice ==
    ASSUME EType, DevOn \/ DevUp \/ (\E len \in Lens : Post(len)) \/ Send
    PROVE  EType'
<1> USE EthAssumption
<1>1. CASE DevOn
      BY <1>1 DEF DevOn, EType, RingType, ListType, TaskType, TxType, lists, txring
<1>2. CASE DevUp
      BY <1>2 DEF DevUp, EType, RingType, ListType, TaskType, TxType, lists, txring
<1>3. CASE \E len \in Lens : Post(len)
  <2> PICK len \in Lens : Post(len)  BY <1>3
  <2> h.posted \in 0 .. MaxFrames /\ h.waiting \in Seq(Nat)  BY DEF EType, Histories
  <2> DEFINE st == [len |-> len, n |-> h.posted + 1]
             b == h.strayed \/ len # "good" \/ isr.at = "cur"
             w == IF b THEN <<>> ELSE Append(h.waiting, h.posted + 1)
  <2>0. h.posted + 1 \in 0 .. MaxFrames
    <3> h.posted < MaxFrames  BY DEF Post
    <3> QED  OBVIOUS
  <2>1. st \in Statuses  BY <2>0 DEF Statuses
  <2>2. w \in Seq(Nat)  BY AppendProperties
  <2>3. b \in BOOLEAN  BY DEF EType, Histories
  <2>4. h' = [h EXCEPT !.posted = h.posted + 1, !.strayed = b, !.waiting = w]  BY DEF Post
  <2>5. sts' = [sts EXCEPT ![cur] = st]  BY DEF Post
  <2> HIDE DEF st, b, w
  <2>6. h' \in Histories  BY <2>0, <2>2, <2>3, <2>4 DEF EType, Histories
  <2>7. RingType'
    <3>1. cur' \in 0 .. RxNum - 1  BY NextInRange DEF EType, RingType, Post
    <3>2. credit' \in Nat /\ irq' \in BOOLEAN
      <4> credit \in Nat  BY DEF EType, RingType
      <4> credit > 0 /\ credit' = credit - 1 /\ irq' = TRUE  BY DEF Post
      <4> QED  OBVIOUS
    <3>3. sts' \in [0 .. RxNum - 1 -> Statuses]  BY <2>1, <2>5 DEF EType, RingType
    <3> QED  BY <3>1, <3>2, <3>3 DEF EType, RingType, Post
  <2> QED  BY <2>6, <2>7 DEF Post, EType, ListType, TaskType, TxType, lists, txring
<1>4. CASE Send
  <2>1. h' \in Histories
    <3>1. CASE h.over  BY <1>4, <3>1 DEF Send, EType
    <3>2. CASE ~h.over /\ h.tosend # <<>>
      <4>1. Tail(h.tosend) \in Seq(Nat)  BY <3>2, HeadTailProperties DEF EType, Histories
      <4> QED  BY <1>4, <3>2, <4>1 DEF Send, EType, Histories
    <3>3. CASE ~h.over /\ h.tosend = <<>>
      <4>1. Tail(h.tosend) \in Seq(Nat)  BY <3>3
      <4> QED  BY <1>4, <3>3, <4>1 DEF Send, EType, Histories
    <3> QED  BY <3>1, <3>2, <3>3
  <2>2. TxType'
    <3>1. txcur' \in 0 .. TxNum - 1  BY <1>4, NextInRange DEF EType, TxType, Send
    <3>2. txd' \in [0 .. TxNum - 1 -> 0 .. MaxFrames]  BY <1>4 DEF EType, TxType, Send
    <3>3. pending' \in Nat  BY <1>4 DEF EType, TxType, Send
    <3> QED  BY <1>4, <3>1, <3>2, <3>3 DEF EType, TxType, Send
  <2> QED  BY <1>4, <2>1, <2>2 DEF Send, EType, RingType, ListType, TaskType, ring, lists
<1> QED  BY <1>1, <1>2, <1>3, <1>4

\* The handler's record after one turn of its loop
LEMMA LoopedType ==
    ASSUME RingType, isr.at = "loop", NEW l
    PROVE  /\ Looped(l) \in Isrs /\ (Looped(l).at = "loop" => Looped(l).q < RxNum)
           /\ Looped(l).cur = isr.cur /\ Looped(l).q = isr.q + 1
           /\ Looped(l).at = IF l # isr.cur /\ isr.q + 1 < RxNum THEN "loop" ELSE "enq"
<1> DEFINE a == IF l # isr.cur /\ isr.q + 1 < RxNum THEN "loop" ELSE "enq"
           k == isr.q + 1
<1>1. isr \in Isrs /\ isr.q \in Nat /\ isr.q < RxNum  BY DEF RingType, Isrs
<1>2. k \in 0 .. RxNum /\ a \in {"loop", "enq"} /\ (a = "loop" => k < RxNum)
      BY <1>1, EthAssumption
<1>3. Looped(l) = [isr EXCEPT !.q = k, !.at = a]  BY DEF Looped
<1> HIDE DEF a, k
<1>4. /\ Looped(l) \in Isrs /\ Looped(l).cur = isr.cur
      /\ Looped(l).q = k /\ Looped(l).at = a
      BY <1>1, <1>2, <1>3 DEF Isrs
<1> QED  BY <1>2, <1>4 DEF a, k

LEMMA ETypeIsr ==
    ASSUME EType, Isr PROVE EType'
<1> USE EthAssumption
<1>1. CASE IsrEnter \/ IsrCur \/ IsrEnq
  <2>1. isr' \in Isrs /\ (isr'.at = "loop" => isr'.q < RxNum)
        BY <1>1 DEF IsrEnter, IsrCur, IsrEnq, IsrIdle, EType, RingType, Isrs
  <2>2. credit' \in Nat  BY <1>1 DEF IsrEnter, IsrCur, IsrEnq, EType, RingType, Isrs
  <2>3. irq' \in BOOLEAN  BY <1>1 DEF IsrEnter, IsrCur, IsrEnq, EType, RingType
  <2>4. UNCHANGED <<dev, sts, cur, last, lists, rx, tx, txring, h>>
        BY <1>1 DEF IsrEnter, IsrCur, IsrEnq
  <2> QED  BY <2>1, <2>2, <2>3, <2>4
           DEF EType, RingType, ListType, TaskType, TxType, lists, txring
<1>2. CASE IsrSkip
  <2>1. /\ isr.at = "loop" /\ isr' = Looped(last)
        /\ UNCHANGED <<dev, sts, cur, credit, irq, last, lists, rx, tx, txring, h>>
        BY <1>2 DEF IsrSkip
  <2>2. isr' \in Isrs /\ (isr'.at = "loop" => isr'.q < RxNum)
        BY <2>1, LoopedType DEF EType
  <2> QED  BY <2>1, <2>2
           DEF EType, RingType, ListType, TaskType, TxType, lists, txring
<1>3. CASE IsrFrame
  <2>1. /\ isr.at = "loop" /\ isr' = Looped(last') /\ last' = NextIn(last, RxNum)
        /\ UNCHANGED <<dev, sts, cur, credit, irq, tx, txring>>
        BY <1>3 DEF IsrFrame
  <2>2. isr' \in Isrs /\ (isr'.at = "loop" => isr'.q < RxNum)
        BY <2>1, LoopedType DEF EType
  <2>3. last' \in 0 .. RxNum - 1  BY <2>1, NextInRange DEF EType, RingType
  <2>4. RingType'  BY <2>1, <2>2, <2>3 DEF EType, RingType
  <2> DEFINE w == IF h.waiting = <<>> THEN h.waiting ELSE Tail(h.waiting)
  <2>5. w \in Seq(Nat)  BY HeadTailProperties DEF EType, Histories
  <2>6. CASE \E p \in Pkts :
              /\ Free(p)
              /\ frame' = [frame EXCEPT ![p] = sts[last].n]
              /\ AddAfter(RXQ, p)
              /\ rx' = IF rx.at = "wait" THEN [rx EXCEPT !.at = "test"] ELSE rx
              /\ h' = [h EXCEPT !.waiting = w,
                                !.lost = IF rx.at = "unlink" THEN @ \union {p} ELSE @]
    <3> PICK p \in Pkts :
              /\ frame' = [frame EXCEPT ![p] = sts[last].n]
              /\ AddAfter(RXQ, p)
              /\ rx' = IF rx.at = "wait" THEN [rx EXCEPT !.at = "test"] ELSE rx
              /\ h' = [h EXCEPT !.waiting = w,
                                !.lost = IF rx.at = "unlink" THEN @ \union {p} ELSE @]
        BY <2>6
    <3>1. sts[last].n \in 0 .. MaxFrames  BY DEF EType, RingType, Statuses
    <3>2. frame' \in [Pkts -> 0 .. MaxFrames]  BY <3>1 DEF EType, ListType
    <3>3. ListType'  BY <3>2, AddAfterType DEF EType, ListType, Heads
    <3>4. TaskType'  BY <2>1 DEF EType, TaskType, RxTasks
    <3> HIDE DEF w
    <3>5. h' \in Histories  BY <2>5 DEF EType, Histories
    <3> QED  BY <2>1, <2>4, <3>3, <3>4, <3>5 DEF EType, TxType, txring
  <2>7. CASE /\ h' = [h EXCEPT !.waiting = w]
             /\ UNCHANGED <<lists, rx>>
    <3> HIDE DEF w
    <3>1. h' \in Histories  BY <2>5, <2>7 DEF EType, Histories
    <3> QED  BY <2>1, <2>4, <2>7, <3>1 DEF EType, ListType, TaskType, TxType, lists, txring
  <2> QED  BY <1>3, <2>6, <2>7 DEF IsrFrame
<1> QED  BY <1>1, <1>2, <1>3 DEF Isr

\* The tasks' steps
LEMMA ETypeRx ==
    ASSUME EType, RxTask PROVE EType'
<1> USE EthAssumption DEF RxAt, RxTo, RxDone
<1>1. CASE RxTest
  <2>1. TaskType'
        BY <1>1 DEF RxTest, EType, TaskType, RxTasks, ListEmpty, ListType, Nodes, Heads
  <2> QED  BY <1>1, <2>1 DEF RxTest, EType, RingType, ListType, TxType, ring, lists, txring
<1>2. CASE RxUnlink
  <2>1. TaskType'  BY <1>2 DEF RxUnlink, EType, TaskType, RxTasks
  <2>2. ListType'  BY <1>2, UnlinkType DEF RxUnlink, EType, TaskType, ListType
  <2> QED  BY <1>2, <2>1, <2>2 DEF RxUnlink, EType, RingType, TxType, ring, txring
<1>3. CASE RxRelink
  <2>1. TaskType'  BY <1>3 DEF RxRelink, EType, TaskType, RxTasks
  <2>2. ListType'  BY <1>3, UnlinkType DEF RxRelink, EType, TaskType, ListType
  <2> QED  BY <1>3, <2>1, <2>2 DEF RxRelink, EType, RingType, TxType, ring, txring
<1>4. CASE RxInput
  <2>1. TaskType'  BY <1>4 DEF RxInput, EType, TaskType, RxTasks
  <2>2. ListType'
        BY <1>4, PktFreeType DEF RxInput, EType, TaskType, ListType, lists
  <2> QED  BY <1>4, <2>1, <2>2 DEF RxInput, EType, RingType, TxType, ring, txring
<1>5. CASE RxAdd
  <2>1. TaskType'  BY <1>5 DEF RxAdd, EType, TaskType, RxTasks
  <2>2. ListType'
        BY <1>5 DEF RxAdd, EType, TaskType, ListType, Nodes, Heads
  <2> QED  BY <1>5, <2>1, <2>2 DEF RxAdd, EType, RingType, TxType, ring, txring
<1>6. CASE RxLink
  <2>1. TaskType'  BY <1>6 DEF RxLink, EType, TaskType, RxTasks
  <2>2. ListType'
        BY <1>6 DEF RxLink, EType, TaskType, ListType, Nodes, Heads
  <2> DEFINE c == h.clash \/ next[TXQ] # next[rx.pkt]
             l == IF tx.at = "unlink" THEN h.lost \union {rx.pkt} ELSE h.lost
  <2>3. h' = [h EXCEPT !.clash = c, !.lost = l]  BY <1>6 DEF RxLink
  <2>4. c \in BOOLEAN /\ l \in SUBSET Pkts
        BY <1>6 DEF RxLink, EType, TaskType, Histories
  <2> HIDE DEF c, l
  <2>5. h' \in Histories  BY <2>3, <2>4 DEF EType, Histories
  <2> QED  BY <1>6, <2>1, <2>2, <2>5 DEF RxLink, EType, RingType, TxType, ring, txring
<1>7. CASE RxWait
  <2>1. TaskType'  BY <1>7 DEF RxWait, EType, TaskType, RxTasks
  <2> QED  BY <1>7, <2>1 DEF RxWait, EType, RingType, ListType, TxType, ring, lists, txring
<1> QED  BY <1>1, <1>2, <1>3, <1>4, <1>5, <1>6, <1>7 DEF RxTask

LEMMA ETypeTx ==
    ASSUME EType, TxTask PROVE EType'
<1> USE EthAssumption DEF TxAt, TxTo, TxDone
<1>1. CASE TxTest
  <2>1. TaskType'
        BY <1>1 DEF TxTest, EType, TaskType, TxTasks, ListEmpty, ListType, Nodes, Heads
  <2> QED  BY <1>1, <2>1 DEF TxTest, EType, RingType, ListType, TxType, ring, lists, txring
<1>2. CASE TxUnlink
  <2>1. TaskType'  BY <1>2 DEF TxUnlink, EType, TaskType, TxTasks
  <2>2. ListType'  BY <1>2, UnlinkType DEF TxUnlink, EType, TaskType, ListType
  <2> QED  BY <1>2, <2>1, <2>2 DEF TxUnlink, EType, RingType, TxType, ring, txring
<1>3. CASE TxRelink
  <2>1. TaskType'  BY <1>3 DEF TxRelink, EType, TaskType, TxTasks
  <2>2. ListType'  BY <1>3, UnlinkType DEF TxRelink, EType, TaskType, ListType
  <2> QED  BY <1>3, <2>1, <2>2 DEF TxRelink, EType, RingType, TxType, ring, txring
<1>4. CASE TxXmit
  <2>1. TaskType'  BY <1>4 DEF TxXmit, EType, TaskType, TxTasks
  <2>2. ListType'  BY <1>4, PktFreeType DEF TxXmit, EType, TaskType
  <2>3. frame[tx.pkt] \in 0 .. MaxFrames  BY <1>4 DEF TxXmit, EType, TaskType, ListType
  <2>4. TxType'
    <3>1. txnext' \in 0 .. TxNum - 1  BY <1>4, NextInRange DEF EType, TxType, TxXmit
    <3>2. txd' \in [0 .. TxNum - 1 -> 0 .. MaxFrames]
          BY <1>4, <2>3 DEF EType, TxType, TxXmit
    <3> QED  BY <1>4, <3>1, <3>2 DEF EType, TxType, TxXmit
  <2>5. h' \in Histories
    <3>1. Append(h.tosend, frame[tx.pkt]) \in Seq(Nat)
          BY <2>3, AppendProperties DEF EType, Histories
    <3>2. h \in Histories  BY DEF EType
    <3>3. CASE h' = [h EXCEPT !.over = TRUE, !.tosend = <<>>]
      <4> <<>> \in Seq(Nat)  OBVIOUS
      <4> QED  BY <3>2, <3>3 DEF Histories
    <3>4. CASE h' = [h EXCEPT !.tosend = Append(h.tosend, frame[tx.pkt])]
          BY <3>1, <3>2, <3>4 DEF Histories
    <3> QED  BY <1>4, <3>3, <3>4 DEF TxXmit
  <2> QED  BY <1>4, <2>1, <2>2, <2>4, <2>5 DEF TxXmit, EType, RingType, ring
<1> QED  BY <1>1, <1>2, <1>3, <1>4 DEF TxTask

LEMMA ETypeInit == Init => EType
<1> SUFFICES ASSUME Init PROVE EType  OBVIOUS
<1> USE EthAssumption DEF Init
<1>1. sts \in [0 .. RxNum - 1 -> Statuses]
  <2> [len |-> "runt", n |-> 0] \in Statuses  BY DEF Statuses, Lens
  <2> QED  OBVIOUS
<1>2. RingType
  <2>1. isr \in Isrs /\ isr.at = "idle"  BY DEF Isrs, IsrIdle
  <2> QED  BY <1>1, <2>1 DEF RingType
<1>3. ListType  BY DEF ListType
<1>4. TaskType  BY DEF TaskType, RxTasks, TxTasks
<1>5. TxType    BY DEF TxType
<1>6. h \in Histories  BY DEF Histories
<1> QED  BY <1>2, <1>3, <1>4, <1>5, <1>6 DEF EType

LEMMA ETypeStep == EType /\ [Next]_vars => EType'
<1> SUFFICES ASSUME EType, [Next]_vars PROVE EType'  OBVIOUS
<1>1. CASE UNCHANGED vars
      BY <1>1 DEF vars, ring, lists, txring, EType, RingType, ListType, TaskType, TxType
<1> QED  BY <1>1, ETypeDevice, ETypeIsr, ETypeRx, ETypeTx DEF Next

\* Whatever the controller, the handler and the tasks do to the rings and lists:
\* pointers lead to packets or nowhere, indices stay in their rings, and the
\* handler gives back at most a ring's worth (arch/eth.c, sys/list.h).
THEOREM TypeCorrect == Spec => []TypeOK
<1>1. EType => TypeOK
      BY DEF EType, RingType, ListType, TaskType, TxType, TypeOK, Isrs, RxTasks, TxTasks
<1> QED  BY <1>1, ETypeInit, ETypeStep, PTL DEF Spec

-----------------------------------------------------------------------------
(* The rings *)

\* Counting on in a ring of n
LEMMA AheadFacts ==
    ASSUME NEW n \in Nat \ {0}, NEW a \in 0 .. n - 1
    PROVE  /\ Ahead(a, 0, n) = a
           /\ \A i \in 0 .. n : Ahead(a, i, n) \in 0 .. n - 1
           /\ \A i, j \in 0 .. n - 1 : Ahead(a, i, n) = Ahead(a, j, n) => i = j
           /\ \A i \in 0 .. n - 1 : Ahead(NextIn(a, n), i, n) = Ahead(a, i + 1, n)
           /\ \A i \in 0 .. n - 1 : NextIn(Ahead(a, i, n), n) = Ahead(a, i + 1, n)
<1>1. Ahead(a, 0, n) = a  BY DEF Ahead
<1>2. \A i \in 0 .. n : Ahead(a, i, n) \in 0 .. n - 1  BY DEF Ahead
<1>3. \A i, j \in 0 .. n - 1 : Ahead(a, i, n) = Ahead(a, j, n) => i = j  BY DEF Ahead
<1>4. ASSUME NEW i \in 0 .. n - 1
      PROVE  Ahead(NextIn(a, n), i, n) = Ahead(a, i + 1, n)
  <2>1. NextIn(a, n) = IF a + 1 = n THEN 0 ELSE a + 1  BY NextInRange
  <2> QED  BY <2>1 DEF Ahead
<1>5. ASSUME NEW i \in 0 .. n - 1
      PROVE  NextIn(Ahead(a, i, n), n) = Ahead(a, i + 1, n)
  <2>1. Ahead(a, i, n) \in 0 .. n - 1  BY <1>2
  <2>2. NextIn(Ahead(a, i, n), n)
          = IF Ahead(a, i, n) + 1 = n THEN 0 ELSE Ahead(a, i, n) + 1
        BY <2>1, NextInRange
  <2> QED  BY <2>2 DEF Ahead
<1> QED  BY <1>1, <1>2, <1>3, <1>4, <1>5

\* The indices of RxOK and TxOK are those of RxInStep and TxInStep.
LEMMA AheadMod ==
    ASSUME NEW n \in Nat \ {0}, NEW a \in 0 .. n - 1, NEW i \in 0 .. n
    PROVE  (a + i) % n = Ahead(a, i, n)
<1>1. CASE a + i < n
  <2> a + i \in 0 .. n - 1  BY <1>1
  <2> QED  BY <1>1 DEF Ahead
<1>2. CASE a + i >= n
  <2>1. a + i = n + (a + i - n) /\ a + i - n \in 0 .. n - 1  BY <1>2
  <2>2. (a + i) % n = a + i - n  BY <2>1
  <2> QED  BY <1>2, <2>2 DEF Ahead
<1> QED  BY <1>1, <1>2

\* A step that leaves the receive ring alone, or the transmit ring.
LEMMA RxQuiet ==
    ASSUME RxOK, UNCHANGED ring, h'.strayed = h.strayed, h'.waiting = h.waiting
    PROVE  RxOK'
BY DEF RxOK, Taken, ring

LEMMA TxQuiet ==
    ASSUME TxOK, UNCHANGED txring, h'.over = h.over, h'.tosend = h.tosend
    PROVE  TxOK'
BY DEF TxOK, txring

\* Which steps those are
LEMMA Quiet ==
    ASSUME EType, [Next]_vars
    PROVE  /\ \/ DevOn \/ DevUp \/ (\E len \in Lens : Post(len)) \/ Isr
              \/ UNCHANGED ring /\ h'.strayed = h.strayed /\ h'.waiting = h.waiting
           /\ \/ Send \/ TxXmit
              \/ UNCHANGED txring /\ h'.over = h.over /\ h'.tosend = h.tosend
<1>0. h \in Histories  BY DEF EType
<1>1. CASE UNCHANGED vars  BY <1>1 DEF vars
<1>2. CASE DevOn \/ DevUp  BY <1>2 DEF DevOn, DevUp
<1>3. CASE \E len \in Lens : Post(len)
  <2> PICK len \in Lens : Post(len)  BY <1>3
  <2> DEFINE b == h.strayed \/ len # "good" \/ isr.at = "cur"
             w == IF b THEN <<>> ELSE Append(h.waiting, h.posted + 1)
  <2>1. h' = [h EXCEPT !.posted = h.posted + 1, !.strayed = b, !.waiting = w]  BY DEF Post
  <2>2. UNCHANGED txring  BY DEF Post
  <2> HIDE DEF b, w
  <2> QED  BY <1>0, <1>3, <2>1, <2>2 DEF Histories
<1>4. CASE Send  BY <1>0, <1>4 DEF Send, Histories
<1>5. CASE Isr
  <2>1. CASE IsrFrame
    <3> DEFINE w == IF h.waiting = <<>> THEN h.waiting ELSE Tail(h.waiting)
    <3>1. UNCHANGED txring
          /\ \/ \E l : h' = [h EXCEPT !.waiting = w, !.lost = l]
             \/ h' = [h EXCEPT !.waiting = w]
          BY <2>1 DEF IsrFrame
    <3> HIDE DEF w
    <3>2. CASE h' = [h EXCEPT !.waiting = w]  BY <1>0, <1>5, <3>1, <3>2 DEF Histories
    <3>3. CASE \E l : h' = [h EXCEPT !.waiting = w, !.lost = l]
          BY <1>0, <1>5, <3>1, <3>3 DEF Histories
    <3> QED  BY <3>1, <3>2, <3>3
  <2>2. CASE IsrEnter \/ IsrCur \/ IsrSkip \/ IsrEnq
        BY <1>5, <2>2 DEF IsrEnter, IsrCur, IsrSkip, IsrEnq
  <2> QED  BY <1>5, <2>1, <2>2 DEF Isr
<1>6. CASE RxTask
  <2>1. CASE RxLink
    <3>1. UNCHANGED <<ring, txring>> /\ \E c, l : h' = [h EXCEPT !.clash = c, !.lost = l]
          BY <2>1 DEF RxLink
    <3> QED  BY <1>0, <3>1 DEF Histories
  <2>2. CASE RxTest \/ RxUnlink \/ RxRelink \/ RxInput \/ RxAdd \/ RxWait
        BY <2>2 DEF RxTest, RxUnlink, RxRelink, RxInput, RxAdd, RxWait
  <2> QED  BY <1>6, <2>1, <2>2 DEF RxTask
<1>7. CASE TxTask
  <2>1. CASE TxXmit
    <3>1. UNCHANGED ring
          /\ \/ h' = [h EXCEPT !.over = TRUE, !.tosend = <<>>]
             \/ \E s : h' = [h EXCEPT !.tosend = s]
          BY <2>1 DEF TxXmit
    <3>2. CASE h' = [h EXCEPT !.over = TRUE, !.tosend = <<>>]
          BY <1>0, <2>1, <3>1, <3>2 DEF Histories
    <3>3. CASE \E s : h' = [h EXCEPT !.tosend = s]
          BY <1>0, <2>1, <3>1, <3>3 DEF Histories
    <3> QED  BY <3>1, <3>2, <3>3
  <2>2. CASE TxTest \/ TxUnlink \/ TxRelink
        BY <2>2 DEF TxTest, TxUnlink, TxRelink
  <2> QED  BY <1>7, <2>1, <2>2 DEF TxTask
<1> QED  BY <1>1, <1>2, <1>3, <1>4, <1>5, <1>6, <1>7 DEF Next

\* The frame that arrives goes behind those the handler has not seen.
LEMMA RxPost ==
    ASSUME EType, RxOK, NEW len \in Lens, Post(len) PROVE RxOK'
<1> USE EthAssumption
<1> DEFINE b == h.strayed \/ len # "good" \/ isr.at = "cur"
           s == IF b THEN <<>> ELSE Append(h.waiting, h.posted + 1)
           w == Len(h.waiting)
           st == [len |-> len, n |-> h.posted + 1]
<1>1. h \in Histories /\ h.waiting \in Seq(Nat) /\ h.posted \in Nat
      BY DEF EType, Histories
<1>2. h'.strayed = b /\ h'.waiting = s
  <2>1. h' = [h EXCEPT !.posted = h.posted + 1, !.strayed = b, !.waiting = s]  BY DEF Post
  <2> HIDE DEF b, s
  <2> QED  BY <1>1, <2>1 DEF Histories
<1>3. /\ dev # "down" /\ credit > 0 /\ credit' = credit - 1 /\ irq' = TRUE
      /\ sts' = [sts EXCEPT ![cur] = st] /\ cur' = NextIn(cur, RxNum)
      /\ UNCHANGED <<dev, isr, last>>
      BY DEF Post
<1> SUFFICES ASSUME ~h'.strayed PROVE RxOK'
    BY DEF RxOK
<1>4. ~h.strayed /\ len = "good" /\ isr.at # "cur" /\ s = Append(h.waiting, h.posted + 1)
      BY <1>2
<1>5. /\ w \in Nat /\ Len(s) = w + 1 /\ s[w + 1] = h.posted + 1
      /\ \A i \in 1 .. w : s[i] = h.waiting[i]
      BY <1>1, <1>4, LenProperties, AppendProperties
<1> HIDE DEF b, s
<1>6. /\ Ahead(last, w, RxNum) = cur
      /\ \A i \in 1 .. w :
            sts[Ahead(last, i - 1, RxNum)] = [len |-> "good", n |-> h.waiting[i]]
      /\ credit + w + Taken = RxNum
      BY <1>3, <1>4 DEF RxOK
<1>7. /\ cur \in 0 .. RxNum - 1 /\ last \in 0 .. RxNum - 1
      /\ credit \in Nat /\ Taken \in Nat
      /\ sts \in [0 .. RxNum - 1 -> Statuses]
      BY DEF EType, RingType, Isrs, Taken
<1>8. w \in 0 .. RxNum - 1  BY <1>3, <1>5, <1>6, <1>7
<1>a. /\ \A i \in 0 .. RxNum : Ahead(last, i, RxNum) \in 0 .. RxNum - 1
      /\ \A i, j \in 0 .. RxNum - 1 :
            Ahead(last, i, RxNum) = Ahead(last, j, RxNum) => i = j
      /\ \A i \in 0 .. RxNum - 1 :
            NextIn(Ahead(last, i, RxNum), RxNum) = Ahead(last, i + 1, RxNum)
      BY <1>7, AheadFacts
<1>9. Ahead(last, w + 1, RxNum) = cur'  BY <1>3, <1>6, <1>8, <1>a
<1>10. ASSUME NEW i \in 1 .. w + 1
       PROVE  sts'[Ahead(last, i - 1, RxNum)] = [len |-> "good", n |-> s[i]]
  <2>1. CASE i = w + 1
    <3>1. Ahead(last, i - 1, RxNum) = cur  BY <2>1, <1>5, <1>6
    <3> QED  BY <3>1, <2>1, <1>3, <1>4, <1>5, <1>7
  <2>2. CASE i \in 1 .. w
    <3>1. i - 1 \in 0 .. RxNum - 1 /\ i - 1 # w  BY <2>2, <1>8
    <3>a. Ahead(last, i - 1, RxNum) # Ahead(last, w, RxNum)  BY <3>1, <1>8, <1>a
    <3>b. i - 1 \in 0 .. RxNum  BY <3>1
    <3>2. Ahead(last, i - 1, RxNum) \in 0 .. RxNum - 1
          /\ Ahead(last, i - 1, RxNum) # cur
          BY <3>a, <3>b, <1>6, <1>a
    <3>3. sts'[Ahead(last, i - 1, RxNum)] = sts[Ahead(last, i - 1, RxNum)]
          BY <3>2, <1>3, <1>7
    <3> QED  BY <3>3, <2>2, <1>5, <1>6
  <2> QED  BY <2>1, <2>2, <1>5
<1>11. credit' + (w + 1) + Taken' = RxNum
  <2>1. Taken' = Taken  BY <1>3 DEF Taken
  <2> QED  BY <2>1, <1>3, <1>5, <1>6, <1>7
<1>12. ASSUME isr'.at = "loop"
       PROVE  \E k \in 1 .. w + 1 : /\ Ahead(last', k, RxNum) = isr'.cur
                                    /\ k + isr'.q <= RxNum
                                    /\ irq' => k < w + 1
  <2>1. PICK k \in 1 .. w : Ahead(last, k, RxNum) = isr.cur /\ k + isr.q <= RxNum
    <3> isr.at = "loop"  BY <1>3, <1>12
    <3>1. ~h.strayed  BY <1>4
    <3> QED  BY <3>1 DEF RxOK
  <2> k \in 1 .. w + 1 /\ k < w + 1  BY <1>5
  <2> QED  BY <2>1, <1>3
<1>13. Len(h'.waiting) = w + 1  BY <1>2, <1>5
<1> HIDE DEF w
<1>14. h'.waiting = s  BY <1>2
<1>15. w + 1 <= RxNum /\ w + 1 > 0  BY <1>8
<1> QED  BY <1>3, <1>4, <1>9, <1>10, <1>11, <1>12, <1>13, <1>14, <1>15 DEF RxOK

\* The controller is switched on, or its interrupt let through.
LEMMA RxSwitch ==
    ASSUME EType, RxOK, DevOn \/ DevUp PROVE RxOK'
<1> USE EthAssumption
<1>1. CASE DevOn
  <2>1. /\ dev = "down" /\ dev' = "on" /\ credit' = RxNum
        /\ UNCHANGED <<sts, cur, irq, isr, last, h>>
        BY <1>1 DEF DevOn
  <2> QED  BY <2>1 DEF RxOK, Taken
<1>2. CASE DevUp
  <2>1. /\ dev = "on" /\ dev' = "up" /\ irq' = FALSE
        /\ UNCHANGED <<sts, cur, credit, isr, last, h>>
        BY <1>2 DEF DevUp
  <2> QED  BY <2>1 DEF RxOK, Taken
<1> QED  BY <1>1, <1>2

\* The handler starts, reads how far it has to go, and gives back what it took.
LEMMA RxHandler ==
    ASSUME EType, RxOK, IsrEnter \/ IsrCur \/ IsrEnq PROVE RxOK'
<1> USE EthAssumption
<1>0. isr \in Isrs /\ credit \in Nat /\ last \in 0 .. RxNum - 1
      BY DEF EType, RingType
<1>1. CASE IsrEnter
  <2>1. /\ dev = "up" /\ irq /\ isr.at = "idle" /\ irq' = FALSE
        /\ isr' = [isr EXCEPT !.at = "cur"]
        /\ UNCHANGED <<dev, sts, cur, credit, last, h>>
        BY <1>1 DEF IsrEnter
  <2>2. isr'.at = "cur"  BY <1>0, <2>1 DEF Isrs
  <2> QED  BY <2>1, <2>2 DEF RxOK, Taken
<1>2. CASE IsrCur
  <2>1. /\ isr.at = "cur" /\ isr' = [at |-> "loop", cur |-> cur, q |-> 0]
        /\ UNCHANGED <<dev, sts, cur, credit, irq, last, h>>
        BY <1>2 DEF IsrCur
  <2>2. isr'.at = "loop" /\ isr'.cur = cur /\ isr'.q = 0  BY <2>1
  <2> SUFFICES ASSUME ~h.strayed PROVE RxOK'
      BY <2>1 DEF RxOK
  <2> DEFINE w == Len(h.waiting)
  <2>4. w \in Nat /\ w > 0 /\ w <= RxNum /\ Ahead(last, w, RxNum) = cur
        BY <2>1, LenProperties DEF RxOK, EType, Histories
  <2>5. ~irq  BY <2>1 DEF RxOK
  <2>6. \E k \in 1 .. w : Ahead(last, k, RxNum) = cur /\ k + 0 <= RxNum /\ (irq => k < w)
        BY <2>4, <2>5
  <2> QED  BY <2>1, <2>2, <2>4, <2>6 DEF RxOK, Taken
<1>3. CASE IsrEnq
  <2>1. /\ isr.at = "enq" /\ credit' = credit + isr.q /\ isr' = IsrIdle
        /\ UNCHANGED <<dev, sts, cur, irq, last, h>>
        BY <1>3 DEF IsrEnq
  <2>2. isr'.at = "idle"  BY <2>1 DEF IsrIdle
  <2>3. Len(h.waiting) \in Nat /\ isr.q \in Nat
        BY <1>0, LenProperties DEF EType, Histories, Isrs
  <2> QED  BY <1>0, <2>1, <2>2, <2>3 DEF RxOK, Taken
<1> QED  BY <1>1, <1>2, <1>3

\* The handler looks at a status: while it has any to go, that is a frame, and
\* the one it takes next.
LEMMA RxTake ==
    ASSUME EType, RxOK, IsrSkip \/ IsrFrame PROVE RxOK'
<1> USE EthAssumption
<1>0. /\ h \in Histories /\ h.waiting \in Seq(Nat) /\ isr.at = "loop"
      /\ isr \in Isrs /\ RingType /\ last \in 0 .. RxNum - 1
      BY DEF EType, RingType, Histories, IsrSkip, IsrFrame
<1>1. UNCHANGED <<dev, sts, cur, credit, irq>> /\ h'.strayed = h.strayed
  <2>1. CASE IsrSkip  BY <2>1 DEF IsrSkip
  <2>2. CASE IsrFrame
    <3> DEFINE s == IF h.waiting = <<>> THEN h.waiting ELSE Tail(h.waiting)
    <3>1. \/ \E l : h' = [h EXCEPT !.waiting = s, !.lost = l]
          \/ h' = [h EXCEPT !.waiting = s]
          BY <2>2 DEF IsrFrame
    <3> HIDE DEF s
    <3>2. h'.strayed = h.strayed  BY <1>0, <3>1 DEF Histories
    <3> QED  BY <2>2, <3>2 DEF IsrFrame
  <2> QED  BY <2>1, <2>2
<1> SUFFICES ASSUME ~h.strayed PROVE RxOK'
    BY <1>1 DEF RxOK
<1> DEFINE w == Len(h.waiting)
<1>2. w \in Nat  BY <1>0, LenProperties
<1>3. PICK k \in 1 .. w : /\ Ahead(last, k, RxNum) = isr.cur /\ k + isr.q <= RxNum
                          /\ irq => k < w
      BY <1>0 DEF RxOK
<1>4. /\ w <= RxNum /\ Ahead(last, w, RxNum) = cur /\ dev # "down"
      /\ credit + w + isr.q = RxNum
      /\ \A i \in 1 .. w :
            sts[Ahead(last, i - 1, RxNum)] = [len |-> "good", n |-> h.waiting[i]]
      BY <1>0 DEF RxOK, Taken
<1>5. /\ Ahead(last, 0, RxNum) = last
      /\ \A i, j \in 0 .. RxNum - 1 :
            Ahead(last, i, RxNum) = Ahead(last, j, RxNum) => i = j
      /\ \A i \in 0 .. RxNum - 1 :
            Ahead(NextIn(last, RxNum), i, RxNum) = Ahead(last, i + 1, RxNum)
      BY <1>0, AheadFacts
<1>6. sts[last].len = "good"
  <2>1. 1 \in 1 .. w /\ Ahead(last, 1 - 1, RxNum) = last  BY <1>2, <1>3, <1>5
  <2>2. sts[last] = [len |-> "good", n |-> h.waiting[1]]  BY <2>1, <1>4
  <2> QED  BY <2>2
<1>7. IsrFrame /\ last' = NextIn(last, RxNum) /\ isr' = Looped(last')
      BY <1>6 DEF IsrSkip, IsrFrame
<1>8. h'.waiting = Tail(h.waiting)
  <2> DEFINE s == IF h.waiting = <<>> THEN h.waiting ELSE Tail(h.waiting)
  <2>1. \/ \E l : h' = [h EXCEPT !.waiting = s, !.lost = l]
        \/ h' = [h EXCEPT !.waiting = s]
        BY <1>7 DEF IsrFrame
  <2>2. s = Tail(h.waiting)  BY <1>2, <1>3
  <2> HIDE DEF s
  <2>3. h'.waiting = s  BY <1>0, <2>1 DEF Histories
  <2> QED  BY <2>2, <2>3
<1>9. /\ Len(h'.waiting) = w - 1
      /\ \A i \in 1 .. w - 1 : h'.waiting[i] = h.waiting[i + 1]
  <2>1. h.waiting # <<>>  BY <1>2, <1>3
  <2> QED  BY <1>0, <1>8, <2>1, HeadTailProperties
<1> HIDE DEF w
<1>10. Ahead(last', w - 1, RxNum) = cur'
  <2>1. w - 1 \in 0 .. RxNum - 1 /\ (w - 1) + 1 = w  BY <1>2, <1>3, <1>4
  <2> QED  BY <2>1, <1>1, <1>4, <1>5, <1>7
<1>11. ASSUME NEW i \in 1 .. w - 1
       PROVE  sts'[Ahead(last', i - 1, RxNum)] = [len |-> "good", n |-> h'.waiting[i]]
  <2>1. i - 1 \in 0 .. RxNum - 1 /\ i + 1 \in 1 .. w /\ (i + 1) - 1 = (i - 1) + 1
        BY <1>2, <1>4
  <2>2. Ahead(last', i - 1, RxNum) = Ahead(last, (i + 1) - 1, RxNum)  BY <2>1, <1>5, <1>7
  <2> QED  BY <2>1, <2>2, <1>1, <1>4, <1>9
<1>12. /\ isr'.q = isr.q + 1 /\ isr'.cur = isr.cur
       /\ isr'.at = IF last' # isr.cur /\ isr.q + 1 < RxNum THEN "loop" ELSE "enq"
       BY <1>0, <1>7, LoopedType
<1>13. isr.q \in Nat /\ credit \in Nat  BY <1>0 DEF Isrs, RingType
<1>14. credit' + (w - 1) + isr'.q = RxNum
       BY <1>1, <1>2, <1>4, <1>12, <1>13
<1>15. CASE k = 1
  <2>1. last' = isr.cur
    <3>1. 0 \in 0 .. RxNum - 1 /\ 0 + 1 = k  BY <1>15
    <3>2. Ahead(last', 0, RxNum) = isr.cur  BY <3>1, <1>3, <1>5, <1>7
    <3>3. last' \in 0 .. RxNum - 1  BY <1>0, <1>7, NextInRange
    <3> QED  BY <3>2, <3>3, AheadFacts
  <2>2. isr'.at = "enq"  BY <2>1, <1>12
  <2>3. irq' => w - 1 > 0  BY <1>1, <1>2, <1>3, <1>15
  <2>4. w - 1 <= RxNum  BY <1>2, <1>4
  <2> QED  BY <1>1, <1>4, <1>9, <1>10, <1>11, <1>14, <2>2, <2>3, <2>4 DEF RxOK, Taken
<1>16. CASE k > 1
  <2>1. k - 1 \in 1 .. w - 1 /\ k - 1 \in 0 .. RxNum - 1 /\ (k - 1) + 1 = k
        BY <1>2, <1>3, <1>4, <1>16
  <2>2. Ahead(last', k - 1, RxNum) = isr'.cur  BY <2>1, <1>3, <1>5, <1>7, <1>12
  <2>3. (k - 1) + isr'.q <= RxNum /\ (irq' => k - 1 < w - 1)
        BY <1>1, <1>2, <1>3, <1>12, <1>13, <2>1
  <2>4. isr'.at \in {"loop", "enq"}  BY <1>12
  <2>5. irq' \/ isr'.at = "cur" => w - 1 > 0  BY <1>2, <2>1
  <2>6. w - 1 <= RxNum  BY <1>2, <1>4
  <2>7. \E j \in 1 .. w - 1 : /\ Ahead(last', j, RxNum) = isr'.cur
                              /\ j + isr'.q <= RxNum
                              /\ irq' => j < w - 1
        BY <2>1, <2>2, <2>3
  <2> QED  BY <1>1, <1>4, <1>9, <1>10, <1>11, <1>14, <2>4, <2>5, <2>6, <2>7 DEF RxOK, Taken
<1> QED  BY <1>3, <1>15, <1>16

LEMMA RxStep == EType /\ RxOK /\ [Next]_vars => RxOK'
BY Quiet, RxQuiet, RxPost, RxSwitch, RxHandler, RxTake DEF Isr

-----------------------------------------------------------------------------
(* Transmission *)

LEMMA TxSend ==
    ASSUME EType, TxOK, Send PROVE TxOK'
<1> USE EthAssumption
<1>1. /\ pending > 0 /\ pending' = pending - 1 /\ txd' = [txd EXCEPT ![txcur] = 0]
      /\ txcur' = NextIn(txcur, TxNum) /\ txnext' = txnext
      /\ h' = IF h.over THEN h ELSE [h EXCEPT !.tosend = Tail(@)]
      BY DEF Send
<1>2. /\ h \in Histories /\ h.tosend \in Seq(Nat)
      /\ txcur \in 0 .. TxNum - 1 /\ pending \in Nat
      /\ txd \in [0 .. TxNum - 1 -> 0 .. MaxFrames]
      BY DEF EType, TxType, Histories
<1> SUFFICES ASSUME ~h.over PROVE TxOK'
    BY <1>1 DEF TxOK
<1>3. ~h'.over /\ h'.tosend = Tail(h.tosend)  BY <1>1, <1>2 DEF Histories
<1>4. /\ pending = Len(h.tosend) /\ pending <= TxNum
      /\ Ahead(txcur, pending, TxNum) = txnext
      /\ \A i \in 1 .. pending : txd[Ahead(txcur, i - 1, TxNum)] = h.tosend[i]
      BY DEF TxOK
<1>5. /\ Len(h'.tosend) = pending - 1
      /\ \A i \in 1 .. pending - 1 : h'.tosend[i] = h.tosend[i + 1]
  <2>1. h.tosend # <<>>  BY <1>1, <1>4
  <2> QED  BY <1>2, <1>3, <1>4, <2>1, HeadTailProperties
<1>6. /\ Ahead(txcur, 0, TxNum) = txcur
      /\ \A i \in 0 .. TxNum : Ahead(txcur, i, TxNum) \in 0 .. TxNum - 1
      /\ \A i, j \in 0 .. TxNum - 1 :
            Ahead(txcur, i, TxNum) = Ahead(txcur, j, TxNum) => i = j
      /\ \A i \in 0 .. TxNum - 1 :
            Ahead(NextIn(txcur, TxNum), i, TxNum) = Ahead(txcur, i + 1, TxNum)
      BY <1>2, AheadFacts
<1>7. Ahead(txcur', pending', TxNum) = txnext'
  <2>1. pending' \in 0 .. TxNum - 1 /\ pending' + 1 = pending  BY <1>1, <1>2, <1>4
  <2> QED  BY <2>1, <1>1, <1>4, <1>6
<1>8. ASSUME NEW i \in 1 .. pending'
      PROVE  txd'[Ahead(txcur', i - 1, TxNum)] = h'.tosend[i]
  <2>1. /\ i \in 0 .. TxNum - 1 /\ i # 0 /\ 0 \in 0 .. TxNum - 1 /\ i - 1 \in 0 .. TxNum - 1
        /\ (i - 1) + 1 = i /\ i + 1 \in 1 .. pending /\ (i + 1) - 1 = i
        /\ i \in 1 .. pending - 1
    <3> pending \in Nat /\ pending <= TxNum /\ pending' = pending - 1  BY <1>1, <1>2, <1>4
    <3> i \in Nat /\ i >= 1 /\ i <= pending - 1  OBVIOUS
    <3> QED  OBVIOUS
  <2>2. Ahead(txcur', i - 1, TxNum) = Ahead(txcur, i, TxNum)  BY <2>1, <1>1, <1>6
  <2>3. Ahead(txcur, i, TxNum) \in 0 .. TxNum - 1 /\ Ahead(txcur, i, TxNum) # txcur
        BY <2>1, <1>6
  <2>4. txd'[Ahead(txcur, i, TxNum)] = txd[Ahead(txcur, i, TxNum)]
        BY <2>3, <1>1, <1>2
  <2>5. txd[Ahead(txcur, i, TxNum)] = h.tosend[i + 1]  BY <2>1, <1>4
  <2> QED  BY <2>1, <2>2, <2>4, <2>5, <1>5
<1>9. pending' = Len(h'.tosend) /\ pending' <= TxNum  BY <1>1, <1>2, <1>4, <1>5
<1> QED  BY <1>7, <1>8, <1>9 DEF TxOK

LEMMA TxFill ==
    ASSUME EType, TxOK, TxXmit PROVE TxOK'
<1> USE EthAssumption
<1> DEFINE f == frame[tx.pkt]
<1>1. /\ txd' = [txd EXCEPT ![txnext] = f] /\ txnext' = NextIn(txnext, TxNum)
      /\ pending' = pending + 1 /\ txcur' = txcur
      /\ h' = IF h.over \/ pending = TxNum
                  THEN [h EXCEPT !.over = TRUE, !.tosend = <<>>]
                  ELSE [h EXCEPT !.tosend = Append(@, f)]
      BY DEF TxXmit
<1>2. /\ h \in Histories /\ h.tosend \in Seq(Nat) /\ f \in Nat
      /\ txcur \in 0 .. TxNum - 1 /\ txnext \in 0 .. TxNum - 1 /\ pending \in Nat
      /\ txd \in [0 .. TxNum - 1 -> 0 .. MaxFrames]
  <2>1. f \in 0 .. MaxFrames  BY DEF EType, TaskType, ListType, TxXmit, TxAt
  <2> QED  BY <2>1 DEF EType, TxType, Histories
<1> HIDE DEF f
<1> SUFFICES ASSUME ~h'.over PROVE TxOK'
    BY DEF TxOK
<1>3. ~h.over /\ pending # TxNum /\ h'.tosend = Append(h.tosend, f)
  <2>1. ~(h.over \/ pending = TxNum)  BY <1>1, <1>2 DEF Histories
  <2> QED  BY <2>1, <1>1, <1>2 DEF Histories
<1>4. /\ pending = Len(h.tosend) /\ pending <= TxNum
      /\ Ahead(txcur, pending, TxNum) = txnext
      /\ \A i \in 1 .. pending : txd[Ahead(txcur, i - 1, TxNum)] = h.tosend[i]
      BY <1>3 DEF TxOK
<1>5. /\ Len(h'.tosend) = pending + 1 /\ h'.tosend[pending + 1] = f
      /\ \A i \in 1 .. pending : h'.tosend[i] = h.tosend[i]
      BY <1>2, <1>3, <1>4, AppendProperties
<1>6. /\ \A i \in 0 .. TxNum : Ahead(txcur, i, TxNum) \in 0 .. TxNum - 1
      /\ \A i, j \in 0 .. TxNum - 1 :
            Ahead(txcur, i, TxNum) = Ahead(txcur, j, TxNum) => i = j
      /\ \A i \in 0 .. TxNum - 1 :
            NextIn(Ahead(txcur, i, TxNum), TxNum) = Ahead(txcur, i + 1, TxNum)
      BY <1>2, AheadFacts
<1>7. pending \in 0 .. TxNum - 1  BY <1>2, <1>3, <1>4
<1>8. Ahead(txcur', pending', TxNum) = txnext'  BY <1>1, <1>4, <1>6, <1>7
<1>9. ASSUME NEW i \in 1 .. pending + 1
      PROVE  txd'[Ahead(txcur, i - 1, TxNum)] = h'.tosend[i]
  <2>1. CASE i = pending + 1
    <3>1. Ahead(txcur, i - 1, TxNum) = txnext  BY <2>1, <1>2, <1>4
    <3> QED  BY <3>1, <2>1, <1>1, <1>2, <1>5
  <2>2. CASE i \in 1 .. pending
    <3>1. i - 1 \in 0 .. TxNum - 1 /\ i - 1 # pending  BY <2>2, <1>7
    <3>2. Ahead(txcur, i - 1, TxNum) \in 0 .. TxNum - 1
          /\ Ahead(txcur, i - 1, TxNum) # txnext
      <4>1. Ahead(txcur, i - 1, TxNum) # Ahead(txcur, pending, TxNum)  BY <3>1, <1>6, <1>7
      <4>2. i - 1 \in 0 .. TxNum  BY <3>1
      <4> QED  BY <4>1, <4>2, <1>4, <1>6
    <3>3. txd'[Ahead(txcur, i - 1, TxNum)] = txd[Ahead(txcur, i - 1, TxNum)]
          BY <3>2, <1>1, <1>2
    <3> QED  BY <3>3, <2>2, <1>4, <1>5
  <2> QED  BY <2>1, <2>2, <1>2
<1>10. pending' = Len(h'.tosend) /\ pending' <= TxNum  BY <1>1, <1>5, <1>7
<1> QED  BY <1>1, <1>8, <1>9, <1>10 DEF TxOK

LEMMA TxStep == EType /\ TxOK /\ [Next]_vars => TxOK'
BY Quiet, TxQuiet, TxSend, TxFill

-----------------------------------------------------------------------------
LEMMA RingsInit == Init => RxOK /\ TxOK
<1> SUFFICES ASSUME Init PROVE RxOK /\ TxOK  OBVIOUS
<1>1. /\ h.waiting = <<>> /\ h.tosend = <<>> /\ isr.at = "idle"
      /\ dev = "down" /\ cur = 0 /\ last = 0 /\ ~irq
      /\ txnext = 0 /\ txcur = 0 /\ pending = 0
      BY DEF Init, IsrIdle
<1>2. Ahead(0, 0, RxNum) = 0 /\ Ahead(0, 0, TxNum) = 0
      BY EthAssumption, AheadFacts
<1> QED  BY <1>1, <1>2, EthAssumption DEF RxOK, TxOK, Taken

LEMMA RingsSuffice == EType /\ RxOK /\ TxOK => RingsInStep
<1> SUFFICES ASSUME EType, RxOK, TxOK PROVE RxInStep /\ TxInStep
    BY DEF RingsInStep
<1> USE EthAssumption
<1>1. RxInStep
  <2> SUFFICES ASSUME ~h.strayed PROVE RxInStep
      BY DEF RxInStep
  <2> DEFINE w == Len(h.waiting)
  <2>1. /\ w \in Nat /\ DOMAIN h.waiting = 1 .. w /\ last \in 0 .. RxNum - 1
        BY LenProperties DEF EType, RingType, Histories
  <2>2. /\ w <= RxNum /\ Ahead(last, w, RxNum) = cur
        /\ \A i \in 1 .. w :
              sts[Ahead(last, i - 1, RxNum)] = [len |-> "good", n |-> h.waiting[i]]
        /\ dev # "down" => credit + w + Taken = RxNum
        BY DEF RxOK
  <2> HIDE DEF w
  <2>3. (last + w) % RxNum = cur  BY <2>1, <2>2, AheadMod
  <2>4. ASSUME NEW i \in 1 .. w
        PROVE  sts[(last + i - 1) % RxNum] = [len |-> "good", n |-> h.waiting[i]]
    <3>1. i - 1 \in 0 .. RxNum /\ last + (i - 1) = last + i - 1  BY <2>1, <2>2
    <3>2. (last + (i - 1)) % RxNum = Ahead(last, i - 1, RxNum)  BY <3>1, <2>1, AheadMod
    <3> QED  BY <3>1, <3>2, <2>2
  <2> QED  BY <2>1, <2>2, <2>3, <2>4 DEF RxInStep, Taken, w
<1>2. TxInStep
  <2> SUFFICES ASSUME ~h.over PROVE TxInStep
      BY DEF TxInStep
  <2>1. /\ pending = Len(h.tosend) /\ pending <= TxNum
        /\ \A i \in 1 .. pending : txd[Ahead(txcur, i - 1, TxNum)] = h.tosend[i]
        BY DEF TxOK
  <2>2. /\ pending \in Nat /\ DOMAIN h.tosend = 1 .. pending /\ txcur \in 0 .. TxNum - 1
        BY <2>1, LenProperties DEF EType, TxType, Histories
  <2>3. ASSUME NEW i \in 1 .. pending
        PROVE  txd[(txcur + i - 1) % TxNum] = h.tosend[i]
    <3>1. i - 1 \in 0 .. TxNum /\ txcur + (i - 1) = txcur + i - 1  BY <2>1, <2>2
    <3>2. (txcur + (i - 1)) % TxNum = Ahead(txcur, i - 1, TxNum)  BY <3>1, <2>2, AheadMod
    <3> QED  BY <3>1, <3>2, <2>1
  <2> QED  BY <2>1, <2>2, <2>3 DEF TxInStep
<1> QED  BY <1>1, <1>2

\* Until a frame of bad length, or one posted behind the handler's back, leads it
\* astray, the handler and the controller agree on the receive statuses; and until
\* a descriptor is filled again too early, the controller sends what ep9301_xmit
\* was given, in order: for rings of every size (process_rx_queue, ep9301_xmit).
THEOREM RingsAgree == Spec => []RingsInStep
<1>1. EType /\ RxOK /\ TxOK /\ [Next]_vars => (EType /\ RxOK /\ TxOK)'
      BY ETypeStep, RxStep, TxStep
<1>2. Init => EType /\ RxOK /\ TxOK
      BY ETypeInit, RingsInit
<1> QED  BY <1>1, <1>2, RingsSuffice, PTL DEF Spec

-----------------------------------------------------------------------------
(* Linked lists *)

\* The n packets t, the newest last, hang on q: by the pointers nx each leads to
\* the one before it, and every pv leads to q, for an insertion leaves the prev of
\* the element that was the first.
Path(nx, pv, q, n, t) ==
    /\ t \in [1 .. n -> Pkts]
    /\ nx[q] = IF n = 0 THEN NULL ELSE t[n]
    /\ \A i \in 1 .. n : /\ nx[t[i]] = IF i = 1 THEN NULL ELSE t[i - 1]
                         /\ pv[t[i]] = q
    /\ \A i, j \in 1 .. n : t[i] = t[j] => i = j

\* The packets A hang on q.
Listed(nx, pv, q, A) ==
    \E n \in Nat : \E t \in [1 .. n -> Pkts] :
        Path(nx, pv, q, n, t) /\ A = {t[i] : i \in 1 .. n}

LEMMA ListedFacts ==
    ASSUME NEW nx, NEW pv, NEW q, NEW A, Listed(nx, pv, q, A)
    PROVE  /\ A \subseteq Pkts /\ nx[q] \in A \union {NULL}
           /\ \A p \in A : pv[p] = q /\ nx[p] \in A \union {NULL}
<1>0. PICK n \in Nat : \E t \in [1 .. n -> Pkts] :
          Path(nx, pv, q, n, t) /\ A = {t[i] : i \in 1 .. n}
      BY DEF Listed
<1>1. PICK t \in [1 .. n -> Pkts] :
          Path(nx, pv, q, n, t) /\ A = {t[i] : i \in 1 .. n}
      BY <1>0
<1>2. nx[q] \in A \union {NULL}
  <2>1. n # 0 => n \in 1 .. n  OBVIOUS
  <2> QED  BY <1>1, <2>1 DEF Path
<1>3. ASSUME NEW i \in 1 .. n
      PROVE  pv[t[i]] = q /\ nx[t[i]] \in A \union {NULL}
  <2>1. i # 1 => i - 1 \in 1 .. n  OBVIOUS
  <2> QED  BY <1>1, <2>1 DEF Path
<1> QED  BY <1>1, <1>2, <1>3

\* What does not touch the list keeps it.
LEMMA ListedKept ==
    ASSUME NEW nx, NEW pv, NEW q, NEW A, Listed(nx, pv, q, A), NEW mx, NEW pw,
           mx[q] = nx[q], \A p \in A : mx[p] = nx[p] /\ pw[p] = pv[p]
    PROVE  Listed(mx, pw, q, A)
<1>0. PICK n \in Nat : \E t \in [1 .. n -> Pkts] :
          Path(nx, pv, q, n, t) /\ A = {t[i] : i \in 1 .. n}
      BY DEF Listed
<1>1. PICK t \in [1 .. n -> Pkts] :
          Path(nx, pv, q, n, t) /\ A = {t[i] : i \in 1 .. n}
      BY <1>0
<1>2. Path(mx, pw, q, n, t)
      BY <1>1 DEF Path
<1> QED  BY <1>1, <1>2 DEF Listed

\* list_add_after
LEMMA ListedPush ==
    ASSUME NEW nx, NEW pv, NEW q, NEW A, Listed(nx, pv, q, A), NEW mx, NEW pw,
           NEW p \in Pkts \ A, mx[q] = p, mx[p] = nx[q], pw[p] = q,
           \A x \in A : mx[x] = nx[x] /\ pw[x] = pv[x]
    PROVE  Listed(mx, pw, q, A \union {p})
<1>0. PICK n \in Nat : \E t \in [1 .. n -> Pkts] :
          Path(nx, pv, q, n, t) /\ A = {t[i] : i \in 1 .. n}
      BY DEF Listed
<1>1. PICK t \in [1 .. n -> Pkts] :
          Path(nx, pv, q, n, t) /\ A = {t[i] : i \in 1 .. n}
      BY <1>0
<1> DEFINE u == [i \in 1 .. n + 1 |-> IF i = n + 1 THEN p ELSE t[i]]
<1>2. /\ u \in [1 .. n + 1 -> Pkts] /\ u[n + 1] = p
      /\ \A i \in 1 .. n : i \in 1 .. n + 1 /\ u[i] = t[i] /\ t[i] \in A
      /\ \A i \in 1 .. n + 1 : i = n + 1 \/ i \in 1 .. n
      BY <1>1
<1> HIDE DEF u
<1>3. ASSUME NEW i \in 1 .. n + 1
      PROVE  mx[u[i]] = (IF i = 1 THEN NULL ELSE u[i - 1]) /\ pw[u[i]] = q
  <2>1. CASE i = n + 1
    <3>1. CASE n = 0  BY <1>1, <1>2, <2>1, <3>1 DEF Path
    <3>2. CASE n # 0
      <4>1. n \in 1 .. n /\ i - 1 = n /\ i # 1  BY <2>1, <3>2
      <4> QED  BY <1>1, <1>2, <2>1, <3>2, <4>1 DEF Path
    <3> QED  BY <3>1, <3>2
  <2>2. CASE i \in 1 .. n
    <3>1. i # 1 => i - 1 \in 1 .. n  BY <2>2
    <3> QED  BY <1>1, <1>2, <2>2, <3>1 DEF Path
  <2> QED  BY <1>2, <2>1, <2>2
<1>4. ASSUME NEW i \in 1 .. n + 1, NEW j \in 1 .. n + 1, u[i] = u[j]
      PROVE  i = j
      BY <1>1, <1>2, <1>4 DEF Path
<1>5. Path(mx, pw, q, n + 1, u)
  <2>1. n + 1 # 0  OBVIOUS
  <2> QED  BY <1>2, <1>3, <1>4, <2>1 DEF Path
<1>6. A \union {p} = {u[i] : i \in 1 .. n + 1}
  <2>1. n + 1 \in 1 .. n + 1  OBVIOUS
  <2> QED  BY <1>1, <1>2, <2>1
<1>7. n + 1 \in Nat  OBVIOUS
<1> QED  BY <1>2, <1>5, <1>6, <1>7 DEF Listed

\* list_remove of the first
LEMMA ListedTop ==
    ASSUME NEW nx, NEW pv, NEW q, NEW A, Listed(nx, pv, q, A), nx[q] # NULL, NEW mx,
           mx[q] = nx[nx[q]], \A x \in A : mx[x] = nx[x]
    PROVE  nx[q] \in A /\ Listed(mx, pv, q, A \ {nx[q]})
<1>0. PICK n \in Nat : \E t \in [1 .. n -> Pkts] :
          Path(nx, pv, q, n, t) /\ A = {t[i] : i \in 1 .. n}
      BY DEF Listed
<1>1. PICK t \in [1 .. n -> Pkts] :
          Path(nx, pv, q, n, t) /\ A = {t[i] : i \in 1 .. n}
      BY <1>0
<1>2. n # 0 /\ nx[q] = t[n] /\ n - 1 \in Nat /\ n \in 1 .. n
      BY <1>1 DEF Path
<1> DEFINE u == [i \in 1 .. n - 1 |-> t[i]]
<1>3. /\ u \in [1 .. n - 1 -> Pkts]
      /\ \A i \in 1 .. n - 1 : i \in 1 .. n /\ i # n /\ u[i] = t[i] /\ t[i] \in A
      /\ \A i \in 1 .. n : i = n \/ i \in 1 .. n - 1
      BY <1>1, <1>2
<1> HIDE DEF u
<1>4. ASSUME NEW i \in 1 .. n - 1
      PROVE  mx[u[i]] = (IF i = 1 THEN NULL ELSE u[i - 1]) /\ pv[u[i]] = q
  <2>1. i \in 1 .. n /\ i # n /\ u[i] = t[i] /\ t[i] \in A /\ t[i] # nx[q]
        BY <1>1, <1>2, <1>3 DEF Path
  <2>2. mx[t[i]] = (IF i = 1 THEN NULL ELSE t[i - 1]) /\ pv[t[i]] = q
        BY <1>1, <2>1 DEF Path
  <2>3. i # 1 => u[i - 1] = t[i - 1]
    <3>1. i # 1 => i - 1 \in 1 .. n - 1  BY <1>2
    <3> QED  BY <1>3, <3>1
  <2> QED  BY <2>1, <2>2, <2>3
<1>5. ASSUME NEW i \in 1 .. n - 1, NEW j \in 1 .. n - 1, u[i] = u[j]
      PROVE  i = j
      BY <1>1, <1>3, <1>5 DEF Path
<1>6. mx[q] = IF n - 1 = 0 THEN NULL ELSE u[n - 1]
  <2>1. n # 1 => n - 1 \in 1 .. n - 1  BY <1>2
  <2>2. mx[q] = IF n = 1 THEN NULL ELSE t[n - 1]  BY <1>1, <1>2 DEF Path
  <2> QED  BY <1>2, <1>3, <2>1, <2>2
<1>7. Path(mx, pv, q, n - 1, u)
      BY <1>3, <1>4, <1>5, <1>6 DEF Path
<1>8. A \ {nx[q]} = {u[i] : i \in 1 .. n - 1}
  <2>1. ASSUME NEW x \in A, x # nx[q] PROVE \E i \in 1 .. n - 1 : x = u[i]
        BY <1>1, <1>2, <1>3, <2>1
  <2>2. ASSUME NEW i \in 1 .. n - 1 PROVE u[i] \in A /\ u[i] # nx[q]
        BY <1>1, <1>2, <1>3 DEF Path
  <2> QED  BY <2>1, <2>2
<1> QED  BY <1>1, <1>2, <1>3, <1>7, <1>8 DEF Listed

\* What Chain computes: the walk from q, as a function of the number of steps.
Walk(q) ==
    CHOOSE c : c = [n \in 0 .. Cardinality(Pkts) |->
        IF n = 0 THEN <<next[q]>>
        ELSE IF Last(c[n - 1]) = NULL THEN c[n - 1]
        ELSE Append(c[n - 1], next[Last(c[n - 1])])]

LEMMA ChainIsWalk ==
    ASSUME NEW q PROVE Chain(q) = Walk(q)[Cardinality(Pkts)]
BY DEF Chain, Walk

\* A set of numbers has a least one.
LEMMA HasLeast ==
    ASSUME NEW S \in SUBSET Nat, S # {}
    PROVE  \E k \in S : \A j \in S : k <= j
<1> DEFINE Less == {ss \in Nat \X Nat : ss[1] < ss[2]}
<1>1. OpToRel(<, Nat) = Less
      BY Zenon DEF OpToRel
<1>2. IsWellFoundedOn(Less, Nat)
      BY <1>1, NatLessThanWellFounded, Zenon
<1>3. PICK k \in S : \A j \in S : <<j, k>> \notin Less
  <2> HIDE DEF Less
  <2> QED  BY <1>2, WFMin, Zenon
<1>4. ASSUME NEW j \in S PROVE k <= j
  <2>1. j < k => <<j, k>> \in Less  OBVIOUS
  <2>2. ~(j < k)  BY <1>3, <2>1
  <2> QED  BY <2>2
<1> QED  BY <1>4

\* There are no more packets on a list than there are packets.
LEMMA PathLength ==
    ASSUME NEW n \in Nat, NEW t \in [1 .. n -> Pkts],
           \A i, j \in 1 .. n : t[i] = t[j] => i = j
    PROVE  Cardinality(Pkts) \in Nat /\ n <= Cardinality(Pkts)
<1>1. IsFiniteSet(Pkts)  BY NodesAssumption
<1>2. t \in Injection(1 .. n, Pkts)  BY DEF Injection, IsInjective
<1>3. Cardinality(1 .. n) <= Cardinality(Pkts)  BY <1>1, <1>2, FS_Injection
<1>4. Cardinality(1 .. n) = n  BY FS_Interval
<1> QED  BY <1>1, <1>3, <1>4, FS_CardinalityType

\* The walk along a list
LEMMA WalkIs ==
    ASSUME NEW q, NEW n \in Nat, NEW t \in [1 .. n -> Pkts], Path(next, prev, q, n, t)
    PROVE  /\ Chain(q) \in Seq(Pkts \union {NULL}) /\ Len(Chain(q)) = n + 1
           /\ \A i \in 1 .. n + 1 :
                 Chain(q)[i] = IF i <= n THEN t[n + 1 - i] ELSE NULL
<1> DEFINE N == Cardinality(Pkts)
           S == Pkts \union {NULL}
           x == [i \in 1 .. n + 1 |-> IF i <= n THEN t[n + 1 - i] ELSE NULL]
           m(k) == IF k <= n THEN k + 1 ELSE n + 1
           v(k) == [i \in 1 .. m(k) |-> x[i]]
           E(c, k) == IF k = 0 THEN <<next[q]>>
                      ELSE IF Last(c[k - 1]) = NULL THEN c[k - 1]
                      ELSE Append(c[k - 1], next[Last(c[k - 1])])
           w == [k \in 0 .. N |-> v(k)]
<1>1. N \in Nat /\ n <= N  BY PathLength DEF Path
<1>2. /\ x \in [1 .. n + 1 -> S] /\ x[1] = next[q] /\ x[n + 1] = NULL
      /\ \A i \in 1 .. n : x[i] \in Pkts /\ x[i] # NULL /\ x[i + 1] = next[x[i]]
  <2>1. ASSUME NEW i \in 1 .. n + 1 PROVE x[i] \in S
    <3>1. i <= n => n + 1 - i \in 1 .. n  OBVIOUS
    <3> QED  BY <3>1
  <2>2. x[1] = next[q]
    <3>1. n # 0 => 1 <= n /\ n + 1 - 1 = n  OBVIOUS
    <3>2. 1 \in 1 .. n + 1  OBVIOUS
    <3> QED  BY <3>1, <3>2 DEF Path
  <2>3. ASSUME NEW i \in 1 .. n
        PROVE  x[i] \in Pkts /\ x[i] # NULL /\ x[i + 1] = next[x[i]]
    <3>1. n + 1 - i \in 1 .. n /\ i \in 1 .. n + 1 /\ i + 1 \in 1 .. n + 1 /\ i <= n  OBVIOUS
    <3>2. x[i] = t[n + 1 - i] /\ t[n + 1 - i] \in Pkts  BY <3>1
    <3>3. next[x[i]] = IF n + 1 - i = 1 THEN NULL ELSE t[n + 1 - i - 1]
          BY <3>1, <3>2 DEF Path
    <3>4. /\ n + 1 - i = 1 <=> ~(i + 1 <= n)
          /\ n + 1 - (i + 1) = n + 1 - i - 1
          OBVIOUS
    <3>5. x[i + 1] = IF i + 1 <= n THEN t[n + 1 - (i + 1)] ELSE NULL  BY <3>1
    <3> QED  BY <3>2, <3>3, <3>4, <3>5, NodesAssumption
  <2>4. n + 1 \in 1 .. n + 1 /\ ~(n + 1 <= n)  OBVIOUS
  <2> QED  BY <2>1, <2>2, <2>3, <2>4
<1> HIDE DEF x
<1>3. ASSUME NEW k \in Nat
      PROVE  /\ m(k) \in 1 .. n + 1 /\ v(k) \in Seq(S) /\ Len(v(k)) = m(k)
             /\ \A i \in 1 .. m(k) : v(k)[i] = x[i]
             /\ Last(v(k)) = x[m(k)]
  <2>1. m(k) \in 1 .. n + 1 /\ m(k) \in Nat  OBVIOUS
  <2> HIDE DEF m
  <2>2. \A i \in 1 .. m(k) : i \in 1 .. n + 1  BY <2>1
  <2>3. v(k) \in Seq(S) /\ Len(v(k)) = m(k)  BY <2>1, <2>2, <1>2
  <2>4. m(k) \in 1 .. m(k)  BY <2>1
  <2>5. Last(v(k)) = x[m(k)]  BY <2>3, <2>4 DEF Last
  <2> QED  BY <2>1, <2>3, <2>5
<1>4. ASSUME NEW k \in Nat, NEW c, k # 0 => c[k - 1] = v(k - 1)
      PROVE  E(c, k) = v(k)
  <2>1. CASE k = 0
    <3>1. m(k) = 1  BY <2>1
    <3>2. Len(v(k)) = 1 /\ v(k) \in Seq(S) /\ v(k)[1] = next[q]  BY <3>1, <1>2, <1>3
    <3> HIDE DEF v
    <3>3. v(k) = <<next[q]>>
      <4>1. next[q] \in S  BY <1>2
      <4> QED  BY <3>2, <4>1
    <3> QED  BY <2>1, <3>3
  <2>2. CASE k # 0 /\ k - 1 >= n
    <3>1. m(k) = n + 1 /\ m(k - 1) = n + 1 /\ k - 1 \in Nat  BY <2>2
    <3>2. v(k) = v(k - 1)  BY <3>1
    <3>3. Last(v(k - 1)) = NULL  BY <3>1, <1>2, <1>3
    <3> HIDE DEF v
    <3> QED  BY <1>4, <2>2, <3>2, <3>3
  <2>3. CASE k # 0 /\ k - 1 < n
    <3>1. m(k) = k + 1 /\ m(k - 1) = k /\ k - 1 \in Nat /\ k \in 1 .. n  BY <2>3
    <3>2. Last(v(k - 1)) = x[k] /\ x[k] # NULL /\ next[x[k]] = x[k + 1]
          BY <3>1, <1>2, <1>3
    <3>3. /\ v(k - 1) \in Seq(S) /\ Len(v(k - 1)) = k /\ v(k) \in Seq(S) /\ Len(v(k)) = k + 1
          /\ \A i \in 1 .. k : v(k - 1)[i] = x[i]
          /\ \A i \in 1 .. k + 1 : v(k)[i] = x[i]
          BY <3>1, <1>3
    <3> HIDE DEF v, m
    <3>4. x[k + 1] \in S  BY <3>1, <1>2
    <3>5. /\ Append(v(k - 1), x[k + 1]) \in Seq(S)
          /\ Len(Append(v(k - 1), x[k + 1])) = k + 1
          /\ \A i \in 1 .. k : Append(v(k - 1), x[k + 1])[i] = x[i]
          /\ Append(v(k - 1), x[k + 1])[k + 1] = x[k + 1]
          BY <3>3, <3>4, AppendProperties
    <3>6. ASSUME NEW i \in 1 .. k + 1 PROVE Append(v(k - 1), x[k + 1])[i] = v(k)[i]
      <4>1. i = k + 1 \/ i \in 1 .. k  BY <3>1
      <4> QED  BY <4>1, <3>3, <3>5
    <3>7. Append(v(k - 1), x[k + 1]) = v(k)  BY <3>3, <3>5, <3>6, SeqEqual
    <3> QED  BY <1>4, <2>3, <3>2, <3>7
  <2> QED  BY <2>1, <2>2, <2>3
<1>5. w = [k \in 0 .. N |-> E(w, k)]
  <2>1. ASSUME NEW k \in 0 .. N PROVE E(w, k) = v(k)
    <3>1. k # 0 => w[k - 1] = v(k - 1)
      <4>1. k # 0 => k - 1 \in 0 .. N  BY <1>1
      <4> HIDE DEF v
      <4> QED  BY <4>1
    <3>2. k \in Nat  OBVIOUS
    <3> HIDE DEF v, w, E
    <3> QED  BY <1>4, <3>1, <3>2
  <2> HIDE DEF v, E
  <2> QED  BY <2>1
<1> DEFINE c == Walk(q)
<1>6. c = [k \in 0 .. N |-> E(c, k)]
  <2>1. \E d : d = [k \in 0 .. N |-> E(d, k)]
    <3> HIDE DEF w, E
    <3> QED  BY <1>5
  <2>2. c = CHOOSE d : d = [k \in 0 .. N |-> E(d, k)]  BY DEF Walk
  <2> HIDE DEF E, c
  <2> QED  BY <2>1, <2>2
<1> HIDE DEF c
<1>7. ASSUME NEW k \in 0 .. N PROVE c[k] = v(k)
  <2> DEFINE B == {j \in 0 .. N : c[j] # v(j)}
  <2>1. SUFFICES ASSUME B # {} PROVE FALSE  OBVIOUS
  <2>2. B \in SUBSET Nat  OBVIOUS
  <2>3. PICK j \in B : \A l \in B : j <= l
    <3> HIDE DEF B
    <3> QED  BY <2>1, <2>2, HasLeast
  <2>4. j \in 0 .. N /\ c[j] # v(j) /\ j \in Nat  BY <2>3
  <2>5. j # 0 => c[j - 1] = v(j - 1)
    <3>1. j # 0 => j - 1 \in 0 .. N /\ ~(j <= j - 1)  BY <2>4, <1>1
    <3>2. j # 0 => j - 1 \notin B  BY <3>1, <2>3
    <3> HIDE DEF v
    <3> QED  BY <3>1, <3>2
  <2> HIDE DEF v, E
  <2>6. E(c, j) = v(j)  BY <1>4, <2>4, <2>5
  <2>7. c[j] = E(c, j)  BY <1>6, <2>4
  <2> QED  BY <2>4, <2>6, <2>7
<1>8. Chain(q) = v(N)
  <2>1. N \in 0 .. N  BY <1>1
  <2> HIDE DEF v
  <2> QED  BY <2>1, <1>7, ChainIsWalk DEF c
<1>9. m(N) = n + 1  BY <1>1
<1>10. /\ v(N) \in Seq(S) /\ Len(v(N)) = n + 1
       /\ \A i \in 1 .. n + 1 : v(N)[i] = x[i]
       BY <1>1, <1>3, <1>9
<1> HIDE DEF v
<1> QED  BY <1>8, <1>10 DEF x

\* What the list holds can be reached, and the walk ends.
LEMMA ListedChain ==
    ASSUME NEW q, NEW A, Listed(next, prev, q, A)
    PROVE  Last(Chain(q)) = NULL /\ Elements(q) = A
<1>0. PICK n \in Nat : \E t \in [1 .. n -> Pkts] :
          Path(next, prev, q, n, t) /\ A = {t[i] : i \in 1 .. n}
      BY DEF Listed
<1>1. PICK t \in [1 .. n -> Pkts] :
          Path(next, prev, q, n, t) /\ A = {t[i] : i \in 1 .. n}
      BY <1>0
<1> DEFINE c == Chain(q)
<1>2. /\ c \in Seq(Pkts \union {NULL}) /\ Len(c) = n + 1
      /\ \A i \in 1 .. n + 1 : c[i] = IF i <= n THEN t[n + 1 - i] ELSE NULL
      BY <1>1, WalkIs
<1> HIDE DEF c
<1>3. DOMAIN c = 1 .. n + 1  BY <1>2, LenProperties
<1>4. Last(c) = NULL
  <2>1. n + 1 \in 1 .. n + 1 /\ ~(n + 1 <= n)  OBVIOUS
  <2> QED  BY <1>2, <2>1 DEF Last
<1>5. ASSUME NEW p \in A PROVE p \in Range(c) /\ p # NULL
  <2>1. PICK i \in 1 .. n : p = t[i]  BY <1>1
  <2>2. n + 1 - i \in 1 .. n + 1 /\ n + 1 - i <= n /\ n + 1 - (n + 1 - i) = i  OBVIOUS
  <2>3. c[n + 1 - i] = p  BY <1>2, <2>1, <2>2
  <2> QED  BY <1>1, <1>3, <2>1, <2>2, <2>3, NodesAssumption DEF Range
<1>6. ASSUME NEW p \in Range(c), p # NULL PROVE p \in A
  <2>1. PICK i \in 1 .. n + 1 : p = c[i]  BY <1>3 DEF Range
  <2>2. i <= n  BY <1>2, <1>6, <2>1
  <2>3. p = t[n + 1 - i] /\ n + 1 - i \in 1 .. n  BY <1>2, <2>1, <2>2
  <2> QED  BY <1>1, <2>3
<1> QED  BY <1>4, <1>5, <1>6 DEF Elements, c

-----------------------------------------------------------------------------
(* Who has a packet *)

RxHolds == rx.at \in {"relink", "input", "add", "link"}
TxHolds == tx.at \in {"relink", "xmit"}
Tasked == {p \in Pkts : (RxHolds /\ p = rx.pkt) \/ (TxHolds /\ p = tx.pkt)}

\* The queue q holds the packets A, with the pointers nx and pv; t is its task.
\* Once that has looked which packet is the first, what comes in front of it is
\* among the lost; the rest is what the queue holds when the task has unlinked it.
Queue(nx, pv, lost, q, t, A) ==
    /\ Listed(nx, pv, q, A)
    /\ t.at # "unlink" => A \cap lost = {}
    /\ t.at = "unlink" =>
          /\ t.pkt \in A \ lost
          /\ Listed([nx EXCEPT ![q] = nx[t.pkt]], pv, q, A \ (lost \union {t.pkt}))
    /\ t.at = "relink" => pv[t.pkt] = q /\ nx[t.pkt] \in A \union {NULL}

\* The packets in use are those of the two queues, those of the tasks, and those
\* that are lost.
Split(A, B) ==
    /\ A \cap B = {} /\ Tasked \cap (A \union B) = {} /\ Tasked \cap h.lost = {}
    /\ RxHolds /\ TxHolds => rx.pkt # tx.pkt
    /\ \A p \in Pkts : ~Free(p) <=> p \in A \union B \union Tasked \union h.lost

\* A frame that is good has a number.
Numbered == \A i \in 0 .. RxNum - 1 : sts[i].len = "good" => sts[i].n # 0

Queues(A, B) ==
    /\ Queue(next, prev, h.lost, RXQ, rx, A) /\ Queue(next, prev, h.lost, TXQ, tx, B)
    /\ Split(A, B)
    /\ rx.at = "link" => prev[rx.pkt] = TXQ

HeldOK == Numbered /\ (~h.clash => \E A, B \in SUBSET Pkts : Queues(A, B))

LEMMA HeldInit == Init => HeldOK
<1> SUFFICES ASSUME Init PROVE HeldOK  OBVIOUS
<1>1. \A q \in Heads : Listed(next, prev, q, {})
  <2> SUFFICES ASSUME NEW q \in Heads PROVE Listed(next, prev, q, {})  OBVIOUS
  <2> DEFINE t == [i \in 1 .. 0 |-> NULL]
  <2>1. 1 .. 0 = {} /\ t \in [1 .. 0 -> Pkts]  OBVIOUS
  <2>2. next[q] = NULL  BY DEF Init, Nodes
  <2> HIDE DEF t
  <2>3. Path(next, prev, q, 0, t)  BY <2>1, <2>2 DEF Path
  <2>4. {} = {t[i] : i \in 1 .. 0}  BY <2>1
  <2> QED  BY <2>1, <2>3, <2>4 DEF Listed
<1>2. Numbered  BY DEF Init, Numbered
<1>3. rx.at = "wait" /\ tx.at = "sleep" /\ h.lost = {} /\ \A p \in Pkts : Free(p)
      BY DEF Init, Free
<1>4. Tasked = {}  BY <1>3 DEF Tasked, RxHolds, TxHolds
<1>5. Queues({}, {})
      BY <1>1, <1>3, <1>4 DEF Queues, Queue, Split, Heads, RxHolds
<1> QED  BY <1>2, <1>5 DEF HeldOK

LEMMA HeldSuffices == EType /\ HeldOK => HeldOnce
<1> SUFFICES ASSUME EType, HeldOK, ~h.clash PROVE HeldOnce
    BY DEF HeldOnce
<1>1. PICK A \in SUBSET Pkts, B \in SUBSET Pkts : Queues(A, B)
      BY DEF HeldOK
<1>2. /\ Last(Chain(RXQ)) = NULL /\ Elements(RXQ) = A
      /\ Last(Chain(TXQ)) = NULL /\ Elements(TXQ) = B
      BY <1>1, ListedChain DEF Queues, Queue
<1>3. ASSUME NEW p \in Pkts
      PROVE  LET n == Cardinality(Holders(p))
             IN  CASE Free(p)       -> n = 0
                   [] p \in h.lost  -> n = 0 \/ (n = 1 /\ "unlink" \in {rx.at, tx.at})
                   [] OTHER         -> n = 1
  <2> DEFINE H == Holders(p)
  <2>1. H = {q \in Heads : (q = RXQ /\ p \in A) \/ (q = TXQ /\ p \in B)}
            \union {t \in {"rx", "tx"} : (t = "rx" /\ RxHolds /\ p = rx.pkt)
                                         \/ (t = "tx" /\ TxHolds /\ p = tx.pkt)}
        BY <1>2, NodesAssumption DEF Holders, Heads, RxHolds, TxHolds
  <2> HIDE DEF H
  <2>2. p \notin A \union B \union Tasked => H = {}
        BY <2>1 DEF Heads, Tasked
  <2>3. p \in A \union B \union Tasked => \E y : H = {y}
    <3>1. CASE p \in A
      <4>1. p \notin B /\ p \notin Tasked  BY <1>1, <3>1 DEF Queues, Split
      <4>2. H = {RXQ}  BY <2>1, <3>1, <4>1, NodesAssumption DEF Heads, Tasked
      <4> QED  BY <4>2
    <3>2. CASE p \in B
      <4>1. p \notin A /\ p \notin Tasked  BY <1>1, <3>2 DEF Queues, Split
      <4>2. H = {TXQ}  BY <2>1, <3>2, <4>1, NodesAssumption DEF Heads, Tasked
      <4> QED  BY <4>2
    <3>3. CASE p \in Tasked
      <4>1. p \notin A /\ p \notin B /\ ~(RxHolds /\ TxHolds /\ rx.pkt = tx.pkt)
            BY <1>1, <3>3 DEF Queues, Split
      <4>2. CASE RxHolds /\ p = rx.pkt
        <5>1. H = {"rx"}  BY <2>1, <4>1, <4>2
        <5> QED  BY <5>1
      <4>3. CASE TxHolds /\ p = tx.pkt
        <5>1. H = {"tx"}  BY <2>1, <4>1, <4>3
        <5> QED  BY <5>1
      <4> QED  BY <3>3, <4>2, <4>3 DEF Tasked
    <3> QED  BY <3>1, <3>2, <3>3
  <2>4. /\ p \notin A \union B \union Tasked => Cardinality(H) = 0
        /\ p \in A \union B \union Tasked => Cardinality(H) = 1
        BY <2>2, <2>3, FS_EmptySet, FS_Singleton
  <2>5. ~Free(p) <=> p \in A \union B \union Tasked \union h.lost
        BY <1>1 DEF Queues, Split
  <2>6. p \in h.lost /\ p \in A \union B \union Tasked => "unlink" \in {rx.at, tx.at}
        BY <1>1 DEF Queues, Queue, Split
  <2> QED  BY <2>4, <2>5, <2>6 DEF H
<1> QED  BY <1>2, <1>3 DEF HeldOnce, Heads

\* A queue that a step does not touch. Its task goes on with nothing but its look
\* at the queue.
LEMMA QueueKept ==
    ASSUME NEW nx, NEW pv, NEW l, NEW q \in Heads, NEW t, NEW A, Queue(nx, pv, l, q, t, A),
           NEW mx, NEW pw, NEW m, NEW u, DOMAIN nx = Nodes, DOMAIN mx = Nodes,
           mx[q] = nx[q], \A x \in A : mx[x] = nx[x] /\ pw[x] = pv[x],
           A \cap m = A \cap l,
           t.at = "relink" => mx[t.pkt] = nx[t.pkt] /\ pw[t.pkt] = pv[t.pkt],
           u = t \/ (t.at # "unlink" /\ u.at \notin {"unlink", "relink"})
    PROVE  Queue(mx, pw, m, q, u, A)
<1>1. Listed(mx, pw, q, A)  BY ListedKept DEF Queue
<1>2. ASSUME t.at = "unlink", u = t
      PROVE  /\ t.pkt \in A \ m
             /\ Listed([mx EXCEPT ![q] = mx[t.pkt]], pw, q, A \ (m \union {t.pkt}))
  <2>1. t.pkt \in A \ l /\ t.pkt \notin m  BY <1>2 DEF Queue
  <2> DEFINE C == A \ (l \union {t.pkt})
             n1 == [nx EXCEPT ![q] = nx[t.pkt]]
             n2 == [mx EXCEPT ![q] = mx[t.pkt]]
  <2>2. A \ (m \union {t.pkt}) = C  OBVIOUS
  <2>3. Listed(n1, pv, q, C)  BY <1>2 DEF Queue
  <2>4. n2[q] = n1[q]  BY <2>1 DEF Nodes
  <2>5. ASSUME NEW x \in C PROVE n2[x] = n1[x] /\ pw[x] = pv[x]
    <3>1. x \in Pkts /\ x # q  BY <2>3, ListedFacts, NodesAssumption DEF Heads
    <3> QED  BY <3>1 DEF Nodes
  <2> HIDE DEF C, n1, n2
  <2>6. Listed(n2, pw, q, C)  BY <2>3, <2>4, <2>5, ListedKept
  <2> QED  BY <2>1, <2>2, <2>6 DEF n2
<1>3. u.at # "unlink" => A \cap m = {}  BY DEF Queue
<1>4. u.at = "relink" => pw[u.pkt] = q /\ mx[u.pkt] \in A \union {NULL}  BY DEF Queue
<1>5. u.at = "unlink" => u = t /\ t.at = "unlink"  OBVIOUS
<1> QED  BY <1>1, <1>2, <1>3, <1>4, <1>5 DEF Queue

\* A packet is put in front.
LEMMA QueuePush ==
    ASSUME NEW nx, NEW pv, NEW l, NEW q \in Heads, NEW t, NEW A, Queue(nx, pv, l, q, t, A),
           NEW mx, NEW pw, NEW m, NEW u, DOMAIN nx = Nodes, DOMAIN mx = Nodes,
           NEW p \in Pkts \ (A \union l), mx[q] = p, mx[p] = nx[q], pw[p] = q,
           \A x \in A : mx[x] = nx[x] /\ pw[x] = pv[x],
           m = IF t.at = "unlink" THEN l \union {p} ELSE l,
           t.at = "relink" => mx[t.pkt] = nx[t.pkt] /\ pw[t.pkt] = pv[t.pkt],
           u = t \/ (t.at # "unlink" /\ u.at \notin {"unlink", "relink"})
    PROVE  Queue(mx, pw, m, q, u, A \union {p})
<1>1. Listed(mx, pw, q, A \union {p})  BY ListedPush DEF Queue
<1>2. ASSUME t.at = "unlink", u = t
      PROVE  /\ t.pkt \in (A \union {p}) \ m
             /\ Listed([mx EXCEPT ![q] = mx[t.pkt]], pw, q,
                       (A \union {p}) \ (m \union {t.pkt}))
  <2>1. t.pkt \in A \ l /\ t.pkt # p /\ m = l \union {p}  BY <1>2 DEF Queue
  <2> DEFINE C == A \ (l \union {t.pkt})
             n1 == [nx EXCEPT ![q] = nx[t.pkt]]
             n2 == [mx EXCEPT ![q] = mx[t.pkt]]
  <2>2. (A \union {p}) \ (m \union {t.pkt}) = C  BY <2>1
  <2>3. Listed(n1, pv, q, C)  BY <1>2 DEF Queue
  <2>4. n2[q] = n1[q]  BY <2>1 DEF Nodes
  <2>5. ASSUME NEW x \in C PROVE n2[x] = n1[x] /\ pw[x] = pv[x]
    <3>1. x \in Pkts /\ x # q  BY <2>3, ListedFacts, NodesAssumption DEF Heads
    <3> QED  BY <3>1 DEF Nodes
  <2> HIDE DEF C, n1, n2
  <2>6. Listed(n2, pw, q, C)  BY <2>3, <2>4, <2>5, ListedKept
  <2> QED  BY <2>1, <2>2, <2>6 DEF n2
<1>3. u.at # "unlink" => (A \union {p}) \cap m = {}
  <2>1. u.at # "unlink" => t.at # "unlink"  OBVIOUS
  <2> QED  BY <2>1 DEF Queue
<1>4. u.at = "relink" => pw[u.pkt] = q /\ mx[u.pkt] \in A \union {p} \union {NULL}
      BY DEF Queue
<1>5. u.at = "unlink" => u = t /\ t.at = "unlink"  OBVIOUS
<1> QED  BY <1>1, <1>2, <1>3, <1>4, <1>5 DEF Queue

\* The task looks which packet is the first.
LEMMA QueueLook ==
    ASSUME NEW nx, NEW pv, NEW l, NEW q \in Heads, NEW t, NEW A, Queue(nx, pv, l, q, t, A),
           DOMAIN nx = Nodes, t.at # "unlink", nx[q] # NULL,
           NEW u, u.at = "unlink", u.pkt = nx[q]
    PROVE  Queue(nx, pv, l, q, u, A)
<1> DEFINE mx == [nx EXCEPT ![q] = nx[nx[q]]]
<1>1. Listed(nx, pv, q, A) /\ A \cap l = {}  BY DEF Queue
<1>2. mx[q] = nx[nx[q]]  BY DEF Nodes
<1>3. ASSUME NEW x \in A PROVE mx[x] = nx[x]
  <2>1. x \in Pkts /\ x # q  BY <1>1, ListedFacts, NodesAssumption DEF Heads
  <2> QED  BY <2>1
<1> HIDE DEF mx
<1>4. nx[q] \in A /\ Listed(mx, pv, q, A \ {nx[q]})  BY <1>1, <1>2, <1>3, ListedTop
<1>5. A \ (l \union {u.pkt}) = A \ {nx[q]}  BY <1>1
<1> QED  BY <1>1, <1>4, <1>5 DEF Queue, mx

-----------------------------------------------------------------------------
(* The steps *)

\* What the provers need of the types
LEMMA HeldTypes ==
    ASSUME EType
    PROVE  /\ DOMAIN next = Nodes /\ DOMAIN prev = Nodes /\ DOMAIN frame = Pkts
           /\ RXQ \in Heads /\ TXQ \in Heads /\ Pkts \subseteq Nodes /\ Heads \subseteq Nodes
           /\ RXQ \notin Pkts /\ TXQ \notin Pkts /\ NULL \notin Nodes /\ RXQ # TXQ
           /\ h.lost \subseteq Pkts
BY NodesAssumption DEF EType, ListType, Histories, Nodes, Heads

LEMMA NumberedStep ==
    ASSUME EType, Numbered, [Next]_vars PROVE Numbered'
<1>1. CASE UNCHANGED sts  BY <1>1 DEF Numbered
<1>2. CASE \E len \in Lens : Post(len)
  <2>1. PICK len \in Lens : sts' = [sts EXCEPT ![cur] = [len |-> len, n |-> h.posted + 1]]
        BY <1>2 DEF Post
  <2>2. sts \in [0 .. RxNum - 1 -> Statuses] /\ h.posted \in Nat
        BY EthAssumption DEF EType, RingType, Histories
  <2>3. h.posted + 1 # 0  BY <2>2
  <2> QED  BY <2>1, <2>2, <2>3 DEF Numbered
<1>3. UNCHANGED sts \/ \E len \in Lens : Post(len)
  <2>1. CASE Isr
        BY <2>1 DEF Isr, IsrEnter, IsrCur, IsrSkip, IsrFrame, IsrEnq
  <2>2. CASE RxTask
        BY <2>2 DEF RxTask, RxTest, RxUnlink, RxRelink, RxInput, RxAdd, RxLink, RxWait, ring
  <2>3. CASE TxTask
        BY <2>3 DEF TxTask, TxTest, TxUnlink, TxRelink, TxXmit, ring
  <2>4. CASE DevOn \/ DevUp \/ Send \/ UNCHANGED vars
        BY <2>4 DEF DevOn, DevUp, Send, ring, vars
  <2> QED  BY <2>1, <2>2, <2>3, <2>4 DEF Next
<1> QED  BY <1>1, <1>2, <1>3

\* A step that neither changes a list nor takes a packet
LEMMA HeldQuiet ==
    ASSUME EType, HeldOK, Numbered', UNCHANGED <<lists, tx>>,
           h'.lost = h.lost, h'.clash = h.clash,
           \/ rx' = rx
           \/ /\ rx'.pkt = rx.pkt /\ rx'.at # "link"
              /\ rx.at \notin {"unlink", "relink"} /\ rx'.at \notin {"unlink", "relink"}
              /\ rx'.at \in {"input", "add"} <=> rx.at \in {"input", "add", "link"}
    PROVE  HeldOK'
<1> SUFFICES ASSUME ~h.clash PROVE HeldOK'
    BY DEF HeldOK
<1>1. PICK A \in SUBSET Pkts, B \in SUBSET Pkts : Queues(A, B)
      BY DEF HeldOK
<1>2. Queue(next, prev, h.lost, RXQ, rx', A)
  <2>1. Queue(next, prev, h.lost, RXQ, rx, A)  BY <1>1 DEF Queues
  <2> QED  BY <2>1 DEF Queue
<1>3. RxHolds' = RxHolds /\ TxHolds' = TxHolds  BY DEF RxHolds, TxHolds
<1>4. Split(A, B)'
  <2>1. Tasked' = Tasked  BY <1>3 DEF Tasked, RxHolds
  <2>2. Split(A, B)  BY <1>1 DEF Queues
  <2> QED  BY <1>3, <2>1, <2>2 DEF Split, Free, lists, RxHolds
<1>5. Queues(A, B)'  BY <1>1, <1>2, <1>4 DEF Queues, lists
<1> QED  BY <1>5 DEF HeldOK

\* The handler queues a frame.
LEMMA HeldFrame ==
    ASSUME EType, HeldOK, Numbered', IsrFrame, ~h.clash PROVE HeldOK'
<1> DEFINE w == IF h.waiting = <<>> THEN h.waiting ELSE Tail(h.waiting)
<1>1. CASE h' = [h EXCEPT !.waiting = w] /\ UNCHANGED <<lists, rx>>
  <2> HIDE DEF w
  <2>1. h'.lost = h.lost /\ h'.clash = h.clash  BY <1>1 DEF EType, Histories
  <2>2. UNCHANGED tx  BY DEF IsrFrame
  <2> QED  BY <1>1, <2>1, <2>2, HeldQuiet
<1>2. CASE \E p \in Pkts :
              /\ Free(p)
              /\ frame' = [frame EXCEPT ![p] = sts[last].n]
              /\ AddAfter(RXQ, p)
              /\ rx' = IF rx.at = "wait" THEN [rx EXCEPT !.at = "test"] ELSE rx
              /\ h' = [h EXCEPT !.waiting = w,
                                !.lost = IF rx.at = "unlink" THEN @ \union {p} ELSE @]
  <2> PICK p \in Pkts :
              /\ Free(p)
              /\ frame' = [frame EXCEPT ![p] = sts[last].n]
              /\ AddAfter(RXQ, p)
              /\ rx' = IF rx.at = "wait" THEN [rx EXCEPT !.at = "test"] ELSE rx
              /\ h' = [h EXCEPT !.waiting = w,
                                !.lost = IF rx.at = "unlink" THEN @ \union {p} ELSE @]
      BY <1>2
  <2> HIDE DEF w
  <2>1. /\ tx' = tx /\ h'.clash = h.clash
        /\ h'.lost = IF rx.at = "unlink" THEN h.lost \union {p} ELSE h.lost
        BY DEF IsrFrame, EType, Histories
  <2>2. /\ rx'.pkt = rx.pkt /\ (rx' = rx \/ (rx.at = "wait" /\ rx'.at = "test"))
        BY DEF EType, TaskType, RxTasks
  <2>3. PICK A \in SUBSET Pkts, B \in SUBSET Pkts : Queues(A, B)
        BY DEF HeldOK
  <2>4. /\ Queue(next, prev, h.lost, RXQ, rx, A) /\ Queue(next, prev, h.lost, TXQ, tx, B)
        /\ Split(A, B)
        BY <2>3 DEF Queues
  <2>5. p \notin A \union B \union Tasked \union h.lost
        BY <2>4 DEF Split
  <2>6. /\ DOMAIN next = Nodes /\ DOMAIN next' = Nodes
        /\ next'[RXQ] = p /\ next'[p] = next[RXQ] /\ prev'[p] = RXQ
        /\ next'[TXQ] = next[TXQ]
        /\ \A x \in Pkts \ {p} : next'[x] = next[x] /\ prev'[x] = prev[x]
        BY HeldTypes DEF AddAfter
  <2>7. /\ rx.at \in {"relink", "link"} => rx.pkt \in Pkts \ {p}
        /\ tx.at = "relink" => tx.pkt \in Pkts \ {p}
        BY <2>5 DEF Tasked, RxHolds, TxHolds, EType, TaskType
  <2>8. Queue(next', prev', h'.lost, RXQ, rx', A \union {p})
    <3>1. rx.at = "relink" => next'[rx.pkt] = next[rx.pkt] /\ prev'[rx.pkt] = prev[rx.pkt]
          BY <2>6, <2>7
    <3>2. \A x \in A : next'[x] = next[x] /\ prev'[x] = prev[x]  BY <2>5, <2>6
    <3>3. rx' = rx \/ (rx.at # "unlink" /\ rx'.at \notin {"unlink", "relink"})  BY <2>2
    <3>4. p \in Pkts \ (A \union h.lost)  BY <2>5
    <3>5. RXQ \in Heads  BY DEF Heads
    <3>6. h'.lost = IF rx.at = "unlink" THEN h.lost \union {p} ELSE h.lost  BY <2>1
    <3>7. Queue(next, prev, h.lost, RXQ, rx, A)  BY <2>4
    <3>8. /\ DOMAIN next = Nodes /\ DOMAIN next' = Nodes
          /\ next'[RXQ] = p /\ next'[p] = next[RXQ] /\ prev'[p] = RXQ
          BY <2>6
    <3> QED  BY ONLY <3>1, <3>2, <3>3, <3>4, <3>5, <3>6, <3>7, <3>8, QueuePush
  <2>9. Queue(next', prev', h'.lost, TXQ, tx', B)
    <3>1. tx.at = "relink" => next'[tx.pkt] = next[tx.pkt] /\ prev'[tx.pkt] = prev[tx.pkt]
          BY <2>6, <2>7
    <3>2. \A x \in B : next'[x] = next[x] /\ prev'[x] = prev[x]  BY <2>5, <2>6
    <3>3. B \cap h'.lost = B \cap h.lost  BY <2>1, <2>5
    <3>4. TXQ \in Heads  BY DEF Heads
    <3> QED  BY <2>1, <2>4, <2>6, <3>1, <3>2, <3>3, <3>4, QueueKept
  <2>10. /\ RxHolds' = RxHolds /\ TxHolds' = TxHolds /\ Tasked' = Tasked
    <3>1. RxHolds' = RxHolds /\ TxHolds' = TxHolds  BY <2>1, <2>2 DEF RxHolds, TxHolds
    <3> QED  BY <2>1, <2>2, <3>1 DEF Tasked
  <2>11. \A x \in Pkts : ~Free(x)' <=> ~Free(x) \/ x = p
    <3>1. sts[last].n # 0  BY DEF IsrFrame, HeldOK, Numbered, EType, RingType
    <3> QED  BY <3>1, HeldTypes DEF Free
  <2>12. Split(A \union {p}, B)'
    <3>1. (A \union {p}) \cap B = {} /\ Tasked \cap ((A \union {p}) \union B) = {}
          BY <2>4, <2>5 DEF Split
    <3>2. Tasked \cap h'.lost = {}  BY <2>1, <2>4, <2>5 DEF Split
    <3>3. \A x \in Pkts :
             ~Free(x)' <=> x \in (A \union {p}) \union B \union Tasked \union h'.lost
      <4>1. \A x \in Pkts : ~Free(x) <=> x \in A \union B \union Tasked \union h.lost
            BY <2>4 DEF Split
      <4> QED  BY <2>1, <2>11, <4>1
    <3>4. RxHolds /\ TxHolds => rx'.pkt # tx'.pkt  BY <2>1, <2>2, <2>4 DEF Split
    <3> QED  BY <2>10, <3>1, <3>2, <3>3, <3>4 DEF Split
  <2>13. rx'.at = "link" => prev'[rx'.pkt] = TXQ
        BY <2>2, <2>3, <2>6, <2>7 DEF Queues
  <2>14. Queues(A \union {p}, B)'  BY <2>8, <2>9, <2>12, <2>13 DEF Queues
  <2> QED  BY <2>14 DEF HeldOK
<1> QED  BY <1>1, <1>2 DEF IsrFrame

\* The receive task looks at its queue, takes a packet off it, and closes the gap;
\* the next of the packet already leads back to the head, and prev stays as it is.
LEMMA HeldRxTake ==
    ASSUME EType, HeldOK, Numbered', ~h.clash, RxTest \/ RxUnlink \/ RxRelink
    PROVE  HeldOK'
<1> USE DEF RxAt, RxTo
<1>1. PICK A \in SUBSET Pkts, B \in SUBSET Pkts : Queues(A, B)
      BY DEF HeldOK
<1>2. /\ Queue(next, prev, h.lost, RXQ, rx, A) /\ Queue(next, prev, h.lost, TXQ, tx, B)
      /\ Split(A, B)
      BY <1>1 DEF Queues
<1>3. CASE RxTest /\ ListEmpty(RXQ)
  <2>1. /\ rx.at = "test" /\ rx'.at = "leave" /\ rx'.pkt = rx.pkt
        /\ UNCHANGED <<lists, tx, h>>
        BY <1>3 DEF RxTest, EType, TaskType, RxTasks
  <2> QED  BY <2>1, HeldQuiet
<1>4. CASE RxTest /\ ~ListEmpty(RXQ)
  <2>1. /\ rx.at = "test" /\ rx'.at = "unlink" /\ rx'.pkt = next[RXQ] /\ next[RXQ] # NULL
        /\ UNCHANGED <<next, prev, frame, tx, h>>
        BY <1>4 DEF RxTest, ListEmpty, lists
  <2>2. Queue(next, prev, h.lost, RXQ, rx', A)
        BY <1>2, <2>1, HeldTypes, QueueLook
  <2>3. RxHolds' = RxHolds /\ TxHolds' = TxHolds /\ ~RxHolds /\ Tasked' = Tasked
    <3>1. RxHolds' = RxHolds /\ TxHolds' = TxHolds /\ ~RxHolds
          BY <2>1 DEF RxHolds, TxHolds
    <3> QED  BY <2>1, <3>1 DEF Tasked
  <2>4. Split(A, B)'  BY <1>2, <2>1, <2>3 DEF Split, Free
  <2>5. Queues(A, B)'  BY <1>2, <2>1, <2>2, <2>4 DEF Queues
  <2> QED  BY <2>5 DEF HeldOK
<1>5. CASE RxUnlink
  <2>0. PICK C \in SUBSET Pkts : C = A \ (h.lost \union {rx.pkt})  OBVIOUS
  <2>1. /\ rx.at = "unlink" /\ rx'.at = "relink" /\ rx'.pkt = rx.pkt /\ rx.pkt \in Pkts
        /\ next' = Unlink(rx.pkt) /\ UNCHANGED <<prev, frame, tx, h>>
        BY <1>5 DEF RxUnlink, EType, TaskType, RxTasks
  <2>2. rx.pkt \in A \ h.lost /\ prev[rx.pkt] = RXQ
    <3>1. Listed(next, prev, RXQ, A) /\ rx.pkt \in A \ h.lost  BY <1>2, <2>1 DEF Queue
    <3> QED  BY <3>1, ListedFacts
  <2>3. next' = [next EXCEPT ![RXQ] = next[rx.pkt]]
        BY <2>1, <2>2, HeldTypes DEF Unlink, Nodes
  <2>4. /\ DOMAIN next' = Nodes /\ next'[TXQ] = next[TXQ]
        /\ \A x \in Pkts : next'[x] = next[x]
        BY <2>3, HeldTypes
  <2>5. Queue(next', prev', h'.lost, TXQ, tx', B)
    <3>1. tx.at = "relink" => next'[tx.pkt] = next[tx.pkt]
          BY <2>4 DEF EType, TaskType
    <3> QED  BY <1>2, <2>1, <2>4, <3>1, HeldTypes, QueueKept
  <2>6. TxHolds' = TxHolds /\ RxHolds' /\ ~RxHolds /\ Tasked' = Tasked \union {rx.pkt}
    <3>1. TxHolds' = TxHolds /\ RxHolds' /\ ~RxHolds  BY <2>1 DEF RxHolds, TxHolds
    <3> QED  BY <2>1, <3>1 DEF Tasked
  <2>7. Split(C, B)'
    <3>1. rx.pkt \notin B /\ rx.pkt \notin Tasked  BY <1>2, <2>2 DEF Split
    <3>2. C \cap B = {} /\ Tasked' \cap (C \union B) = {} /\ Tasked' \cap h.lost = {}
          BY <1>2, <2>0, <2>2, <2>6, <3>1 DEF Split
    <3>3. TxHolds => rx.pkt # tx.pkt
          BY <2>1, <3>1 DEF Tasked
    <3>4. \A x \in Pkts : ~Free(x) <=> x \in C \union B \union Tasked' \union h.lost
      <4>1. \A x \in Pkts : ~Free(x) <=> x \in A \union B \union Tasked \union h.lost
            BY <1>2 DEF Split
      <4> QED  BY <2>0, <2>2, <2>6, <4>1
    <3> QED  BY <2>1, <2>6, <3>2, <3>3, <3>4 DEF Split, Free
  <2>8. Queue(next', prev', h'.lost, RXQ, rx', C)
    <3>1. Listed(next', prev, RXQ, C)  BY <1>2, <2>0, <2>1, <2>3 DEF Queue
    <3>2. next'[RXQ] = next[rx.pkt] /\ next'[rx.pkt] = next[rx.pkt]
          BY <2>1, <2>3, HeldTypes
    <3>3. next'[rx.pkt] \in C \union {NULL}  BY <3>1, <3>2, ListedFacts
    <3>4. C \cap h.lost = {}  BY <2>0
    <3> QED  BY <2>1, <2>2, <3>1, <3>3, <3>4 DEF Queue
  <2>9. Queues(C, B)'  BY <2>1, <2>5, <2>7, <2>8 DEF Queues
  <2> QED  BY <2>9 DEF HeldOK
<1>6. CASE RxRelink
  <2>1. /\ rx.at = "relink" /\ rx'.at = "input" /\ rx'.pkt = rx.pkt
        /\ prev' = Relink(rx.pkt) /\ UNCHANGED <<next, frame, tx, h>>
        BY <1>6 DEF RxRelink, EType, TaskType, RxTasks
  <2>2. prev[rx.pkt] = RXQ /\ next[rx.pkt] \in A \union {NULL}  BY <1>2, <2>1 DEF Queue
  <2>3. prev' = prev
    <3>1. CASE next[rx.pkt] = NULL  BY <2>1, <3>1 DEF Relink
    <3>2. CASE next[rx.pkt] # NULL
      <4>1. prev[next[rx.pkt]] = RXQ  BY <1>2, <2>2, <3>2, ListedFacts DEF Queue
      <4> QED  BY <2>1, <2>2, <3>2, <4>1 DEF Relink, EType, ListType
    <3> QED  BY <3>1, <3>2
  <2>4. Queue(next, prev, h.lost, RXQ, rx', A)  BY <1>2, <2>1 DEF Queue
  <2>5. RxHolds' = RxHolds /\ TxHolds' = TxHolds /\ Tasked' = Tasked
    <3>1. RxHolds' = RxHolds /\ TxHolds' = TxHolds  BY <2>1 DEF RxHolds, TxHolds
    <3> QED  BY <2>1, <3>1 DEF Tasked
  <2>6. Split(A, B)'  BY <1>2, <2>1, <2>5 DEF Split, Free
  <2>7. Queues(A, B)'  BY <1>2, <2>1, <2>3, <2>4, <2>6 DEF Queues
  <2> QED  BY <2>7 DEF HeldOK
<1> QED  BY <1>3, <1>4, <1>5, <1>6

\* It is done with the packet, which is free again.
LEMMA HeldRxFree ==
    ASSUME EType, HeldOK, Numbered', ~h.clash, RxInput PROVE HeldOK'
<1> USE DEF RxAt, RxTo
<1>1. CASE rx' = [rx EXCEPT !.at = "add"] /\ UNCHANGED lists
  <2>1. /\ rx.at = "input" /\ rx'.at = "add" /\ rx'.pkt = rx.pkt /\ UNCHANGED <<lists, tx, h>>
        BY <1>1 DEF RxInput, EType, TaskType, RxTasks
  <2> QED  BY <2>1, HeldQuiet
<1>2. CASE RxDone /\ PktFree(rx.pkt)
  <2>1. /\ rx.at = "input" /\ rx'.at = "test" /\ rx.pkt \in Pkts /\ UNCHANGED <<tx, h>>
        BY <1>2 DEF RxInput, RxDone, EType, TaskType
  <2>2. PICK A \in SUBSET Pkts, B \in SUBSET Pkts : Queues(A, B)
        BY DEF HeldOK
  <2>3. /\ Queue(next, prev, h.lost, RXQ, rx, A) /\ Queue(next, prev, h.lost, TXQ, tx, B)
        /\ Split(A, B)
        BY <2>2 DEF Queues
  <2>4. /\ DOMAIN next' = Nodes /\ next'[TXQ] = next[TXQ] /\ next'[RXQ] = next[RXQ]
        /\ \A x \in Pkts \ {rx.pkt} : next'[x] = next[x] /\ prev'[x] = prev[x]
        /\ \A x \in Pkts : Free(x)' <=> Free(x) \/ x = rx.pkt
        BY <1>2, <2>1, HeldTypes DEF PktFree, Free
  <2>5. RxHolds /\ ~RxHolds' /\ TxHolds' = TxHolds  BY <2>1 DEF RxHolds, TxHolds
  <2>6. rx.pkt \in Tasked /\ (TxHolds => tx.pkt # rx.pkt) /\ Tasked' = Tasked \ {rx.pkt}
    <3>1. rx.pkt \in Tasked /\ (TxHolds => tx.pkt # rx.pkt)
          BY <2>1, <2>3, <2>5 DEF Tasked, Split
    <3> QED  BY <2>1, <2>5, <3>1 DEF Tasked
  <2>7. rx.pkt \notin A \union B \union h.lost  BY <2>3, <2>6 DEF Split
  <2>8. Queue(next', prev', h'.lost, RXQ, rx', A)
    <3>1. \A x \in A : next'[x] = next[x] /\ prev'[x] = prev[x]  BY <2>4, <2>7
    <3> QED  BY <2>1, <2>3, <2>4, <3>1, HeldTypes, QueueKept
  <2>9. Queue(next', prev', h'.lost, TXQ, tx', B)
    <3>1. \A x \in B : next'[x] = next[x] /\ prev'[x] = prev[x]  BY <2>4, <2>7
    <3>2. tx.at = "relink" => next'[tx.pkt] = next[tx.pkt] /\ prev'[tx.pkt] = prev[tx.pkt]
          BY <2>4, <2>6 DEF TxHolds, EType, TaskType
    <3> QED  BY <2>1, <2>3, <2>4, <3>1, <3>2, HeldTypes, QueueKept
  <2>10. Split(A, B)'
    <3>1. /\ A \cap B = {} /\ Tasked' \cap (A \union B) = {} /\ Tasked' \cap h.lost = {}
          BY <2>3, <2>6 DEF Split
    <3>2. \A x \in Pkts : ~Free(x) <=> x \in A \union B \union Tasked \union h.lost
          BY <2>3 DEF Split
    <3>3. \A x \in Pkts : ~Free(x)' <=> x \in A \union B \union Tasked' \union h.lost
          BY <2>4, <2>6, <2>7, <3>2
    <3> QED  BY <2>1, <2>5, <3>1, <3>3 DEF Split
  <2>11. Queues(A, B)'  BY <2>1, <2>8, <2>9, <2>10 DEF Queues
  <2> QED  BY <2>11 DEF HeldOK
<1> QED  BY <1>1, <1>2 DEF RxInput

\* en_eth_output writes the packet's own pointers, then the head's: unless the
\* queue has changed in between, the packet is in front.
LEMMA HeldRxAdd ==
    ASSUME EType, HeldOK, Numbered', ~h.clash, RxAdd PROVE HeldOK'
<1>1. /\ rx.at = "add" /\ rx'.at = "link" /\ rx'.pkt = rx.pkt /\ rx.pkt \in Pkts
      /\ next' = [next EXCEPT ![rx.pkt] = next[TXQ]]
      /\ prev' = [prev EXCEPT ![rx.pkt] = TXQ]
      /\ UNCHANGED <<frame, tx, h>>
      BY DEF RxAdd, RxAt, RxTo, EType, TaskType, RxTasks
<1>2. PICK A \in SUBSET Pkts, B \in SUBSET Pkts : Queues(A, B)
      BY DEF HeldOK
<1>3. /\ Queue(next, prev, h.lost, RXQ, rx, A) /\ Queue(next, prev, h.lost, TXQ, tx, B)
      /\ Split(A, B)
      BY <1>2 DEF Queues
<1>4. /\ DOMAIN next' = Nodes /\ next'[TXQ] = next[TXQ] /\ next'[RXQ] = next[RXQ]
      /\ \A x \in Pkts \ {rx.pkt} : next'[x] = next[x] /\ prev'[x] = prev[x]
      /\ prev'[rx.pkt] = TXQ
      BY <1>1, HeldTypes
<1>5. RxHolds' = RxHolds /\ RxHolds /\ TxHolds' = TxHolds /\ Tasked' = Tasked
  <2>1. RxHolds' = RxHolds /\ RxHolds /\ TxHolds' = TxHolds  BY <1>1 DEF RxHolds, TxHolds
  <2> QED  BY <1>1, <2>1 DEF Tasked
<1>6. rx.pkt \notin A \union B /\ (TxHolds => tx.pkt # rx.pkt)
      BY <1>1, <1>3, <1>5 DEF Tasked, Split
<1>7. Queue(next', prev', h'.lost, RXQ, rx', A)
  <2>1. \A x \in A : next'[x] = next[x] /\ prev'[x] = prev[x]  BY <1>4, <1>6
  <2>2. /\ DOMAIN next = Nodes /\ DOMAIN next' = Nodes /\ RXQ \in Heads
        /\ next'[RXQ] = next[RXQ] /\ A \cap h'.lost = A \cap h.lost
        BY <1>1, <1>4, HeldTypes
  <2>3. /\ rx.at # "relink" /\ rx.at # "unlink" /\ rx'.at \notin {"unlink", "relink"}
        /\ Queue(next, prev, h.lost, RXQ, rx, A)
        BY <1>1, <1>3
  <2> QED  BY ONLY <2>1, <2>2, <2>3, QueueKept
<1>8. Queue(next', prev', h'.lost, TXQ, tx', B)
  <2>1. \A x \in B : next'[x] = next[x] /\ prev'[x] = prev[x]  BY <1>4, <1>6
  <2>2. tx.at = "relink" => next'[tx.pkt] = next[tx.pkt] /\ prev'[tx.pkt] = prev[tx.pkt]
        BY <1>4, <1>6 DEF TxHolds, EType, TaskType
  <2>3. /\ DOMAIN next = Nodes /\ DOMAIN next' = Nodes /\ TXQ \in Heads
        /\ next'[TXQ] = next[TXQ] /\ B \cap h'.lost = B \cap h.lost /\ tx' = tx
        BY <1>1, <1>4, HeldTypes
  <2>4. Queue(next, prev, h.lost, TXQ, tx, B)  BY <1>3
  <2> QED  BY ONLY <2>1, <2>2, <2>3, <2>4, QueueKept
<1>9. Split(A, B)'  BY <1>1, <1>3, <1>5 DEF Split, Free
<1>10. Queues(A, B)'  BY <1>1, <1>4, <1>7, <1>8, <1>9 DEF Queues
<1> QED  BY <1>10 DEF HeldOK

LEMMA HeldRxLink ==
    ASSUME EType, HeldOK, Numbered', ~h.clash, RxLink PROVE HeldOK'
<1>1. /\ rx.at = "link" /\ rx'.at = "test" /\ rx.pkt \in Pkts
      /\ next' = [next EXCEPT ![TXQ] = rx.pkt]
      /\ UNCHANGED <<prev, frame, tx>>
      BY DEF RxLink, RxAt, RxDone, EType, TaskType, RxTasks
<1>2. /\ h'.clash = (h.clash \/ next[TXQ] # next[rx.pkt])
      /\ h'.lost = IF tx.at = "unlink" THEN h.lost \union {rx.pkt} ELSE h.lost
  <2> DEFINE c == h.clash \/ next[TXQ] # next[rx.pkt]
             l == IF tx.at = "unlink" THEN h.lost \union {rx.pkt} ELSE h.lost
  <2>1. h' = [h EXCEPT !.clash = c, !.lost = l]  BY DEF RxLink
  <2> HIDE DEF c, l
  <2>2. h'.clash = c /\ h'.lost = l  BY <2>1 DEF EType, Histories
  <2> QED  BY <2>2 DEF c, l
<1> SUFFICES ASSUME ~h'.clash PROVE HeldOK'
    BY DEF HeldOK
<1>3. PICK A \in SUBSET Pkts, B \in SUBSET Pkts : Queues(A, B)
      BY DEF HeldOK
<1>4. /\ Queue(next, prev, h.lost, RXQ, rx, A) /\ Queue(next, prev, h.lost, TXQ, tx, B)
      /\ Split(A, B) /\ prev[rx.pkt] = TXQ
      BY <1>1, <1>3 DEF Queues
<1>5. PICK p \in Pkts : p = rx.pkt  BY <1>1
<1>6. /\ DOMAIN next' = Nodes /\ next'[RXQ] = next[RXQ] /\ next'[TXQ] = p
      /\ \A x \in Pkts : next'[x] = next[x] /\ prev'[x] = prev[x]
      /\ next'[p] = next[TXQ] /\ prev'[p] = TXQ
      BY <1>1, <1>2, <1>4, <1>5, HeldTypes
<1>7. RxHolds /\ ~RxHolds' /\ TxHolds' = TxHolds  BY <1>1 DEF RxHolds, TxHolds
<1>8. p \in Tasked /\ (TxHolds => tx.pkt # p) /\ Tasked' = Tasked \ {p}
  <2>1. p \in Tasked /\ (TxHolds => tx.pkt # p)
        BY <1>1, <1>4, <1>5, <1>7 DEF Tasked, Split
  <2> QED  BY <1>1, <1>5, <1>7, <2>1 DEF Tasked
<1>9. p \notin A \union B \union h.lost  BY <1>4, <1>8 DEF Split
<1>10. Queue(next', prev', h'.lost, RXQ, rx', A)
  <2>1. A \cap h'.lost = A \cap h.lost  BY <1>2, <1>5, <1>9
  <2>2. \A x \in A : next'[x] = next[x] /\ prev'[x] = prev[x]  BY <1>6
  <2>3. /\ DOMAIN next = Nodes /\ DOMAIN next' = Nodes /\ RXQ \in Heads
        /\ next'[RXQ] = next[RXQ]
        BY <1>6, HeldTypes
  <2>4. /\ rx.at # "relink" /\ rx.at # "unlink" /\ rx'.at \notin {"unlink", "relink"}
        /\ Queue(next, prev, h.lost, RXQ, rx, A)
        BY <1>1, <1>4
  <2> QED  BY ONLY <2>1, <2>2, <2>3, <2>4, QueueKept
<1>11. Queue(next', prev', h'.lost, TXQ, tx', B \union {p})
  <2>1. tx.at = "relink" => next'[tx.pkt] = next[tx.pkt] /\ prev'[tx.pkt] = prev[tx.pkt]
        BY <1>6 DEF EType, TaskType
  <2>2. \A x \in B : next'[x] = next[x] /\ prev'[x] = prev[x]  BY <1>6
  <2>3. p \in Pkts \ (B \union h.lost)  BY <1>9
  <2>4. Queue(next, prev, h.lost, TXQ, tx, B) /\ TXQ \in Heads /\ tx' = tx
        BY <1>1, <1>4, HeldTypes
  <2>5. h'.lost = IF tx.at = "unlink" THEN h.lost \union {p} ELSE h.lost  BY <1>2, <1>5
  <2>6. /\ DOMAIN next = Nodes /\ DOMAIN next' = Nodes
        /\ next'[TXQ] = p /\ next'[p] = next[TXQ] /\ prev'[p] = TXQ
        BY <1>6, HeldTypes
  <2> QED  BY ONLY <2>1, <2>2, <2>3, <2>4, <2>5, <2>6, QueuePush
<1>12. Split(A, B \union {p})'
  <2>1. /\ A \cap (B \union {p}) = {} /\ Tasked' \cap (A \union (B \union {p})) = {}
        BY <1>4, <1>8, <1>9 DEF Split
  <2>2. Tasked' \cap h'.lost = {}  BY <1>2, <1>4, <1>5, <1>8 DEF Split
  <2>3. \A x \in Pkts : ~Free(x) <=> x \in A \union B \union Tasked \union h.lost
        BY <1>4 DEF Split
  <2>4. \A x \in Pkts :
            ~Free(x) <=> x \in A \union (B \union {p}) \union Tasked' \union h'.lost
        BY <1>2, <1>5, <1>8, <2>3
  <2> QED  BY <1>1, <1>7, <2>1, <2>2, <2>4 DEF Split, Free
<1>13. Queues(A, B \union {p})'  BY <1>1, <1>10, <1>11, <1>12 DEF Queues
<1> QED  BY <1>13 DEF HeldOK

\* The transmit task likewise, while the receive task may be in the middle of an
\* insertion.
LEMMA HeldTxTake ==
    ASSUME EType, HeldOK, Numbered', ~h.clash, TxTest \/ TxUnlink \/ TxRelink
    PROVE  HeldOK'
<1> USE DEF TxAt, TxTo
<1>1. PICK A \in SUBSET Pkts, B \in SUBSET Pkts : Queues(A, B)
      BY DEF HeldOK
<1>2. /\ Queue(next, prev, h.lost, RXQ, rx, A) /\ Queue(next, prev, h.lost, TXQ, tx, B)
      /\ Split(A, B) /\ (rx.at = "link" => prev[rx.pkt] = TXQ)
      BY <1>1 DEF Queues
<1>3. CASE TxTest
  <2>1. /\ tx.at = "sleep" /\ tx'.at = "unlink" /\ tx'.pkt = next[TXQ] /\ next[TXQ] # NULL
        /\ UNCHANGED <<next, prev, frame, rx, h>>
        BY <1>3 DEF TxTest, ListEmpty, lists
  <2>2. Queue(next, prev, h.lost, TXQ, tx', B)
        BY <1>2, <2>1, HeldTypes, QueueLook
  <2>3. RxHolds' = RxHolds /\ TxHolds' = TxHolds /\ ~TxHolds /\ Tasked' = Tasked
    <3>1. RxHolds' = RxHolds /\ TxHolds' = TxHolds /\ ~TxHolds
          BY <2>1 DEF RxHolds, TxHolds
    <3> QED  BY <2>1, <3>1 DEF Tasked
  <2>4. Split(A, B)'  BY <1>2, <2>1, <2>3 DEF Split, Free
  <2>5. Queues(A, B)'  BY <1>2, <2>1, <2>2, <2>4 DEF Queues
  <2> QED  BY <2>5 DEF HeldOK
<1>4. CASE TxUnlink
  <2>0. PICK C \in SUBSET Pkts : C = B \ (h.lost \union {tx.pkt})  OBVIOUS
  <2>1. /\ tx.at = "unlink" /\ tx'.at = "relink" /\ tx'.pkt = tx.pkt /\ tx.pkt \in Pkts
        /\ next' = Unlink(tx.pkt) /\ UNCHANGED <<prev, frame, rx, h>>
        BY <1>4 DEF TxUnlink, EType, TaskType, TxTasks
  <2>2. tx.pkt \in B \ h.lost /\ prev[tx.pkt] = TXQ
    <3>1. Listed(next, prev, TXQ, B) /\ tx.pkt \in B \ h.lost  BY <1>2, <2>1 DEF Queue
    <3> QED  BY <3>1, ListedFacts
  <2>3. next' = [next EXCEPT ![TXQ] = next[tx.pkt]]
        BY <2>1, <2>2, HeldTypes DEF Unlink, Nodes
  <2>4. /\ DOMAIN next' = Nodes /\ next'[RXQ] = next[RXQ]
        /\ \A x \in Pkts : next'[x] = next[x]
        BY <2>3, HeldTypes
  <2>5. Queue(next', prev', h'.lost, RXQ, rx', A)
    <3>1. rx.at = "relink" => next'[rx.pkt] = next[rx.pkt]
          BY <2>4 DEF EType, TaskType
    <3> QED  BY <1>2, <2>1, <2>4, <3>1, HeldTypes, QueueKept
  <2>6. RxHolds' = RxHolds /\ TxHolds' /\ ~TxHolds /\ Tasked' = Tasked \union {tx.pkt}
    <3>1. RxHolds' = RxHolds /\ TxHolds' /\ ~TxHolds  BY <2>1 DEF RxHolds, TxHolds
    <3> QED  BY <2>1, <3>1 DEF Tasked
  <2>7. Split(A, C)'
    <3>1. tx.pkt \notin A /\ tx.pkt \notin Tasked  BY <1>2, <2>2 DEF Split
    <3>2. A \cap C = {} /\ Tasked' \cap (A \union C) = {} /\ Tasked' \cap h.lost = {}
          BY <1>2, <2>0, <2>2, <2>6, <3>1 DEF Split
    <3>3. RxHolds => rx.pkt # tx.pkt
          BY <2>1, <3>1 DEF Tasked
    <3>4. \A x \in Pkts : ~Free(x) <=> x \in A \union C \union Tasked' \union h.lost
      <4>1. \A x \in Pkts : ~Free(x) <=> x \in A \union B \union Tasked \union h.lost
            BY <1>2 DEF Split
      <4> QED  BY <2>0, <2>2, <2>6, <4>1
    <3> QED  BY <2>1, <2>6, <3>2, <3>3, <3>4 DEF Split, Free
  <2>8. Queue(next', prev', h'.lost, TXQ, tx', C)
    <3>1. Listed(next', prev, TXQ, C)  BY <1>2, <2>0, <2>1, <2>3 DEF Queue
    <3>2. next'[TXQ] = next[tx.pkt] /\ next'[tx.pkt] = next[tx.pkt]
          BY <2>1, <2>3, HeldTypes
    <3>3. next'[tx.pkt] \in C \union {NULL}  BY <3>1, <3>2, ListedFacts
    <3>4. C \cap h.lost = {}  BY <2>0
    <3> QED  BY <2>1, <2>2, <3>1, <3>3, <3>4 DEF Queue
  <2>9. Queues(A, C)'  BY <1>2, <2>1, <2>5, <2>7, <2>8 DEF Queues
  <2> QED  BY <2>9 DEF HeldOK
<1>5. CASE TxRelink
  <2>1. /\ tx.at = "relink" /\ tx'.at = "xmit" /\ tx'.pkt = tx.pkt
        /\ prev' = Relink(tx.pkt) /\ UNCHANGED <<next, frame, rx, h>>
        BY <1>5 DEF TxRelink, EType, TaskType, TxTasks
  <2>2. prev[tx.pkt] = TXQ /\ next[tx.pkt] \in B \union {NULL}  BY <1>2, <2>1 DEF Queue
  <2>3. prev' = prev
    <3>1. CASE next[tx.pkt] = NULL  BY <2>1, <3>1 DEF Relink
    <3>2. CASE next[tx.pkt] # NULL
      <4>1. prev[next[tx.pkt]] = TXQ  BY <1>2, <2>2, <3>2, ListedFacts DEF Queue
      <4> QED  BY <2>1, <2>2, <3>2, <4>1 DEF Relink, EType, ListType
    <3> QED  BY <3>1, <3>2
  <2>4. Queue(next, prev, h.lost, TXQ, tx', B)  BY <1>2, <2>1 DEF Queue
  <2>5. RxHolds' = RxHolds /\ TxHolds' = TxHolds /\ Tasked' = Tasked
    <3>1. RxHolds' = RxHolds /\ TxHolds' = TxHolds  BY <2>1 DEF RxHolds, TxHolds
    <3> QED  BY <2>1, <3>1 DEF Tasked
  <2>6. Split(A, B)'  BY <1>2, <2>1, <2>5 DEF Split, Free
  <2>7. Queues(A, B)'  BY <1>2, <2>1, <2>3, <2>4, <2>6 DEF Queues
  <2> QED  BY <2>7 DEF HeldOK
<1> QED  BY <1>3, <1>4, <1>5

\* ep9301_xmit frees the packet.
LEMMA HeldTxFree ==
    ASSUME EType, HeldOK, Numbered', ~h.clash, TxXmit PROVE HeldOK'
<1>1. /\ tx.at = "xmit" /\ tx'.at = "sleep" /\ tx.pkt \in Pkts /\ UNCHANGED rx
      /\ PktFree(tx.pkt)
      BY DEF TxXmit, TxAt, TxDone, EType, TaskType
<1>2. h'.lost = h.lost /\ h'.clash = h.clash
  <2>1. \/ h' = [h EXCEPT !.over = TRUE, !.tosend = <<>>]
        \/ h' = [h EXCEPT !.tosend = Append(@, frame[tx.pkt])]
        BY DEF TxXmit
  <2> QED  BY <2>1 DEF EType, Histories
<1>3. PICK A \in SUBSET Pkts, B \in SUBSET Pkts : Queues(A, B)
      BY DEF HeldOK
<1>4. /\ Queue(next, prev, h.lost, RXQ, rx, A) /\ Queue(next, prev, h.lost, TXQ, tx, B)
      /\ Split(A, B) /\ (rx.at = "link" => prev[rx.pkt] = TXQ)
      BY <1>3 DEF Queues
<1>5. /\ DOMAIN next' = Nodes /\ next'[TXQ] = next[TXQ] /\ next'[RXQ] = next[RXQ]
      /\ \A x \in Pkts \ {tx.pkt} : next'[x] = next[x] /\ prev'[x] = prev[x]
      /\ \A x \in Pkts : Free(x)' <=> Free(x) \/ x = tx.pkt
      BY <1>1, HeldTypes DEF PktFree, Free
<1>6. TxHolds /\ ~TxHolds' /\ RxHolds' = RxHolds  BY <1>1 DEF RxHolds, TxHolds
<1>7. tx.pkt \in Tasked /\ (RxHolds => rx.pkt # tx.pkt) /\ Tasked' = Tasked \ {tx.pkt}
  <2>1. tx.pkt \in Tasked /\ (RxHolds => rx.pkt # tx.pkt)
        BY <1>1, <1>4, <1>6 DEF Tasked, Split
  <2> QED  BY <1>1, <1>6, <2>1 DEF Tasked
<1>8. tx.pkt \notin A \union B \union h.lost  BY <1>4, <1>7 DEF Split
<1>9. RxHolds => next'[rx.pkt] = next[rx.pkt] /\ prev'[rx.pkt] = prev[rx.pkt]
      BY <1>5, <1>7 DEF RxHolds, EType, TaskType
<1>10. Queue(next', prev', h'.lost, RXQ, rx', A)
  <2>1. \A x \in A : next'[x] = next[x] /\ prev'[x] = prev[x]  BY <1>5, <1>8
  <2>2. rx.at = "relink" => next'[rx.pkt] = next[rx.pkt] /\ prev'[rx.pkt] = prev[rx.pkt]
        BY <1>9 DEF RxHolds
  <2> QED  BY <1>1, <1>2, <1>4, <1>5, <2>1, <2>2, HeldTypes, QueueKept
<1>11. Queue(next', prev', h'.lost, TXQ, tx', B)
  <2>1. \A x \in B : next'[x] = next[x] /\ prev'[x] = prev[x]  BY <1>5, <1>8
  <2> QED  BY <1>1, <1>2, <1>4, <1>5, <2>1, HeldTypes, QueueKept
<1>12. Split(A, B)'
  <2>1. /\ A \cap B = {} /\ Tasked' \cap (A \union B) = {} /\ Tasked' \cap h.lost = {}
        BY <1>4, <1>7 DEF Split
  <2>2. \A x \in Pkts : ~Free(x) <=> x \in A \union B \union Tasked \union h.lost
        BY <1>4 DEF Split
  <2>3. \A x \in Pkts : ~Free(x)' <=> x \in A \union B \union Tasked' \union h.lost
        BY <1>5, <1>7, <1>8, <2>2
  <2> QED  BY <1>2, <1>6, <2>1, <2>3 DEF Split
<1>13. rx'.at = "link" => prev'[rx'.pkt] = TXQ  BY <1>1, <1>4, <1>9 DEF RxHolds
<1>14. Queues(A, B)'  BY <1>10, <1>11, <1>12, <1>13 DEF Queues
<1> QED  BY <1>14 DEF HeldOK

LEMMA HeldStep == EType /\ HeldOK /\ [Next]_vars => HeldOK'
<1> SUFFICES ASSUME EType, HeldOK, [Next]_vars PROVE HeldOK'  OBVIOUS
<1>1. Numbered'  BY NumberedStep DEF HeldOK
<1>2. CASE UNCHANGED vars
      BY <1>1, <1>2, HeldQuiet DEF vars, lists
<1>3. CASE Next
  <2>1. ~h.clash  BY <1>3 DEF Next
  <2>2. CASE DevOn \/ DevUp \/ IsrEnter \/ IsrCur \/ IsrSkip \/ IsrEnq
        BY <1>1, <2>2, HeldQuiet DEF DevOn, DevUp, IsrEnter, IsrCur, IsrSkip, IsrEnq
  <2>3. CASE \E len \in Lens : Post(len)
    <3> PICK len \in Lens : Post(len)  BY <2>3
    <3>1. UNCHANGED <<lists, rx, tx>>  BY DEF Post
    <3>2. h'.lost = h.lost /\ h'.clash = h.clash
      <4>1. \E a, b, c : h' = [h EXCEPT !.posted = a, !.strayed = b, !.waiting = c]
            BY DEF Post
      <4> QED  BY <4>1 DEF EType, Histories
    <3> QED  BY <1>1, <3>1, <3>2, HeldQuiet
  <2>4. CASE Send
    <3>1. UNCHANGED <<lists, rx, tx>>  BY <2>4 DEF Send
    <3>2. h'.lost = h.lost /\ h'.clash = h.clash
          BY <2>4 DEF Send, EType, Histories
    <3> QED  BY <1>1, <3>1, <3>2, HeldQuiet
  <2>5. CASE RxWait
    <3>1. /\ rx.at = "leave" /\ rx'.at = "wait" /\ rx'.pkt = rx.pkt /\ UNCHANGED <<lists, tx, h>>
          BY <2>5 DEF RxWait, RxAt, RxTo, EType, TaskType, RxTasks
    <3> QED  BY <1>1, <3>1, HeldQuiet
  <2> QED  BY <1>1, <1>3, <2>1, <2>2, <2>3, <2>4, <2>5, HeldFrame, HeldRxTake, HeldRxFree,
              HeldRxAdd, HeldRxLink, HeldTxTake, HeldTxFree
           DEF Next, Isr, RxTask, TxTask
<1> QED  BY <1>2, <1>3

\* However the handler and the two tasks interleave, and however many packets there
\* are: a packet in use is in one queue or with one task and a free one nowhere,
\* unless it was put in front of a packet that was being unlinked; and a queue ends,
\* until it was changed between the two halves of an insertion (list_add_after,
\* list_remove, en_eth_rx, en_eth_output).
THEOREM HeldOnceAlways == Spec => []HeldOnce
<1>1. EType /\ HeldOK /\ [Next]_vars => (EType /\ HeldOK)'
      BY ETypeStep, HeldStep
<1>2. Init => EType /\ HeldOK
      BY ETypeInit, HeldInit
<1> QED  BY <1>1, <1>2, HeldSuffices, PTL DEF Spec
=============================================================================
