------------------------------- MODULE Bfifo -------------------------------
(***************************************************************************)
(* struct bfifo (kernel/list.c), the bounded FIFO behind wait queues and   *)
(* behind the free chunks of the allocator: a ring buffer with a count of  *)
(* its free slots.                                                         *)
(***************************************************************************)
EXTENDS Naturals, Sequences

CONSTANT NULL   \* no element

BfifoAlloc(nelems) ==
    [head |-> 0, tail |-> 0, free |-> nelems, size |-> nelems,
     elems |-> [i \in 0 .. nelems - 1 |-> NULL]]

BfifoWrap(f, i) == IF i >= f.size THEN 0 ELSE i

\* bfifo_queue returns 0 if there is room and changes nothing otherwise.
BfifoHasRoom(f) == f.free > 0

\* Fault: a full FIFO is not noticed.
BfifoQueueAlways(f, elem) ==
    [f EXCEPT !.elems[f.tail] = elem, !.tail = BfifoWrap(f, @ + 1), !.free = @ - 1]

BfifoQueue(f, elem) ==
    IF BfifoHasRoom(f)
      THEN [f EXCEPT !.elems[f.tail] = elem, !.tail = BfifoWrap(f, @ + 1), !.free = @ - 1]
      ELSE f

BfifoIsEmpty(f) == f.free >= f.size

\* What bfifo_dequeue returns, and (BfifoDequeue) what it leaves behind.
BfifoFirst(f) == IF BfifoIsEmpty(f) THEN NULL ELSE f.elems[f.head]

BfifoDequeue(f) ==
    IF BfifoIsEmpty(f) THEN f
    ELSE [f EXCEPT !.head = BfifoWrap(f, @ + 1), !.free = @ + 1]

-----------------------------------------------------------------------------
(* What a bfifo stands for *)

BfifoCount(f) == f.size - f.free

\* The slot of the i-th element from the head.
BfifoSlot(f, i) == IF f.head + i >= f.size THEN f.head + i - f.size ELSE f.head + i

\* The elements in the order in which they will be dequeued.
BfifoContents(f) == [i \in 1 .. BfifoCount(f) |-> f.elems[BfifoSlot(f, i - 1)]]

\* The free count, the head and the tail agree.
BfifoOK(f) ==
    /\ f.size \in Nat \ {0} /\ f.free \in 0 .. f.size
    /\ f.head \in 0 .. f.size - 1 /\ f.tail \in 0 .. f.size - 1
    /\ f.tail = BfifoSlot(f, BfifoCount(f))
=============================================================================
