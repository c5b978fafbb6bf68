---------------------------- MODULE BfifoProofs ----------------------------
(* A bfifo of any size is a bounded queue: theorems about Bfifo. *)
EXTENDS Bfifo, TLAPS

\* A well-formed bfifo with elements of S.
IsBfifo(f, S) ==
    /\ f \in [head : Nat, tail : Nat, free : Nat, size : Nat, elems : [0 .. f.size - 1 -> S]]
    /\ BfifoOK(f)

-----------------------------------------------------------------------------
(* Slots, as a function of the head h and the size z *)

Slot(h, z, i) == IF h + i >= z THEN h + i - z ELSE h + i
Wrapped(z, i) == IF i >= z THEN 0 ELSE i

\* The slot of an element is computed by wrapping an index once.
LEMMA SlotIsSlot ==
    ASSUME NEW f, NEW i
    PROVE  BfifoSlot(f, i) = Slot(f.head, f.size, i) /\ BfifoWrap(f, i) = Wrapped(f.size, i)
BY DEF BfifoSlot, BfifoWrap, Slot, Wrapped

\* The slot of an element is an index of the array.
LEMMA SlotInRange ==
    ASSUME NEW z \in Nat \ {0}, NEW h \in 0 .. z - 1, NEW i \in 0 .. z
    PROVE  Slot(h, z, i) \in 0 .. z - 1
BY DEF Slot

\* Wrapping the slot behind an element gives the slot of the next one.
LEMMA SlotSuccessor ==
    ASSUME NEW z \in Nat \ {0}, NEW h \in 0 .. z - 1, NEW i \in 0 .. z - 1
    PROVE  Wrapped(z, Slot(h, z, i) + 1) = Slot(h, z, i + 1)
BY DEF Slot, Wrapped

\* Moving the head by one shifts every slot by one.
LEMMA SlotShift ==
    ASSUME NEW z \in Nat \ {0}, NEW h \in 0 .. z - 1, NEW i \in 0 .. z - 1
    PROVE  /\ Wrapped(z, h + 1) \in 0 .. z - 1
           /\ Slot(Wrapped(z, h + 1), z, i) = Slot(h, z, i + 1)
BY DEF Slot, Wrapped

\* Different elements have different slots.
LEMMA SlotInjective ==
    ASSUME NEW z \in Nat \ {0}, NEW h \in 0 .. z - 1,
           NEW i \in 0 .. z - 1, NEW j \in 0 .. z - 1, i # j
    PROVE  Slot(h, z, i) # Slot(h, z, j)
BY DEF Slot

-----------------------------------------------------------------------------
\* bfifo_alloc returns a well-formed, empty FIFO.
THEOREM BfifoAllocEmpty ==
    ASSUME NEW n \in Nat \ {0}
    PROVE  BfifoOK(BfifoAlloc(n)) /\ BfifoContents(BfifoAlloc(n)) = <<>>
<1>1. BfifoCount(BfifoAlloc(n)) = 0
  BY DEF BfifoAlloc, BfifoCount
<1>2. BfifoOK(BfifoAlloc(n))
  BY <1>1 DEF BfifoOK, BfifoAlloc, BfifoSlot, BfifoCount
<1>3. BfifoContents(BfifoAlloc(n)) = <<>>
  BY <1>1 DEF BfifoContents
<1>4. QED
  BY <1>2, <1>3

\* The facts of arithmetic about a well-formed FIFO.
LEMMA BfifoFields ==
    ASSUME NEW S, NEW f, IsBfifo(f, S)
    PROVE  /\ f.size \in Nat \ {0} /\ f.free \in 0 .. f.size
           /\ f.head \in 0 .. f.size - 1 /\ f.tail \in 0 .. f.size - 1
           /\ f.elems \in [0 .. f.size - 1 -> S]
           /\ BfifoCount(f) \in 0 .. f.size
           /\ f.tail = BfifoSlot(f, BfifoCount(f))
           /\ \A i \in 0 .. f.size - 1 : BfifoSlot(f, i) \in 0 .. f.size - 1
           /\ \A i \in 1 .. BfifoCount(f) : BfifoContents(f)[i] = f.elems[BfifoSlot(f, i - 1)]
           /\ BfifoContents(f) \in Seq(S) /\ Len(BfifoContents(f)) = BfifoCount(f)
<1>1. /\ f.size \in Nat \ {0} /\ f.free \in 0 .. f.size
      /\ f.head \in 0 .. f.size - 1 /\ f.tail \in 0 .. f.size - 1
      /\ f.elems \in [0 .. f.size - 1 -> S]
      /\ f.tail = BfifoSlot(f, BfifoCount(f))
  BY DEF IsBfifo, BfifoOK
<1>2. BfifoCount(f) \in 0 .. f.size
  BY <1>1 DEF BfifoCount
<1>3. ASSUME NEW i \in 0 .. f.size - 1
      PROVE  BfifoSlot(f, i) \in 0 .. f.size - 1
  <2>1. i \in 0 .. f.size
    BY <1>1
  <2>2. Slot(f.head, f.size, i) \in 0 .. f.size - 1
    BY <1>1, <2>1, SlotInRange
  <2>3. QED
    BY <2>2, SlotIsSlot
<1>4. ASSUME NEW i \in 1 .. BfifoCount(f)
      PROVE  f.elems[BfifoSlot(f, i - 1)] \in S
  <2>1. i - 1 \in 0 .. f.size - 1
    BY <1>1, <1>2
  <2>2. QED
    BY <1>1, <1>3, <2>1
<1>5. BfifoContents(f) \in Seq(S) /\ Len(BfifoContents(f)) = BfifoCount(f)
  BY <1>2, <1>4 DEF BfifoContents
<1>6. \A i \in 1 .. BfifoCount(f) : BfifoContents(f)[i] = f.elems[BfifoSlot(f, i - 1)]
  BY DEF BfifoContents
<1>7. QED
  BY <1>1, <1>2, <1>3, <1>5, <1>6

\* bfifo_queue appends if there is room, and otherwise changes nothing: no
\* element is overwritten when the tail wraps.
THEOREM BfifoQueueAppends ==
    ASSUME NEW S, NEW f, IsBfifo(f, S), NEW e \in S
    PROVE  /\ IsBfifo(BfifoQueue(f, e), S)
           /\ BfifoContents(BfifoQueue(f, e)) =
                IF BfifoHasRoom(f) THEN Append(BfifoContents(f), e) ELSE BfifoContents(f)
<1>1. CASE ~BfifoHasRoom(f)
  BY <1>1 DEF BfifoQueue
<1>2. CASE BfifoHasRoom(f)
  <2>. DEFINE g == BfifoQueue(f, e)
              n == BfifoCount(f)
  <2>1. /\ g.head = f.head /\ g.size = f.size /\ g.free = f.free - 1
        /\ g.tail = BfifoWrap(f, f.tail + 1) /\ g.elems = [f.elems EXCEPT ![f.tail] = e]
        /\ g = [head |-> g.head, tail |-> g.tail, free |-> g.free, size |-> g.size,
                elems |-> g.elems]
    BY <1>2 DEF BfifoQueue, IsBfifo
  <2>2. /\ f.size \in Nat \ {0} /\ f.free \in 1 .. f.size
        /\ f.head \in 0 .. f.size - 1 /\ f.tail \in 0 .. f.size - 1
        /\ f.elems \in [0 .. f.size - 1 -> S]
        /\ n = f.size - f.free /\ f.tail = BfifoSlot(f, n)
    BY <1>2, BfifoFields DEF BfifoHasRoom, BfifoCount
  <2>3. BfifoCount(g) = n + 1
    BY <2>1, <2>2 DEF BfifoCount
  <2>. HIDE DEF g, n
  <2>4. g.tail \in 0 .. f.size - 1 /\ g.tail = BfifoSlot(g, n + 1)
    <3>1. n \in 0 .. f.size - 1 /\ n + 1 \in 0 .. f.size
      BY <2>2
    <3>2. g.tail = Wrapped(f.size, Slot(f.head, f.size, n) + 1)
      BY <2>1, <2>2, SlotIsSlot
    <3>3. g.tail = Slot(f.head, f.size, n + 1)
      BY <2>2, <3>1, <3>2, SlotSuccessor
    <3>4. QED
      BY <2>1, <2>2, <3>1, <3>3, SlotIsSlot, SlotInRange
  <2>5. BfifoOK(g)
    BY <2>1, <2>2, <2>3, <2>4 DEF BfifoOK
  <2>6. g.elems \in [0 .. g.size - 1 -> S]
    BY <2>1, <2>2
  <2>7. IsBfifo(g, S)
    <3>1. g.head \in Nat /\ g.tail \in Nat /\ g.free \in Nat /\ g.size \in Nat
      BY <2>1, <2>2, <2>4
    <3>2. g \in [head : Nat, tail : Nat, free : Nat, size : Nat, elems : [0 .. g.size - 1 -> S]]
      BY <2>1, <2>6, <3>1
    <3>3. QED
      BY <2>5, <3>2 DEF IsBfifo
  <2>8. \A i \in 1 .. n + 1 :
          BfifoContents(g)[i] = IF i <= n THEN BfifoContents(f)[i] ELSE e
    <3>. SUFFICES ASSUME NEW i \in 1 .. n + 1
                  PROVE  BfifoContents(g)[i] = IF i <= n THEN BfifoContents(f)[i] ELSE e
      OBVIOUS
    <3>1. BfifoContents(g)[i] = g.elems[BfifoSlot(f, i - 1)]
      BY <2>1, <2>3 DEF BfifoContents, BfifoSlot
    <3>2. CASE i <= n
      <4>1. BfifoSlot(f, i - 1) # f.tail /\ BfifoSlot(f, i - 1) \in 0 .. f.size - 1
        <5>1. i - 1 \in 0 .. f.size - 1 /\ n \in 0 .. f.size - 1 /\ i - 1 # n
          BY <2>2, <3>2
        <5>2. QED
          <6>1. Slot(f.head, f.size, i - 1) # Slot(f.head, f.size, n)
            BY <2>2, <5>1, SlotInjective
          <6>2. Slot(f.head, f.size, i - 1) \in 0 .. f.size - 1
            BY <2>2, <5>1, BfifoFields, SlotIsSlot
          <6>3. QED
            BY <2>2, <6>1, <6>2, SlotIsSlot
      <4>2. BfifoContents(f)[i] = f.elems[BfifoSlot(f, i - 1)]
        BY <2>2, <3>2, BfifoFields DEF n
      <4>3. QED
        BY <2>1, <2>2, <3>1, <3>2, <4>1, <4>2
    <3>3. CASE ~(i <= n)
      <4>1. i - 1 = n
        BY <2>2, <3>3
      <4>2. QED
        BY <2>1, <2>2, <3>1, <3>3, <4>1
    <3>4. QED
      BY <3>2, <3>3
  <2>9. /\ BfifoContents(g) \in Seq(S) /\ Len(BfifoContents(g)) = n + 1
        /\ BfifoContents(f) \in Seq(S) /\ Len(BfifoContents(f)) = n
    BY <2>3, <2>7, BfifoFields DEF n
  <2>10. BfifoContents(g) = Append(BfifoContents(f), e)
    BY <2>8, <2>9
  <2>11. QED
    BY <1>2, <2>7, <2>10 DEF g
<1>3. QED
  BY <1>1, <1>2

\* bfifo_dequeue returns the oldest element and removes exactly that one, or
\* returns NULL and changes nothing if there is none.
THEOREM BfifoDequeuePops ==
    ASSUME NEW S, NEW f, IsBfifo(f, S)
    PROVE  /\ IsBfifo(BfifoDequeue(f), S)
           /\ BfifoIsEmpty(f) <=> BfifoContents(f) = <<>>
           /\ ~BfifoIsEmpty(f) =>
                /\ BfifoFirst(f) = Head(BfifoContents(f))
                /\ BfifoContents(BfifoDequeue(f)) = Tail(BfifoContents(f))
<1>. DEFINE n == BfifoCount(f)
<1>1. /\ f.size \in Nat \ {0} /\ f.free \in 0 .. f.size
      /\ f.head \in 0 .. f.size - 1 /\ f.tail \in 0 .. f.size - 1
      /\ f.elems \in [0 .. f.size - 1 -> S]
      /\ n = f.size - f.free /\ f.tail = BfifoSlot(f, n)
      /\ BfifoContents(f) \in Seq(S) /\ Len(BfifoContents(f)) = n
      /\ \A i \in 1 .. n : BfifoContents(f)[i] = f.elems[BfifoSlot(f, i - 1)]
  BY BfifoFields DEF BfifoCount
<1>2. BfifoIsEmpty(f) <=> n = 0
  BY <1>1 DEF BfifoIsEmpty
<1>3. BfifoIsEmpty(f) <=> BfifoContents(f) = <<>>
  BY <1>1, <1>2
<1>. HIDE DEF n
<1>4. CASE BfifoIsEmpty(f)
  BY <1>3, <1>4 DEF BfifoDequeue
<1>5. CASE ~BfifoIsEmpty(f)
  <2>. DEFINE g == BfifoDequeue(f)
  <2>1. /\ g.head = BfifoWrap(f, f.head + 1) /\ g.tail = f.tail /\ g.size = f.size
        /\ g.free = f.free + 1 /\ g.elems = f.elems
        /\ g = [head |-> g.head, tail |-> g.tail, free |-> g.free, size |-> g.size,
                elems |-> g.elems]
    BY <1>5 DEF BfifoDequeue, IsBfifo
  <2>2. n \in 1 .. f.size /\ f.free < f.size
    BY <1>1, <1>2, <1>5
  <2>3. BfifoCount(g) = n - 1
    BY <1>1, <2>1 DEF BfifoCount
  <2>. HIDE DEF g
  <2>4. g.head \in 0 .. f.size - 1 /\ f.tail = BfifoSlot(g, n - 1)
    <3>1. n - 1 \in 0 .. f.size - 1 /\ (n - 1) + 1 = n
      BY <1>1, <2>2
    <3>2. g.head = Wrapped(f.size, f.head + 1)
      BY <2>1, SlotIsSlot
    <3>3. g.head \in 0 .. f.size - 1 /\ Slot(g.head, f.size, n - 1) = Slot(f.head, f.size, n)
      BY <1>1, <3>1, <3>2, SlotShift
    <3>4. QED
      BY <1>1, <2>1, <3>3, SlotIsSlot
  <2>5. IsBfifo(g, S)
    <3>1. BfifoOK(g)
      BY <1>1, <2>1, <2>2, <2>3, <2>4 DEF BfifoOK
    <3>2. QED
      BY <1>1, <2>1, <2>2, <2>4, <3>1 DEF IsBfifo
  <2>6. BfifoFirst(f) = Head(BfifoContents(f))
    <3>1. BfifoSlot(f, 0) = f.head
      BY <1>1 DEF BfifoSlot
    <3>2. BfifoContents(f)[1] = f.elems[f.head]
      BY <1>1, <2>2, <3>1
    <3>3. QED
      BY <1>1, <1>3, <1>5, <3>2 DEF BfifoFirst
  <2>7. \A i \in 1 .. n - 1 : BfifoContents(g)[i] = BfifoContents(f)[i + 1]
    <3>. SUFFICES ASSUME NEW i \in 1 .. n - 1
                  PROVE  BfifoContents(g)[i] = BfifoContents(f)[i + 1]
      OBVIOUS
    <3>1. BfifoContents(g)[i] = f.elems[BfifoSlot(g, i - 1)]
      BY <2>1, <2>3 DEF BfifoContents
    <3>2. BfifoSlot(g, i - 1) = BfifoSlot(f, (i + 1) - 1)
      <4>1. i - 1 \in 0 .. f.size - 1 /\ (i - 1) + 1 = (i + 1) - 1
        BY <1>1, <2>2
      <4>2. g.head = Wrapped(f.size, f.head + 1)
        BY <2>1, SlotIsSlot
      <4>3. Slot(g.head, f.size, i - 1) = Slot(f.head, f.size, (i - 1) + 1)
        BY <1>1, <4>1, <4>2, SlotShift
      <4>4. QED
        BY <2>1, <4>1, <4>3, SlotIsSlot
    <3>3. QED
      BY <1>1, <2>2, <3>1, <3>2
  <2>8. BfifoContents(g) \in Seq(S) /\ Len(BfifoContents(g)) = n - 1
    BY <2>3, <2>5, BfifoFields
  <2>9. BfifoContents(g) = Tail(BfifoContents(f))
    BY <1>1, <1>3, <1>5, <2>2, <2>7, <2>8
  <2>10. QED
    BY <1>3, <1>5, <2>5, <2>6, <2>9 DEF g
<1>6. QED
  BY <1>4, <1>5
=============================================================================
