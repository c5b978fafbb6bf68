-------------------------------- MODULE Mem --------------------------------
(***************************************************************************)
(* The memory allocator (kernel/mem.c): smalloc(), which cuts memory off   *)
(* the start of what is left of the heap, and malloc() and free(), which   *)
(* hand out chunks of fixed sizes. The chunks of a step lie one behind the *)
(* other, the steps likewise, since mem_init cuts them off in that order.  *)
(*                                                                         *)
(* An address is an offset from _heap_start, which the linker aligns. A    *)
(* call is one action; malloc() and free() take no lock, so this is the    *)
(* behaviour of callers that do not preempt each other.                    *)
(***************************************************************************)
EXTENDS Bfifo, FiniteSets

CONSTANTS
    Steps,      \* ALLOC_STEPS
    Num,        \* ALLOC_NUM, chunks per step
    AllocMin,   \* ALLOC_MIN, bytes in a chunk of the first step
    MetaSize,   \* bytes of a struct mem_desc and its FIFO
    StaticSize, \* SMALLOC_SIZE
    Word,       \* 2^32: unsigned arithmetic is modulo Word
    Slots,      \* bound: blocks in use at a time
    Sizes,      \* sizes passed to malloc
    StaticSizes \* sizes passed to smalloc

ASSUME MemAssumption ==
    /\ Steps \in Nat \ {0} /\ Num \in Nat \ {0}
    /\ AllocMin \in Nat \ {0} /\ AllocMin % 4 = 0
    /\ MetaSize \in Nat /\ MetaSize % 4 = 0
    /\ StaticSize \in Nat /\ StaticSize % 4 = 0
    /\ Word \in Nat \ {0}
    /\ Sizes \subseteq Nat \ {0} /\ StaticSizes \subseteq Nat \ {0}

VARIABLES
    mem_desc,   \* mem_desc[i]: the struct mem_desc of step i, its FIFO in it
    heap_cur,   \* offset of what is left of the heap
    held,       \* held[s]: a block in use: its address and the size asked for
    static      \* history: the regions smalloc returned after mem_init

vars == <<mem_desc, heap_cur, held, static>>

-----------------------------------------------------------------------------
(* The layout mem_init produces *)

DescSize(i) == AllocMin * 2^(i - 1)

Start(i) == Steps * MetaSize + Num * AllocMin * (2^(i - 1) - 1)
End(i)   == Start(i) + Num * DescSize(i)     \* the byte behind the last chunk

Chunk(i, j) == Start(i) + (j - 1) * DescSize(i)
Chunks == {Chunk(i, j) : i \in 1 .. Steps, j \in 1 .. Num}

HeapSize == End(Steps) + StaticSize

\* The size of the chunk that begins at p.
SizeAt(p) == CHOOSE d \in {DescSize(i) : i \in 1 .. Steps} :
                 \E i \in 1 .. Steps, j \in 1 .. Num : p = Chunk(i, j) /\ d = DescSize(i)

\* The FIFO of step i, filled by mem_init.
Filled(i) ==
    [head |-> 0, tail |-> 0, free |-> 0, size |-> Num,
     elems |-> [k \in 0 .. Num - 1 |-> Chunk(i, k + 1)]]

-----------------------------------------------------------------------------
(* smalloc *)

\* Fault: a boundary is skipped even if the end is aligned already.
RealignAlways(a) == a + 4 - (a % 4)

Realign(a) == IF a % 4 # 0 THEN a + 4 - (a % 4) ELSE a

\* size_t arithmetic: what is left wraps around if heap_cur ever passes the end.
Left == (HeapSize + Word - heap_cur) % Word

Smalloc(size) ==
    /\ Left >= size
    /\ static' = static \cup {<<heap_cur, heap_cur + size>>}
    /\ heap_cur' = Realign(heap_cur + size)
    /\ UNCHANGED <<mem_desc, held>>

-----------------------------------------------------------------------------
(* malloc and free *)

\* Fault: a chunk is taken to be as large as one of the next step.
LargeEnoughByOne(i, size) == 2 * DescSize(i) >= size

LargeEnough(i, size) == DescSize(i) >= size

Least(S) == CHOOSE i \in S : \A j \in S : i <= j
Lesser(a, b) == IF a <= b THEN a ELSE b

\* The first step that is large enough and has a chunk; if none, malloc returns
\* NULL and changes nothing.
Malloc(s, size) ==
    /\ held[s] = NULL
    /\ LET able == {i \in 1 .. Steps : LargeEnough(i, size)
                                        /\ ~BfifoIsEmpty(mem_desc[i].allocations)}
           i    == Least(able)
           fifo == mem_desc[i].allocations
           rest == BfifoDequeue(fifo)
       IN  /\ able # {}
           /\ held' = [held EXCEPT ![s] = [ptr |-> BfifoFirst(fifo), size |-> size]]
           /\ mem_desc' = [mem_desc EXCEPT
                             ![i].allocations = rest,
                             ![i].least_free = Lesser(rest.free, @)]
    /\ UNCHANGED <<heap_cur, static>>

\* Fault: only the start of a step is looked at.
WithinFrom(i, p) == Start(i) <= p

Within(i, p) == Start(i) <= p /\ p <= End(i)

\* The pointer goes back to every step within whose bounds it lies, both ends
\* included; that a FIFO has no room for it is ignored.
Free(s) ==
    /\ held[s] # NULL
    /\ LET p == held[s].ptr
       IN  mem_desc' = [i \in 1 .. Steps |->
                          IF Within(i, p)
                            THEN [mem_desc[i] EXCEPT !.allocations = BfifoQueue(@, p)]
                            ELSE mem_desc[i]]
    /\ held' = [held EXCEPT ![s] = NULL]
    /\ UNCHANGED <<heap_cur, static>>

-----------------------------------------------------------------------------
\* mem_init has run; it comes first in main().
Init ==
    /\ mem_desc = [i \in 1 .. Steps |-> [least_free |-> Num, allocations |-> Filled(i)]]
    /\ heap_cur = End(Steps)
    /\ held = [s \in Slots |-> NULL]
    /\ static = {}

Next ==
    \/ \E size \in StaticSizes : Smalloc(size)
    \/ \E s \in Slots, size \in Sizes : Malloc(s, size)
    \/ \E s \in Slots : Free(s)

Spec == Init /\ [][Next]_vars

-----------------------------------------------------------------------------
(* Properties *)

InUse == {s \in Slots : held[s] # NULL}

\* The FIFOs' free counts, heads and tails agree, and hold chunks only, although
\* free() queues some pointers twice and drops others.
TypeOK ==
    /\ \A i \in 1 .. Steps :
         LET fifo == mem_desc[i].allocations
         IN  BfifoOK(fifo) /\ \A k \in 1 .. BfifoCount(fifo) : BfifoContents(fifo)[k] \in Chunks
    /\ \A i \in 1 .. Steps : mem_desc[i].least_free \in 0 .. Num
    /\ heap_cur \in Nat
    /\ \A s \in InUse : held[s].ptr \in Chunks /\ held[s].size \in Sizes

\* malloc() never returns a chunk smaller than what was asked for, whichever
\* step's FIFO it ended up in.
BlockIsLargeEnough == \A s \in InUse : held[s].size <= SizeAt(held[s].ptr)

\* A chunk that is not the first of its step is in one place only: handed out
\* once, or queued once.
Interior == Chunks \ {Start(i) : i \in 1 .. Steps}

Places(p) ==
    {s \in InUse : held[s].ptr = p}
        \cup {x \in (1 .. Steps) \X (1 .. Num) :
                LET fifo == mem_desc[x[1]].allocations
                IN  x[2] <= BfifoCount(fifo) /\ BfifoContents(fifo)[x[2]] = p}

InteriorInOnePlace == \A p \in Interior : Cardinality(Places(p)) <= 1

\* What smalloc() returns lies in the heap behind all chunks, and no two of its
\* regions overlap: the size left never wraps around ("watch for underflow").
StaticDisjoint ==
    /\ \A r \in static : End(Steps) <= r[1] /\ r[2] <= HeapSize
    /\ \A r, q \in static : r # q => r[2] <= q[1] \/ q[2] <= r[1]

\* free() must "determine which descriptor this pointer fits within" (mem.c:124),
\* so that no two blocks in use overlap.
BlocksDisjoint ==
    \A s, u \in InUse : s # u =>
        \/ held[s].ptr + held[s].size <= held[u].ptr
        \/ held[u].ptr + held[u].size <= held[s].ptr
=============================================================================
