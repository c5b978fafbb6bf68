-------------------------------- MODULE Pkt --------------------------------
(***************************************************************************)
(* Packet buffers (net/core/pkt.c, net/core/pkt.h) as operators on records *)
(* [data |-> the buffer, len |-> the length of the packet in it]. A cell   *)
(* of the buffer is whatever unit the user of this module chooses: a byte, *)
(* or a whole header. malloc may fail: an operation stands for the outcome *)
(* where it does not, and the caller of it says what is left when it does. *)
(***************************************************************************)
EXTENDS Naturals, Sequences

CONSTANTS
    Blank,      \* a cell of memory that was zeroed
    Padding     \* BUF_PADDING

ASSUME PktAssumption == Padding \in Nat \ {0}

Packets(Cell) == {p \in [data : Seq(Cell), len : Nat] : p.len <= Len(p.data)}

\* pkt->allocated
Allocated(p) == Len(p.data)
Payload(p) == SubSeq(p.data, 1, p.len)

Blanks(n) == [i \in 1 .. n |-> Blank]

\* Fault: a buffer keeps the size it was asked for.
PaddedNot(n) == n

Padded(n) == IF n % Padding # 0 THEN n + Padding - (n % Padding) ELSE n

\* memcpy of s to offset at of a buffer that is long enough
Stored(data, at, s) ==
    SubSeq(data, 1, at) \o s \o SubSeq(data, at + Len(s) + 1, Len(data))

\* pkt_alloc: the packet is empty, its buffer zeroed.
NewPkt(base) == [data |-> Blanks(Padded(base)), len |-> 0]

\* What callers of pkt_alloc do next: fill the buffer and set pkt->len.
Filled(p, s) == [data |-> Stored(p.data, 0, s), len |-> Len(s)]

\* pkt_grow: the old contents, then zeros; a smaller size changes nothing.
Grown(p, n) ==
    IF n < Allocated(p) THEN p
    ELSE [p EXCEPT !.data = Payload(p) \o Blanks(Padded(n) - p.len)]

\* pkt_reserve
Reserved(p, n) == IF n > Allocated(p) THEN Grown(p, n) ELSE p

\* pkt_add_head: push the existing data down, copy in the new data.
AddHead(p, s) ==
    LET q == Reserved(p, Allocated(p) + Len(s))
    IN  [data |-> Stored(Stored(q.data, Len(s), Payload(q)), 0, s),
         len |-> q.len + Len(s)]

\* pkt_add_tail
AddTail(p, s) ==
    LET q == Reserved(p, Allocated(p) + Len(s))
    IN  [data |-> Stored(q.data, q.len, s), len |-> q.len + Len(s)]

\* pkt_add reserves room for both ends and calls the two above, each of which
\* reserves again. Whichever allocation fails, the steps before it are not
\* undone.
Added(p, h, t) ==
    LET q == Reserved(p, Allocated(p) + Len(h) + Len(t))
    IN  {p, q, AddHead(q, h), AddTail(AddHead(q, h), t)}

\* pkt_del_head: refuses to remove more than there is; the buffer is not shrunk.
DelHead(p, n) ==
    IF n > p.len THEN p
    ELSE [data |-> Stored(p.data, 0, SubSeq(p.data, n + 1, p.len)), len |-> p.len - n]

-----------------------------------------------------------------------------
(* The checksum, of a buffer whose 16-bit words add up to sum *)

\* ocksum16: one end-around carry, truncated to 16 bits.
Ocksum16(sum) == ((sum % 65536) + (sum \div 65536)) % 65536

\* en_ntohs, en_htons on a 16-bit word
Swapped(w) == ((w % 256) * 256) + (w \div 256)
=============================================================================
