----------------------------- MODULE PktProofs -----------------------------
(* Packet buffers of any size, with any padding: theorems about Pkt. *)
EXTENDS Pkt, TLAPS, SequenceTheorems

-----------------------------------------------------------------------------
(* Parts of buffers *)

\* The first cells of a sequence, and the cells from some place on
LEMMA Prefix ==
    ASSUME NEW Cell, NEW d \in Seq(Cell), NEW n \in 0 .. Len(d)
    PROVE  /\ SubSeq(d, 1, n) \in Seq(Cell)
           /\ Len(SubSeq(d, 1, n)) = n
           /\ \A i \in 1 .. n : SubSeq(d, 1, n)[i] = d[i]
<1>1. \A i \in 1 .. n : d[i] \in Cell
  BY ElementOfSeq
<1>2. n \in Int /\ 1 \in Int /\ n >= 0
  BY LenProperties
<1>3. QED
  BY <1>1, <1>2, SubSeqProperties

LEMMA Suffix ==
    ASSUME NEW Cell, NEW d \in Seq(Cell), NEW m \in 0 .. Len(d), NEW n \in m .. Len(d)
    PROVE  /\ SubSeq(d, m + 1, n) \in Seq(Cell)
           /\ Len(SubSeq(d, m + 1, n)) = n - m
           /\ \A i \in 1 .. n - m : SubSeq(d, m + 1, n)[i] = d[m + i]
<1>1. Len(d) \in Nat
  BY LenProperties
<1>2. \A i \in m + 1 .. n : d[i] \in Cell
  BY <1>1, ElementOfSeq
<1>3. m + 1 \in Int /\ n \in Int
  BY <1>1
<1>4. /\ SubSeq(d, m + 1, n) \in Seq(Cell)
      /\ Len(SubSeq(d, m + 1, n)) = IF m + 1 <= n THEN n - (m + 1) + 1 ELSE 0
      /\ \A i \in 1 .. n - (m + 1) + 1 : SubSeq(d, m + 1, n)[i] = d[m + 1 + i - 1]
  BY <1>2, <1>3, SubSeqProperties
<1>5. QED
  BY <1>1, <1>3, <1>4

\* Two sequences, one behind the other
LEMMA Joined ==
    ASSUME NEW Cell, NEW x \in Seq(Cell), NEW y \in Seq(Cell)
    PROVE  /\ x \o y \in Seq(Cell) /\ Len(x \o y) = Len(x) + Len(y)
           /\ \A i \in 1 .. Len(x) : (x \o y)[i] = x[i]
           /\ \A i \in Len(x) + 1 .. Len(x) + Len(y) : (x \o y)[i] = y[i - Len(x)]
<1>1. Len(x) \in Nat /\ Len(y) \in Nat
  BY LenProperties
<1>2. /\ x \o y \in Seq(Cell)
      /\ Len(x \o y) = Len(x) + Len(y)
      /\ \A i \in 1 .. Len(x) + Len(y) : (x \o y)[i] =
             IF i <= Len(x) THEN x[i] ELSE y[i - Len(x)]
  BY ConcatProperties
<1>3. QED
  BY <1>1, <1>2

\* memcpy into a buffer that is long enough keeps its length and changes
\* exactly the cells copied to.
LEMMA StoredCells ==
    ASSUME NEW Cell, NEW d \in Seq(Cell), NEW s \in Seq(Cell), NEW at \in Nat,
           at + Len(s) <= Len(d)
    PROVE  /\ Stored(d, at, s) \in Seq(Cell)
           /\ Len(Stored(d, at, s)) = Len(d)
           /\ \A i \in 1 .. Len(d) : Stored(d, at, s)[i] =
                  IF i <= at \/ i > at + Len(s) THEN d[i] ELSE s[i - at]
<1> DEFINE x == SubSeq(d, 1, at)
           y == SubSeq(d, at + Len(s) + 1, Len(d))
           xs == x \o s
           z == xs \o y
<1>1. Len(d) \in Nat /\ Len(s) \in Nat
  BY LenProperties
<1>2. x \in Seq(Cell) /\ Len(x) = at /\ \A i \in 1 .. at : x[i] = d[i]
  BY <1>1, Prefix
<1>3. /\ y \in Seq(Cell) /\ Len(y) = Len(d) - (at + Len(s))
      /\ \A i \in 1 .. Len(d) - (at + Len(s)) : y[i] = d[at + Len(s) + i]
  BY <1>1, Suffix
<1> HIDE DEF x, y
<1>4. /\ xs \in Seq(Cell) /\ Len(xs) = at + Len(s)
      /\ \A i \in 1 .. at : xs[i] = x[i]
      /\ \A i \in at + 1 .. at + Len(s) : xs[i] = s[i - at]
  <2>1. /\ xs \in Seq(Cell) /\ Len(xs) = Len(x) + Len(s)
        /\ \A i \in 1 .. Len(x) : xs[i] = x[i]
        /\ \A i \in Len(x) + 1 .. Len(x) + Len(s) : xs[i] = s[i - Len(x)]
    <3>1. x \in Seq(Cell)
      BY <1>2
    <3>2. QED
      BY <3>1, Joined, Zenon DEF xs
  <2> HIDE DEF xs
  <2>2. QED
    BY <1>2, <2>1
<1> HIDE DEF xs
<1>5. /\ z \in Seq(Cell) /\ Len(z) = (at + Len(s)) + (Len(d) - (at + Len(s)))
      /\ \A i \in 1 .. at + Len(s) : z[i] = xs[i]
      /\ \A i \in (at + Len(s)) + 1 .. (at + Len(s)) + (Len(d) - (at + Len(s))) :
             z[i] = y[i - (at + Len(s))]
  <2>1. /\ z \in Seq(Cell) /\ Len(z) = Len(xs) + Len(y)
        /\ \A i \in 1 .. Len(xs) : z[i] = xs[i]
        /\ \A i \in Len(xs) + 1 .. Len(xs) + Len(y) : z[i] = y[i - Len(xs)]
    BY <1>3, <1>4, Joined DEF z
  <2> HIDE DEF z
  <2>2. QED
    BY <1>3, <1>4, <2>1
<1>6. Stored(d, at, s) = z
  BY DEF Stored, z, xs, x, y
<1> HIDE DEF z
<1>7. ASSUME NEW i \in 1 .. Len(d)
      PROVE  z[i] = IF i <= at \/ i > at + Len(s) THEN d[i] ELSE s[i - at]
  <2>1. CASE i <= at
    BY <2>1, <1>1, <1>2, <1>4, <1>5
  <2>2. CASE i > at /\ i <= at + Len(s)
    BY <2>2, <1>1, <1>4, <1>5
  <2>3. CASE i > at + Len(s)
    <3> DEFINE j == i - (at + Len(s))
    <3>1. /\ i \in (at + Len(s)) + 1 .. (at + Len(s)) + (Len(d) - (at + Len(s)))
          /\ j \in 1 .. Len(d) - (at + Len(s)) /\ at + Len(s) + j = i
      BY <2>3, <1>1
    <3>2. z[i] = y[j]
      BY <1>5, <3>1
    <3> HIDE DEF j
    <3>3. y[j] = d[i]
      BY <1>3, <3>1
    <3>4. QED
      BY <2>3, <1>1, <3>2, <3>3
  <2>4. QED
    BY <1>1, <2>1, <2>2, <2>3
<1>8. QED
  BY <1>1, <1>5, <1>6, <1>7

\* A packet: a buffer and a length within it
LEMMA PacketParts ==
    ASSUME NEW Cell, NEW p \in Packets(Cell)
    PROVE  /\ p.data \in Seq(Cell) /\ p.len \in Nat /\ p.len <= Allocated(p)
           /\ Allocated(p) \in Nat /\ Allocated(p) = Len(p.data)
           /\ Payload(p) \in Seq(Cell) /\ Len(Payload(p)) = p.len
           /\ \A i \in 1 .. p.len : Payload(p)[i] = p.data[i]
<1>1. p.data \in Seq(Cell) /\ p.len \in Nat /\ p.len <= Len(p.data)
      /\ p = [data |-> p.data, len |-> p.len]
  BY DEF Packets
<1>2. Len(p.data) \in Nat
  BY <1>1, LenProperties
<1>3. QED
  BY <1>1, <1>2, Prefix DEF Payload, Allocated

\* Two lengths and the cells before them decide what a packet contains.
LEMMA PayloadIs ==
    ASSUME NEW Cell, NEW d \in Seq(Cell), NEW n \in 0 .. Len(d), NEW s \in Seq(Cell),
           Len(s) = n, \A i \in 1 .. n : d[i] = s[i]
    PROVE  /\ [data |-> d, len |-> n] \in Packets(Cell)
           /\ Payload([data |-> d, len |-> n]) = s
<1>1. Len(d) \in Nat
  BY LenProperties
<1>2. [data |-> d, len |-> n] \in Packets(Cell)
  BY <1>1 DEF Packets
<1>3. /\ SubSeq(d, 1, n) \in Seq(Cell) /\ Len(SubSeq(d, 1, n)) = Len(s)
      /\ \A i \in 1 .. Len(SubSeq(d, 1, n)) : SubSeq(d, 1, n)[i] = s[i]
  BY Prefix
<1>4. SubSeq(d, 1, n) = s
  BY <1>3, SeqEqual
<1>5. QED
  BY <1>2, <1>4 DEF Payload

-----------------------------------------------------------------------------
(* Sizes *)

\* Padding never makes a size smaller.
LEMMA PaddedAtLeast ==
    ASSUME NEW n \in Nat
    PROVE  Padded(n) \in Nat /\ Padded(n) >= n
<1>1. n % Padding \in 0 .. Padding - 1
  BY PktAssumption, SMT
<1>2. QED
  BY <1>1, PktAssumption DEF Padded

\* A zeroed buffer
LEMMA BlanksSeq ==
    ASSUME NEW Cell, Blank \in Cell, NEW n \in Nat
    PROVE  Blanks(n) \in Seq(Cell) /\ Len(Blanks(n)) = n
<1>1. Blanks(n) \in Seq(Cell)
  BY IsASeq DEF Blanks
<1>2. DOMAIN Blanks(n) = 1 .. n
  BY DEF Blanks
<1>3. QED
  BY <1>1, <1>2, LenProperties

\* pkt_grow makes room, and keeps the contents and their length.
THEOREM GrownKeeps ==
    ASSUME NEW Cell, Blank \in Cell, NEW p \in Packets(Cell), NEW n \in Nat
    PROVE  /\ Grown(p, n) \in Packets(Cell)
           /\ Payload(Grown(p, n)) = Payload(p) /\ Grown(p, n).len = p.len
           /\ Allocated(Grown(p, n)) >= n /\ Allocated(Grown(p, n)) >= Allocated(p)
<1> DEFINE b == Blanks(Padded(n) - p.len)
           d == Payload(p) \o b
<1>1. /\ p.data \in Seq(Cell) /\ p.len \in Nat /\ p.len <= Allocated(p)
      /\ Allocated(p) \in Nat
      /\ Payload(p) \in Seq(Cell) /\ Len(Payload(p)) = p.len
  BY PacketParts
<1>2. CASE n < Allocated(p)
  BY <1>1, <1>2 DEF Grown
<1>3. CASE n >= Allocated(p)
  <2>1. Padded(n) \in Nat /\ Padded(n) >= n
    BY PaddedAtLeast
  <2>2. b \in Seq(Cell) /\ Len(b) = Padded(n) - p.len
    <3>1. Padded(n) - p.len \in Nat
      BY <1>1, <1>3, <2>1
    <3>2. QED
      BY <3>1, BlanksSeq
  <2> HIDE DEF b
  <2>3. /\ d \in Seq(Cell) /\ Len(d) = p.len + (Padded(n) - p.len)
        /\ \A i \in 1 .. p.len : d[i] = Payload(p)[i]
    <3>1. /\ d \in Seq(Cell) /\ Len(d) = Len(Payload(p)) + Len(b)
          /\ \A i \in 1 .. Len(Payload(p)) : d[i] = Payload(p)[i]
      BY <1>1, <2>2, Joined
    <3> HIDE DEF d
    <3>2. QED
      BY <1>1, <2>2, <3>1
  <2>4. Grown(p, n) = [data |-> d, len |-> p.len]
    <3>1. Grown(p, n) = [p EXCEPT !.data = d]
      BY <1>1, <1>3 DEF Grown, b
    <3> HIDE DEF d
    <3>2. p \in [data : Seq(Cell), len : Nat]
      BY DEF Packets
    <3>3. [p EXCEPT !.data = d] = [data |-> d, len |-> p.len]
      BY <3>2
    <3>4. QED
      BY <3>1, <3>3
  <2> HIDE DEF d
  <2>5. p.len \in 0 .. Len(d)
    BY <1>1, <1>3, <2>1, <2>3
  <2>6. [data |-> d, len |-> p.len] \in Packets(Cell)
        /\ Payload([data |-> d, len |-> p.len]) = Payload(p)
    BY <1>1, <2>3, <2>5, PayloadIs
  <2>7. Allocated([data |-> d, len |-> p.len]) = Padded(n)
    BY <1>1, <2>1, <2>3 DEF Allocated
  <2>8. QED
    BY <1>1, <1>3, <2>1, <2>4, <2>6, <2>7
<1>4. QED
  BY <1>1, <1>2, <1>3

\* pkt_reserve does so, too.
LEMMA ReservedKeeps ==
    ASSUME NEW Cell, Blank \in Cell, NEW p \in Packets(Cell), NEW n \in Nat
    PROVE  /\ Reserved(p, n) \in Packets(Cell)
           /\ Payload(Reserved(p, n)) = Payload(p) /\ Reserved(p, n).len = p.len
           /\ Allocated(Reserved(p, n)) >= n
           /\ Allocated(Reserved(p, n)) >= Allocated(p)
<1>1. Allocated(p) \in Nat
  BY PacketParts
<1>2. CASE n > Allocated(p)
  BY <1>2, GrownKeeps DEF Reserved
<1>3. CASE ~(n > Allocated(p))
  BY <1>1, <1>3 DEF Reserved
<1>4. QED
  BY <1>2, <1>3

-----------------------------------------------------------------------------
(* The operations *)

\* pkt_add_head yields a packet, its length within its buffer, that contains the
\* new data followed by what it contained.
THEOREM AddHeadPrepends ==
    ASSUME NEW Cell, Blank \in Cell, NEW p \in Packets(Cell), NEW s \in Seq(Cell)
    PROVE  /\ AddHead(p, s) \in Packets(Cell)
           /\ Payload(AddHead(p, s)) = s \o Payload(p)
<1> DEFINE q == Reserved(p, Allocated(p) + Len(s))
           d == Stored(q.data, Len(s), Payload(q))
           e == Stored(d, 0, s)
<1>1. /\ Len(s) \in Nat /\ Allocated(p) \in Nat /\ p.len \in Nat
      /\ p.len <= Allocated(p) /\ Allocated(p) + Len(s) \in Nat
  <2>1. Len(s) \in Nat
    BY LenProperties
  <2>2. Allocated(p) \in Nat /\ p.len \in Nat /\ p.len <= Allocated(p)
    BY PacketParts
  <2>3. QED
    BY <2>1, <2>2
<1>2. /\ q \in Packets(Cell) /\ Payload(q) = Payload(p) /\ q.len = p.len
      /\ Allocated(q) >= Allocated(p) + Len(s)
  BY <1>1, ReservedKeeps
<1> HIDE DEF q
<1>3. /\ q.data \in Seq(Cell) /\ Payload(q) \in Seq(Cell) /\ Len(Payload(q)) = q.len
      /\ Len(q.data) \in Nat /\ Len(q.data) >= q.len + Len(s) /\ q.len \in Nat
  BY <1>1, <1>2, PacketParts DEF Allocated
<1> DEFINE c == Payload(q)
           r == s \o c
<1> HIDE DEF c
<1>4. /\ d \in Seq(Cell) /\ Len(d) = Len(q.data)
      /\ \A i \in Len(s) + 1 .. Len(s) + q.len : d[i] = c[i - Len(s)]
  <2>1. c \in Seq(Cell) /\ Len(c) = q.len /\ Len(s) + Len(c) <= Len(q.data)
    BY <1>1, <1>3 DEF c
  <2> DEFINE f == Stored(q.data, Len(s), c)
  <2>2. /\ f \in Seq(Cell) /\ Len(f) = Len(q.data)
        /\ \A i \in 1 .. Len(q.data) : f[i] =
               IF i <= Len(s) \/ i > Len(s) + Len(c) THEN q.data[i] ELSE c[i - Len(s)]
    BY <1>1, <1>3, <2>1, StoredCells
  <2>3. f = d
    BY DEF d, c
  <2> HIDE DEF f
  <2>4. ASSUME NEW i \in Len(s) + 1 .. Len(s) + q.len
        PROVE  f[i] = c[i - Len(s)]
    <3>1. i \in 1 .. Len(q.data) /\ ~(i <= Len(s)) /\ ~(i > Len(s) + Len(c))
      BY <1>1, <1>3, <2>1
    <3>2. QED
      BY <2>2, <3>1
  <2>5. QED
    BY <2>2, <2>3, <2>4
<1> HIDE DEF d
<1>5. /\ e \in Seq(Cell) /\ Len(e) = Len(d)
      /\ \A i \in 1 .. Len(s) : e[i] = s[i]
      /\ \A i \in Len(s) + 1 .. Len(s) + q.len : e[i] = d[i]
  <2>1. /\ e \in Seq(Cell) /\ Len(e) = Len(d)
        /\ \A i \in 1 .. Len(d) : e[i] = IF i <= 0 \/ i > 0 + Len(s) THEN d[i] ELSE s[i - 0]
    BY <1>1, <1>3, <1>4, StoredCells
  <2> HIDE DEF e
  <2>2. ASSUME NEW i \in 1 .. Len(s) + q.len
        PROVE  i \in 1 .. Len(d) /\ i - 0 = i /\ (i > 0 + Len(s) <=> i > Len(s)) /\ ~(i <= 0)
    BY <1>1, <1>3, <1>4
  <2>3. ASSUME NEW i \in 1 .. Len(s)
        PROVE  e[i] = s[i]
    BY <1>1, <1>3, <2>1, <2>2
  <2>4. ASSUME NEW i \in Len(s) + 1 .. Len(s) + q.len
        PROVE  e[i] = d[i]
    BY <1>1, <1>3, <2>1, <2>2
  <2>5. QED
    BY <2>1, <2>3, <2>4
<1> HIDE DEF e
<1>6. /\ r \in Seq(Cell) /\ Len(r) = Len(s) + q.len
      /\ \A i \in 1 .. Len(s) : r[i] = s[i]
      /\ \A i \in Len(s) + 1 .. Len(s) + q.len : r[i] = c[i - Len(s)]
  <2>1. c \in Seq(Cell) /\ Len(c) = q.len
    BY <1>3 DEF c
  <2>2. /\ r \in Seq(Cell) /\ Len(r) = Len(s) + Len(c)
        /\ \A i \in 1 .. Len(s) : r[i] = s[i]
        /\ \A i \in Len(s) + 1 .. Len(s) + Len(c) : r[i] = c[i - Len(s)]
    BY <2>1, Joined
  <2> HIDE DEF r
  <2>3. QED
    BY <2>1, <2>2
<1> HIDE DEF r
<1>7. ASSUME NEW i \in 1 .. q.len + Len(s)
      PROVE  e[i] = r[i]
  <2>1. CASE i <= Len(s)
    BY <2>1, <1>1, <1>3, <1>5, <1>6
  <2>2. CASE i > Len(s)
    <3>1. i \in Len(s) + 1 .. Len(s) + q.len
      BY <2>2, <1>1, <1>3
    <3>2. QED
      BY <3>1, <1>4, <1>5, <1>6
  <2>3. QED
    BY <1>1, <1>3, <2>1, <2>2
<1>8. q.len + Len(s) \in 0 .. Len(e) /\ Len(r) = q.len + Len(s)
  BY <1>1, <1>3, <1>4, <1>5, <1>6
<1>9. /\ [data |-> e, len |-> q.len + Len(s)] \in Packets(Cell)
      /\ Payload([data |-> e, len |-> q.len + Len(s)]) = r
  BY <1>5, <1>6, <1>7, <1>8, PayloadIs
<1>10. AddHead(p, s) = [data |-> e, len |-> q.len + Len(s)]
  BY DEF AddHead, q, d, e
<1>11. QED
  BY <1>2, <1>9, <1>10 DEF r, c

\* pkt_add_tail yields a packet that contains what it contained, followed by the
\* new data.
THEOREM AddTailAppends ==
    ASSUME NEW Cell, Blank \in Cell, NEW p \in Packets(Cell), NEW s \in Seq(Cell)
    PROVE  /\ AddTail(p, s) \in Packets(Cell)
           /\ Payload(AddTail(p, s)) = Payload(p) \o s
<1> DEFINE q == Reserved(p, Allocated(p) + Len(s))
           e == Stored(q.data, q.len, s)
<1>1. /\ Len(s) \in Nat /\ Allocated(p) \in Nat /\ p.len \in Nat
      /\ p.len <= Allocated(p) /\ Allocated(p) + Len(s) \in Nat
  <2>1. Len(s) \in Nat
    BY LenProperties
  <2>2. Allocated(p) \in Nat /\ p.len \in Nat /\ p.len <= Allocated(p)
    BY PacketParts
  <2>3. QED
    BY <2>1, <2>2
<1>2. /\ q \in Packets(Cell) /\ Payload(q) = Payload(p) /\ q.len = p.len
      /\ Allocated(q) >= Allocated(p) + Len(s)
  BY <1>1, ReservedKeeps
<1> HIDE DEF q
<1>3. /\ q.data \in Seq(Cell) /\ Payload(q) \in Seq(Cell) /\ Len(Payload(q)) = q.len
      /\ Len(q.data) \in Nat /\ Len(q.data) >= q.len + Len(s) /\ q.len \in Nat
      /\ \A i \in 1 .. q.len : Payload(q)[i] = q.data[i]
  BY <1>1, <1>2, PacketParts DEF Allocated
<1> DEFINE c == Payload(q)
           r == c \o s
<1> HIDE DEF c
<1>4. /\ e \in Seq(Cell) /\ Len(e) = Len(q.data)
      /\ \A i \in 1 .. q.len : e[i] = c[i]
      /\ \A i \in q.len + 1 .. q.len + Len(s) : e[i] = s[i - q.len]
  <2>1. /\ e \in Seq(Cell) /\ Len(e) = Len(q.data)
        /\ \A i \in 1 .. Len(q.data) : e[i] =
               IF i <= q.len \/ i > q.len + Len(s) THEN q.data[i] ELSE s[i - q.len]
    BY <1>1, <1>3, StoredCells
  <2> HIDE DEF e
  <2>2. ASSUME NEW i \in 1 .. q.len
        PROVE  e[i] = q.data[i]
    <3>1. i \in 1 .. Len(q.data) /\ i <= q.len
      BY <1>1, <1>3
    <3>2. QED
      BY <2>1, <3>1
  <2>3. ASSUME NEW i \in q.len + 1 .. q.len + Len(s)
        PROVE  e[i] = s[i - q.len]
    <3>1. i \in 1 .. Len(q.data) /\ ~(i <= q.len) /\ ~(i > q.len + Len(s))
      BY <1>1, <1>3
    <3>2. QED
      BY <2>1, <3>1
  <2>4. \A i \in 1 .. q.len : c[i] = q.data[i]
    BY <1>3 DEF c
  <2>5. QED
    BY <2>1, <2>2, <2>3, <2>4
<1> HIDE DEF e
<1>5. /\ r \in Seq(Cell) /\ Len(r) = q.len + Len(s)
      /\ \A i \in 1 .. q.len : r[i] = c[i]
      /\ \A i \in q.len + 1 .. q.len + Len(s) : r[i] = s[i - q.len]
  <2>1. c \in Seq(Cell) /\ Len(c) = q.len
    BY <1>3 DEF c
  <2>2. /\ r \in Seq(Cell) /\ Len(r) = Len(c) + Len(s)
        /\ \A i \in 1 .. Len(c) : r[i] = c[i]
        /\ \A i \in Len(c) + 1 .. Len(c) + Len(s) : r[i] = s[i - Len(c)]
    BY <2>1, Joined
  <2> HIDE DEF r
  <2>3. QED
    BY <2>1, <2>2
<1> HIDE DEF r
<1>6. ASSUME NEW i \in 1 .. q.len + Len(s)
      PROVE  e[i] = r[i]
  <2>1. CASE i <= q.len
    <3>1. i \in 1 .. q.len
      BY <2>1, <1>1, <1>3
    <3>2. QED
      BY <3>1, <1>4, <1>5
  <2>2. CASE i > q.len
    <3>1. i \in q.len + 1 .. q.len + Len(s)
      BY <2>2, <1>1, <1>3
    <3>2. QED
      BY <3>1, <1>4, <1>5
  <2>3. QED
    BY <1>1, <1>3, <2>1, <2>2
<1>7. q.len + Len(s) \in 0 .. Len(e)
  BY <1>1, <1>3, <1>4
<1>8. /\ [data |-> e, len |-> q.len + Len(s)] \in Packets(Cell)
      /\ Payload([data |-> e, len |-> q.len + Len(s)]) = r
  BY <1>4, <1>5, <1>6, <1>7, PayloadIs
<1>9. AddTail(p, s) = [data |-> e, len |-> q.len + Len(s)]
  BY DEF AddTail, q, e
<1>10. QED
  BY <1>2, <1>8, <1>9 DEF r, c

\* pkt_del_head removes exactly the first n cells.
THEOREM DelHeadRemoves ==
    ASSUME NEW Cell, NEW p \in Packets(Cell), NEW n \in 0 .. p.len
    PROVE  /\ DelHead(p, n) \in Packets(Cell)
           /\ Payload(DelHead(p, n)) = SubSeq(Payload(p), n + 1, p.len)
<1> DEFINE r == SubSeq(p.data, n + 1, p.len)
           u == SubSeq(Payload(p), n + 1, p.len)
           e == Stored(p.data, 0, r)
<1>1. /\ p.data \in Seq(Cell) /\ p.len \in Nat /\ p.len <= Len(p.data)
      /\ Len(p.data) \in Nat /\ Payload(p) \in Seq(Cell) /\ Len(Payload(p)) = p.len
      /\ \A i \in 1 .. p.len : Payload(p)[i] = p.data[i]
  BY PacketParts DEF Allocated
<1>2. /\ r \in Seq(Cell) /\ Len(r) = p.len - n
      /\ \A i \in 1 .. p.len - n : r[i] = p.data[n + i]
  BY <1>1, Suffix
<1>3. /\ u \in Seq(Cell) /\ Len(u) = p.len - n
      /\ \A i \in 1 .. p.len - n : u[i] = Payload(p)[n + i]
  BY <1>1, Suffix
<1> HIDE DEF r, u
<1>4. /\ e \in Seq(Cell) /\ Len(e) = Len(p.data)
      /\ \A i \in 1 .. Len(p.data) : e[i] =
             IF i <= 0 \/ i > 0 + Len(r) THEN p.data[i] ELSE r[i - 0]
  BY <1>1, <1>2, StoredCells
<1> HIDE DEF e
<1>5. ASSUME NEW i \in 1 .. p.len - n
      PROVE  e[i] = u[i]
  <2>1. n + i \in 1 .. p.len /\ i \in 1 .. Len(p.data)
    BY <1>1
  <2>2. e[i] = r[i]
    BY <1>1, <1>2, <1>4, <2>1
  <2>3. r[i] = p.data[n + i] /\ u[i] = Payload(p)[n + i]
    BY <1>2, <1>3
  <2>4. Payload(p)[n + i] = p.data[n + i]
    BY <1>1, <2>1
  <2>5. QED
    BY <2>2, <2>3, <2>4
<1>6. p.len - n \in 0 .. Len(e)
  BY <1>1, <1>4
<1>7. /\ [data |-> e, len |-> p.len - n] \in Packets(Cell)
      /\ Payload([data |-> e, len |-> p.len - n]) = u
  BY <1>3, <1>4, <1>5, <1>6, PayloadIs
<1>8. DelHead(p, n) = [data |-> e, len |-> p.len - n]
  BY <1>1 DEF DelHead, r, e
<1>9. QED
  BY <1>7, <1>8 DEF u

\* Removing a header that was added gives back what the packet contained: a
\* protocol that strips what another put on sees that protocol's payload.
THEOREM AddThenDel ==
    ASSUME NEW Cell, Blank \in Cell, NEW p \in Packets(Cell), NEW s \in Seq(Cell)
    PROVE  Payload(DelHead(AddHead(p, s), Len(s))) = Payload(p)
<1> DEFINE a == AddHead(p, s)
           c == Payload(p)
           r == s \o c
           t == SubSeq(r, Len(s) + 1, Len(s) + p.len)
<1>1. p.len \in Nat /\ c \in Seq(Cell) /\ Len(c) = p.len
  BY PacketParts
<1>2. a \in Packets(Cell) /\ Payload(a) = r
  BY AddHeadPrepends
<1> HIDE DEF a, c
<1>3. /\ Len(s) \in Nat /\ r \in Seq(Cell) /\ Len(r) = Len(s) + p.len
      /\ \A i \in Len(s) + 1 .. Len(s) + p.len : r[i] = c[i - Len(s)]
  BY <1>1, Joined
<1> HIDE DEF r
<1>4. a.len = Len(s) + p.len /\ Len(s) \in 0 .. a.len
  <2>1. a.len = Len(Payload(a))
    BY <1>2, PacketParts
  <2>2. QED
    BY <1>1, <1>2, <1>3, <2>1
<1>5. Payload(DelHead(a, Len(s))) = t
  BY <1>2, <1>4, DelHeadRemoves
<1>6. /\ t \in Seq(Cell) /\ Len(t) = (Len(s) + p.len) - Len(s)
      /\ \A i \in 1 .. (Len(s) + p.len) - Len(s) : t[i] = r[Len(s) + i]
  <2>1. Len(s) \in 0 .. Len(r) /\ Len(s) + p.len \in Len(s) .. Len(r)
    BY <1>1, <1>3
  <2> DEFINE m == Len(s)
             n == Len(s) + p.len
  <2> HIDE DEF m, n
  <2>2. /\ SubSeq(r, m + 1, n) \in Seq(Cell)
        /\ Len(SubSeq(r, m + 1, n)) = n - m
        /\ \A i \in 1 .. n - m : SubSeq(r, m + 1, n)[i] = r[m + i]
    <3>1. r \in Seq(Cell) /\ m \in 0 .. Len(r) /\ n \in m .. Len(r)
      BY <1>3, <2>1 DEF m, n
    <3>2. QED
      BY <3>1, Suffix
  <2>3. QED
    BY <2>2 DEF m, n, t
<1> HIDE DEF t
<1>7. ASSUME NEW i \in 1 .. Len(t)
      PROVE  t[i] = c[i]
  <2> DEFINE j == Len(s) + i
  <2>1. /\ i \in 1 .. (Len(s) + p.len) - Len(s)
        /\ j \in Len(s) + 1 .. Len(s) + p.len /\ j - Len(s) = i
    BY <1>1, <1>3, <1>6
  <2>2. t[i] = r[j]
    BY <1>6, <2>1
  <2> HIDE DEF j
  <2>3. r[j] = c[i]
    BY <1>3, <2>1
  <2>4. QED
    BY <2>2, <2>3
<1>8. t = c
  BY <1>1, <1>3, <1>6, <1>7, SeqEqual
<1>9. QED
  BY <1>5, <1>8 DEF a, c

\* pkt_add, wherever its allocations fail, leaves a packet that contains what it
\* contained, or that with the header before it, or with both ends added: never a
\* part of a header, and never the trailer alone.
THEOREM AddedWraps ==
    ASSUME NEW Cell, Blank \in Cell, NEW p \in Packets(Cell),
           NEW h \in Seq(Cell), NEW t \in Seq(Cell), NEW r \in Added(p, h, t)
    PROVE  /\ r \in Packets(Cell)
           /\ Payload(r) \in {Payload(p), h \o Payload(p), (h \o Payload(p)) \o t}
<1> DEFINE q == Reserved(p, Allocated(p) + Len(h) + Len(t))
           a == AddHead(q, h)
           b == AddTail(a, t)
<1>1. Allocated(p) + Len(h) + Len(t) \in Nat
  <2>1. Len(h) \in Nat /\ Len(t) \in Nat
    BY LenProperties
  <2>2. Allocated(p) \in Nat
    BY PacketParts
  <2>3. QED
    BY <2>1, <2>2
<1>2. q \in Packets(Cell) /\ Payload(q) = Payload(p)
  BY <1>1, ReservedKeeps
<1>3. r \in {p, q, a, b}
  BY DEF Added
<1> HIDE DEF q
<1>4. a \in Packets(Cell) /\ Payload(a) = h \o Payload(p)
  BY <1>2, AddHeadPrepends
<1> HIDE DEF a
<1>5. b \in Packets(Cell) /\ Payload(b) = (h \o Payload(p)) \o t
  BY <1>4, AddTailAppends
<1> HIDE DEF b
<1>6. QED
  BY <1>2, <1>3, <1>4, <1>5

-----------------------------------------------------------------------------
(* Buffers of whole units of padding *)

\* A multiple of the padding leaves no remainder.
LEMMA MultipleOf ==
    ASSUME NEW m \in Nat \ {0}, NEW q \in Nat
    PROVE  (m * q) % m = 0
<1> DEFINE a == (m * q) % m
           b == (m * q) \div m
<1>1. m * q \in Nat
  OBVIOUS
<1>2. m * q = m * b + a /\ a \in 0 .. m - 1 /\ b \in Int
  BY <1>1, SMT
<1> HIDE DEF a, b
<1>3. m * (q - b) = a
  BY <1>2, SMT
<1>4. q - b \in Int
  BY <1>2
<1>5. q - b >= 1 => m * (q - b) >= m
  BY <1>4, SMT
<1>6. q - b <= -1 => m * (q - b) <= -m
  BY <1>4, SMT
<1>7. q - b = 0 => a = 0
  BY <1>2, <1>3, SMT
<1>8. QED
  BY <1>2, <1>3, <1>4, <1>5, <1>6, <1>7 DEF a

\* A padded size is a multiple of the padding.
LEMMA PaddedEven ==
    ASSUME NEW n \in Nat
    PROVE  Padded(n) % Padding = 0
<1> DEFINE r == n % Padding
           q == n \div Padding
<1>1. n = Padding * q + r /\ r \in 0 .. Padding - 1 /\ q \in Nat
  BY PktAssumption, SMT
<1> HIDE DEF r, q
<1>2. CASE r = 0
  BY <1>2 DEF Padded, r
<1>3. CASE r # 0
  <2>1. Padded(n) = n + Padding - r
    BY <1>3 DEF Padded, r
  <2>2. n + Padding - r = Padding * (q + 1)
    BY <1>1, PktAssumption, SMT
  <2>3. (Padding * (q + 1)) % Padding = 0
    BY <1>1, PktAssumption, MultipleOf
  <2>4. QED
    BY <2>1, <2>2, <2>3
<1>4. QED
  BY <1>2, <1>3

\* pkt_reserve and pkt_grow leave a buffer of a padded size.
LEMMA ReservedEven ==
    ASSUME NEW Cell, Blank \in Cell, NEW p \in Packets(Cell), NEW n \in Nat,
           Allocated(p) % Padding = 0
    PROVE  Allocated(Reserved(p, n)) % Padding = 0
<1> DEFINE b == Blanks(Padded(n) - p.len)
           d == Payload(p) \o b
<1>1. /\ p.len \in Nat /\ p.len <= Allocated(p) /\ Allocated(p) \in Nat
      /\ Payload(p) \in Seq(Cell) /\ Len(Payload(p)) = p.len
  BY PacketParts
<1>2. CASE ~(n > Allocated(p))
  BY <1>2 DEF Reserved
<1>3. CASE n > Allocated(p)
  <2>1. Padded(n) \in Nat /\ Padded(n) >= n
    BY PaddedAtLeast
  <2>2. Padded(n) - p.len \in Nat
    BY <1>1, <1>3, <2>1
  <2>3. b \in Seq(Cell) /\ Len(b) = Padded(n) - p.len
    BY <2>2, BlanksSeq
  <2>4. ~(n < Allocated(p))
    BY <1>1, <1>3
  <2>5. Reserved(p, n) = [p EXCEPT !.data = d]
    BY <1>3, <2>4 DEF Reserved, Grown, b
  <2> HIDE DEF b
  <2>6. Len(d) = p.len + (Padded(n) - p.len)
    <3>1. Len(d) = Len(Payload(p)) + Len(b)
      BY <1>1, <2>3, Joined
    <3> HIDE DEF d
    <3>2. QED
      BY <1>1, <2>3, <3>1
  <2> HIDE DEF d
  <2>7. p \in [data : Seq(Cell), len : Nat]
    BY DEF Packets
  <2>8. Allocated(Reserved(p, n)) = Len(d)
    BY <2>5, <2>7 DEF Allocated
  <2>9. Len(d) = Padded(n)
    BY <1>1, <2>1, <2>6
  <2>10. QED
    BY <2>8, <2>9, PaddedEven
<1>4. QED
  BY <1>2, <1>3

\* pkt_add_head keeps the size of a buffer a padded one.
LEMMA AddHeadEven ==
    ASSUME NEW Cell, Blank \in Cell, NEW p \in Packets(Cell), NEW s \in Seq(Cell),
           Allocated(p) % Padding = 0
    PROVE  Allocated(AddHead(p, s)) % Padding = 0
<1> DEFINE q == Reserved(p, Allocated(p) + Len(s))
           d == Stored(q.data, Len(s), Payload(q))
           e == Stored(d, 0, s)
<1>1. /\ Len(s) \in Nat /\ Allocated(p) \in Nat /\ p.len \in Nat
      /\ p.len <= Allocated(p) /\ Allocated(p) + Len(s) \in Nat
  <2>1. Len(s) \in Nat
    BY LenProperties
  <2>2. Allocated(p) \in Nat /\ p.len \in Nat /\ p.len <= Allocated(p)
    BY PacketParts
  <2>3. QED
    BY <2>1, <2>2
<1>2. /\ q \in Packets(Cell) /\ q.len = p.len /\ Allocated(q) % Padding = 0
      /\ Allocated(q) >= Allocated(p) + Len(s)
  BY <1>1, ReservedKeeps, ReservedEven
<1>3. Allocated(AddHead(p, s)) = Len(e)
  BY DEF AddHead, Allocated, q, d, e
<1> HIDE DEF q
<1>4. /\ q.data \in Seq(Cell) /\ Payload(q) \in Seq(Cell) /\ Len(Payload(q)) = q.len
      /\ Len(q.data) \in Nat /\ Len(q.data) >= q.len + Len(s) /\ q.len \in Nat
  BY <1>1, <1>2, PacketParts DEF Allocated
<1>5. d \in Seq(Cell) /\ Len(d) = Len(q.data)
  BY <1>1, <1>4, StoredCells
<1> HIDE DEF d
<1>6. Len(e) = Len(d)
  BY <1>1, <1>4, <1>5, StoredCells
<1>7. QED
  BY <1>2, <1>3, <1>5, <1>6 DEF Allocated

\* pkt_del_head does not touch the size of a buffer.
LEMMA DelHeadSize ==
    ASSUME NEW Cell, NEW p \in Packets(Cell), NEW n \in 0 .. p.len
    PROVE  DelHead(p, n).len = p.len - n /\ Allocated(DelHead(p, n)) = Allocated(p)
<1> DEFINE r == SubSeq(p.data, n + 1, p.len)
<1>1. /\ p.data \in Seq(Cell) /\ p.len \in Nat /\ p.len <= Len(p.data)
      /\ Len(p.data) \in Nat
  BY PacketParts DEF Allocated
<1>2. r \in Seq(Cell) /\ Len(r) = p.len - n
  BY <1>1, Suffix
<1>3. DelHead(p, n) = [data |-> Stored(p.data, 0, r), len |-> p.len - n]
  BY <1>1 DEF DelHead
<1> HIDE DEF r
<1>4. Len(Stored(p.data, 0, r)) = Len(p.data)
  BY <1>1, <1>2, StoredCells
<1>5. QED
  BY <1>3, <1>4 DEF Allocated

\* What pkt_alloc returns, once its caller filled it
LEMMA NewPktHolds ==
    ASSUME NEW Cell, Blank \in Cell, NEW s \in Seq(Cell), NEW n \in Nat, Len(s) <= n
    PROVE  /\ Filled(NewPkt(n), s) \in Packets(Cell)
           /\ Filled(NewPkt(n), s).len = Len(s)
           /\ Payload(Filled(NewPkt(n), s)) = s
           /\ Allocated(Filled(NewPkt(n), s)) % Padding = 0
<1> DEFINE b == Blanks(Padded(n))
           e == Stored(b, 0, s)
<1>1. /\ Len(s) \in Nat /\ Padded(n) \in Nat /\ Padded(n) >= n
      /\ Padded(n) % Padding = 0
  BY LenProperties, PaddedAtLeast, PaddedEven
<1>2. Filled(NewPkt(n), s) = [data |-> e, len |-> Len(s)]
  BY DEF Filled, NewPkt, b, e
<1>3. b \in Seq(Cell) /\ Len(b) = Padded(n)
  BY <1>1, BlanksSeq
<1> HIDE DEF b
<1>4. /\ e \in Seq(Cell) /\ Len(e) = Len(b)
      /\ \A i \in 1 .. Len(b) : e[i] = IF i <= 0 \/ i > 0 + Len(s) THEN b[i] ELSE s[i - 0]
  BY <1>1, <1>3, StoredCells
<1> HIDE DEF e
<1>5. ASSUME NEW i \in 1 .. Len(s)
      PROVE  e[i] = s[i]
  BY <1>1, <1>3, <1>4
<1>6. Len(s) \in 0 .. Len(e)
  BY <1>1, <1>3, <1>4
<1>7. /\ [data |-> e, len |-> Len(s)] \in Packets(Cell)
      /\ Payload([data |-> e, len |-> Len(s)]) = s
  BY <1>4, <1>5, <1>6, PayloadIs
<1>8. Allocated([data |-> e, len |-> Len(s)]) = Padded(n)
  BY <1>3, <1>4 DEF Allocated
<1>9. QED
  BY <1>1, <1>2, <1>7, <1>8

-----------------------------------------------------------------------------
(* The checksum. Leaves name SMT: the other prover counts numerals in unary. *)

\* Quotient and remainder by 2^16
LEMMA DivMod16 ==
    ASSUME NEW x \in Nat
    PROVE  /\ x = 65536 * (x \div 65536) + (x % 65536)
           /\ x % 65536 \in Nat /\ x % 65536 < 65536 /\ x \div 65536 \in Nat
BY SMT

\* What a sum of two halves must be for its lower half to be all ones
LEMMA LowHalfOnes ==
    ASSUME NEW x \in Nat, x <= 131069
    PROVE  x % 65536 = 65535 <=> x = 65535
BY SMTT(20)

\* ... and for it to be zero in one's complement
LEMMA ZeroInOnes ==
    ASSUME NEW x \in Nat, x <= 131069
    PROVE  x % 65535 = 0 <=> (x = 0 \/ x = 65535)
BY SMTT(20)

LEMMA CarryAround ==
    ASSUME NEW hi \in Nat, NEW x \in Nat
    PROVE  (65535 * hi + x) % 65535 = x % 65535
BY SMTT(20)

\* The test "sum != 0xffff" of en_ip_input and en_icmp_input is exact for every
\* packet of up to 65535 words: it accepts just the buffers whose words add up to
\* zero in one's complement, although ocksum16 adds the carry only once.
THEOREM ChecksumTestExact ==
    ASSUME NEW sum \in Nat, sum <= 65535 * 65535
    PROVE  Ocksum16(sum) = 65535 <=> (sum # 0 /\ sum % 65535 = 0)
<1> DEFINE lo == sum % 65536
           hi == sum \div 65536
<1>1. sum = 65536 * hi + lo /\ lo \in Nat /\ lo < 65536 /\ hi \in Nat
  BY DivMod16, SMT DEF lo, hi
<1>2. Ocksum16(sum) = (lo + hi) % 65536
  BY SMT DEF Ocksum16, lo, hi
<1> HIDE DEF lo, hi
<1>3. hi <= 65534
  BY <1>1, SMT
<1>4. lo + hi \in Nat /\ lo + hi <= 131069 /\ sum = 65535 * hi + (lo + hi)
  BY <1>1, <1>3, SMT
<1>5. (lo + hi) % 65536 = 65535 <=> lo + hi = 65535
  BY <1>4, LowHalfOnes, SMT
<1>6. sum % 65535 = (lo + hi) % 65535
  BY <1>1, <1>4, CarryAround, SMT
<1>7. (lo + hi) % 65535 = 0 <=> (lo + hi = 0 \/ lo + hi = 65535)
  BY <1>4, ZeroInOnes, SMT
<1>8. sum = 0 <=> lo + hi = 0
  BY <1>1, SMT
<1>9. (sum # 0 /\ sum % 65535 = 0) <=> lo + hi = 65535
  BY <1>1, <1>6, <1>7, <1>8, SMT
<1>10. QED
  BY <1>2, <1>5, <1>9, SMT
=============================================================================
