------------------------------ MODULE NetProofs ------------------------------
(***************************************************************************)
(* Theorems about Net, for any number of packets, any padding and any set  *)
(* of frames that NetAssumption admits. NoPacket says that NULL can be     *)
(* told from a packet, which TLC's model values do by themselves.          *)
(***************************************************************************)
EXTENDS Net, PktProofs, WellFoundedInduction

NoPacket == \A C : NULL \notin Packets(C)

-----------------------------------------------------------------------------
(* Queues *)

\* A queue in front of whose head x was linked
LEMMA Linked ==
    ASSUME NEW S, NEW s \in Seq(S), NEW x \in S
    PROVE  /\ <<x>> \o s \in Seq(S)
           /\ Len(<<x>> \o s) = Len(s) + 1
           /\ (<<x>> \o s)[1] = x
           /\ \A i \in 1 .. Len(s) : (<<x>> \o s)[i + 1] = s[i]
           /\ ToSet(<<x>> \o s) = {x} \union ToSet(s)
           /\ IsInjective(s) /\ x \notin ToSet(s) => IsInjective(<<x>> \o s)
<1> DEFINE t == <<x>> \o s
<1>1. <<x>> \in Seq(S) /\ Len(<<x>>) = 1 /\ <<x>>[1] = x /\ Len(s) \in Nat
  BY LenProperties
<1>2. /\ t \in Seq(S) /\ Len(t) = 1 + Len(s)
      /\ \A i \in 1 .. 1 + Len(s) : t[i] = IF i <= 1 THEN <<x>>[i] ELSE s[i - 1]
  BY <1>1, ConcatProperties
<1> HIDE DEF t
<1>3. DOMAIN t = 1 .. Len(s) + 1 /\ DOMAIN s = 1 .. Len(s)
  BY <1>1, <1>2, LenProperties
<1>4. t[1] = x
  BY <1>1, <1>2
<1>5. ASSUME NEW i \in 1 .. Len(s)
      PROVE  t[i + 1] = s[i]
  <2>1. i + 1 \in 1 .. 1 + Len(s) /\ ~(i + 1 <= 1) /\ (i + 1) - 1 = i
    BY <1>1
  <2>2. QED
    BY <1>2, <2>1
<1>6. \A i \in 1 .. Len(s) + 1 : i = 1 \/ \E j \in 1 .. Len(s) : i = j + 1
  <2>1. TAKE i \in 1 .. Len(s) + 1
  <2>2. i = 1 \/ (i - 1 \in 1 .. Len(s) /\ i = (i - 1) + 1)
    BY <1>1
  <2>3. QED
    BY <2>2
<1>7. \A j \in 1 .. Len(s) : j + 1 \in 1 .. Len(s) + 1
  BY <1>1
<1>8. 1 \in 1 .. Len(s) + 1
  BY <1>1
<1>9. ToSet(t) = {x} \union ToSet(s)
  BY <1>3, <1>4, <1>5, <1>6, <1>7, <1>8 DEF ToSet
<1>10. ASSUME IsInjective(s), x \notin ToSet(s)
       PROVE  IsInjective(t)
  <2>1. SUFFICES ASSUME NEW i \in 1 .. Len(s) + 1, NEW j \in 1 .. Len(s) + 1, t[i] = t[j]
                 PROVE  i = j
    BY <1>3 DEF IsInjective
  <2>2. ASSUME NEW k \in 1 .. Len(s) PROVE s[k] # x
    BY <1>3, <1>10 DEF ToSet
  <2>3. \A k, l \in 1 .. Len(s) : s[k] = s[l] => k = l
    BY <1>3, <1>10 DEF IsInjective
  <2>4. QED
    BY <1>4, <1>5, <1>6, <2>1, <2>2, <2>3
<1>11. QED
  BY <1>1, <1>2, <1>4, <1>5, <1>9, <1>10 DEF t

\* A queue whose head was taken
LEMMA Unlinked ==
    ASSUME NEW S, NEW s \in Seq(S), s # <<>>
    PROVE  /\ Head(s) \in S /\ Tail(s) \in Seq(S)
           /\ ToSet(s) = {Head(s)} \union ToSet(Tail(s))
           /\ IsInjective(s) => Head(s) \notin ToSet(Tail(s)) /\ IsInjective(Tail(s))
<1> DEFINE t == Tail(s)
<1>1. /\ Head(s) \in S /\ t \in Seq(S) /\ Len(s) \in Nat /\ Len(s) >= 1
      /\ Head(s) = s[1] /\ Len(t) = Len(s) - 1
      /\ \A i \in 1 .. Len(s) - 1 : t[i] = s[i + 1]
  <2>1. Head(s) \in S /\ t \in Seq(S) /\ Len(s) \in Nat /\ Len(t) = Len(s) - 1
    BY HeadTailProperties, LenProperties
  <2>2. Len(s) # 0
    BY EmptySeq
  <2>3. \A i \in 1 .. Len(t) : t[i] = s[i + 1]
    BY HeadTailProperties
  <2> HIDE DEF t
  <2>4. QED
    BY <2>1, <2>2, <2>3
<1> HIDE DEF t
<1>2. DOMAIN s = 1 .. Len(s) /\ DOMAIN t = 1 .. Len(s) - 1
  BY <1>1, LenProperties
<1>3. \A i \in 1 .. Len(s) : i = 1 \/ \E j \in 1 .. Len(s) - 1 : i = j + 1
  <2>1. TAKE i \in 1 .. Len(s)
  <2>2. i = 1 \/ (i - 1 \in 1 .. Len(s) - 1 /\ i = (i - 1) + 1)
    BY <1>1
  <2>3. QED
    BY <2>2
<1>4. \A j \in 1 .. Len(s) - 1 : j + 1 \in 1 .. Len(s) /\ j + 1 # 1
  BY <1>1
<1>5. 1 \in 1 .. Len(s)
  BY <1>1
<1>6. ToSet(s) = {Head(s)} \union ToSet(t)
  <2>1. ASSUME NEW i \in 1 .. Len(s)
        PROVE  s[i] \in {Head(s)} \union ToSet(t)
    <3>1. CASE i = 1
      BY <1>1, <3>1
    <3>2. CASE \E j \in 1 .. Len(s) - 1 : i = j + 1
      BY <1>1, <1>2, <3>2 DEF ToSet
    <3>3. QED
      BY <1>3, <3>1, <3>2
  <2>2. ASSUME NEW j \in 1 .. Len(s) - 1
        PROVE  t[j] \in ToSet(s)
    BY <1>1, <1>2, <1>4 DEF ToSet
  <2>3. Head(s) \in ToSet(s)
    BY <1>1, <1>2, <1>5 DEF ToSet
  <2>4. QED
    BY <1>2, <2>1, <2>2, <2>3 DEF ToSet
<1>7. ASSUME IsInjective(s)
      PROVE  Head(s) \notin ToSet(t) /\ IsInjective(t)
  <2>1. \A k, l \in 1 .. Len(s) : s[k] = s[l] => k = l
    BY <1>2, <1>7 DEF IsInjective
  <2>2. Head(s) \notin ToSet(t)
    BY <1>1, <1>2, <1>4, <1>5, <2>1 DEF ToSet
  <2>3. SUFFICES ASSUME NEW i \in 1 .. Len(s) - 1, NEW j \in 1 .. Len(s) - 1, t[i] = t[j]
                 PROVE  i = j
    BY <1>2, <2>2 DEF IsInjective
  <2>4. s[i + 1] = s[j + 1]
    BY <1>1, <2>3
  <2>5. i + 1 = j + 1
    BY <1>4, <2>1, <2>4
  <2>6. QED
    BY <2>5
<1>8. QED
  BY <1>1, <1>6, <1>7 DEF t

-----------------------------------------------------------------------------
(* The ARP cache *)

\* Every entry has a hardware address.
Resolved(c) == \A i \in DOMAIN c : c[i].hrd # NULL

\* The entry nearest to the head is what a lookup finds.
LEMMA LookupIs ==
    ASSUME NEW C, NEW c \in Seq(C), NEW addr, NEW i \in 1 .. Len(c), c[i].proto = addr,
           \A j \in 1 .. Len(c) : c[j].proto = addr => i <= j
    PROVE  CacheLookup(c, addr) = c[i].hrd
<1> DEFINE hits == {j \in DOMAIN c : c[j].proto = addr}
           k == CHOOSE m \in hits : \A j \in hits : m <= j
<1>1. Len(c) \in Nat /\ DOMAIN c = 1 .. Len(c)
  BY LenProperties
<1>2. i \in hits /\ \A j \in hits : i <= j
  BY <1>1
<1>3. hits \subseteq Nat
  BY <1>1
<1>4. CacheLookup(c, addr) = c[k].hrd
  BY <1>2 DEF CacheLookup
<1> HIDE DEF hits
<1>5. k \in hits /\ \A j \in hits : k <= j
  BY <1>2
<1> HIDE DEF k
<1>6. k = i
  BY <1>2, <1>3, <1>5
<1>7. QED
  BY <1>4, <1>6

\* Where there is an entry, there is one nearest to the head.
LEMMA LookupFirst ==
    ASSUME NEW C, NEW c \in Seq(C), NEW addr, NEW h \in 1 .. Len(c), c[h].proto = addr
    PROVE  \E i \in 1 .. Len(c) :
               c[i].proto = addr /\ \A j \in 1 .. Len(c) : c[j].proto = addr => i <= j
<1> DEFINE Less == {ss \in Nat \X Nat : ss[1] < ss[2]}
           hits == {j \in 1 .. Len(c) : c[j].proto = addr}
<1>1. Len(c) \in Nat
  BY LenProperties
<1>2. hits \subseteq Nat /\ hits # {}
  BY <1>1
<1>3. IsWellFoundedOn(Less, Nat)
  <2>1. OpToRel(<, Nat) = Less
    BY Zenon DEF OpToRel
  <2>2. QED
    BY <2>1, NatLessThanWellFounded, Zenon
<1>4. PICK i \in hits : \A j \in hits : <<j, i>> \notin Less
  <2> HIDE DEF Less, hits
  <2>1. QED
    BY <1>2, <1>3, WFMin, Zenon
<1>5. ASSUME NEW j \in hits
      PROVE  i <= j
  <2>1. i \in Nat /\ j \in Nat
    BY <1>2
  <2>2. j < i => <<j, i>> \in Less
    BY <2>1
  <2>3. ~(j < i)
    BY <1>4, <2>2
  <2>4. QED
    BY <2>1, <2>3
<1>6. QED
  BY <1>5

\* An address that is known is found.
LEMMA LookupFinds ==
    ASSUME NEW C, NEW c \in Seq(C), Resolved(c), NEW h \in 1 .. Len(c)
    PROVE  CacheLookup(c, c[h].proto) # NULL
<1>1. PICK i \in 1 .. Len(c) :
          /\ c[i].proto = c[h].proto
          /\ \A j \in 1 .. Len(c) : c[j].proto = c[h].proto => i <= j
  BY LookupFirst
<1>2. CacheLookup(c, c[h].proto) = c[i].hrd
  BY <1>1, LookupIs
<1>3. i \in DOMAIN c
  BY LenProperties
<1>4. QED
  BY <1>2, <1>3 DEF Resolved

\* What is found is in the cache.
LEMMA LookupHit ==
    ASSUME NEW C, NEW c \in Seq(C), NEW addr, CacheLookup(c, addr) # NULL
    PROVE  \E h \in 1 .. Len(c) : c[h].proto = addr
BY LenProperties DEF CacheLookup

\* A new address in front leaves what was known.
LEMMA CacheEntered ==
    ASSUME NEW C, NEW c \in Seq(C), NEW e \in C, Resolved(c), e.hrd # NULL,
           CacheLookup(c, e.proto) = NULL
    PROVE  /\ Resolved(<<e>> \o c)
           /\ \A addr : CacheLookup(c, addr) # NULL =>
                  CacheLookup(<<e>> \o c, addr) = CacheLookup(c, addr)
<1> DEFINE d == <<e>> \o c
<1>1. /\ d \in Seq(C) /\ Len(d) = Len(c) + 1 /\ d[1] = e
      /\ \A i \in 1 .. Len(c) : d[i + 1] = c[i]
  BY Linked
<1> HIDE DEF d
<1>2. /\ Len(c) \in Nat /\ DOMAIN c = 1 .. Len(c) /\ DOMAIN d = 1 .. Len(c) + 1
  BY <1>1, LenProperties
<1>3. ASSUME NEW i \in 1 .. Len(c) + 1
      PROVE  i = 1 \/ (i - 1 \in 1 .. Len(c) /\ d[i] = c[i - 1])
  <2>1. i = 1 \/ (i - 1 \in 1 .. Len(c) /\ (i - 1) + 1 = i)
    BY <1>2
  <2>2. QED
    BY <1>1, <2>1
<1>4. Resolved(d)
  BY <1>1, <1>2, <1>3 DEF Resolved
<1>5. ASSUME NEW addr, CacheLookup(c, addr) # NULL
      PROVE  CacheLookup(d, addr) = CacheLookup(c, addr)
  <2>1. PICK h \in 1 .. Len(c) : c[h].proto = addr
    BY <1>5, LookupHit
  <2>2. PICK i \in 1 .. Len(c) :
            c[i].proto = addr /\ \A j \in 1 .. Len(c) : c[j].proto = addr => i <= j
    BY <2>1, LookupFirst
  <2>3. CacheLookup(c, addr) = c[i].hrd
    BY <2>2, LookupIs
  <2>4. e.proto # addr
    BY <1>5
  <2>5. i + 1 \in 1 .. Len(d) /\ d[i + 1] = c[i]
    BY <1>1, <1>2
  <2>6. ASSUME NEW j \in 1 .. Len(d), d[j].proto = addr
        PROVE  i + 1 <= j
    <3>1. j # 1
      BY <1>1, <2>4, <2>6
    <3>2. j - 1 \in 1 .. Len(c) /\ d[j] = c[j - 1]
      BY <1>1, <1>3, <3>1
    <3>3. i <= j - 1
      BY <2>2, <2>6, <3>2
    <3>4. QED
      BY <1>2, <3>2, <3>3
  <2>7. CacheLookup(d, addr) = d[i + 1].hrd
    <3> DEFINE k == i + 1
    <3>1. /\ k \in 1 .. Len(d) /\ d[k].proto = addr
          /\ \A j \in 1 .. Len(d) : d[j].proto = addr => k <= j
      BY <2>2, <2>5, <2>6
    <3> HIDE DEF k
    <3>2. CacheLookup(d, addr) = d[k].hrd
      BY <1>1, <3>1, LookupIs
    <3>3. QED
      BY <3>2 DEF k
  <2>8. QED
    BY <2>3, <2>5, <2>7
<1>6. QED
  BY <1>4, <1>5 DEF d

-----------------------------------------------------------------------------
(* Frames and what the handlers make of them *)

\* A packet in a buffer of whole units
Buffer(x) ==
    /\ \E C : Blank \in C /\ x \in Packets(C)
    /\ Allocated(x) % Padding = 0

\* The packet the driver makes of a frame, and its body
Received(f) == Filled(NewPkt(Len(f)), f)
Stripped(f) == DelHead(Received(f), 1)
Cells(f) == {Blank} \union ToSet(f)

LEMMA FrameSeq ==
    ASSUME NEW f \in Frames
    PROVE  f \in Seq(Cells(f)) /\ Len(f) \in Nat /\ Len(f) >= 2
<1> DEFINE n == Len(f)
<1>1. f = [i \in 1 .. n |-> f[i]] /\ n \in Nat /\ n >= 2
  BY NetAssumption DEF n
<1> HIDE DEF n
<1>2. DOMAIN f = 1 .. n
  BY <1>1, Zenon
<1>3. \A i \in 1 .. n : f[i] \in Cells(f)
  BY <1>2 DEF Cells, ToSet
<1>4. [i \in 1 .. n |-> f[i]] \in [1 .. n -> Cells(f)]
  BY <1>3, Zenon
<1>5. f \in [1 .. n -> Cells(f)]
  BY <1>1, <1>4, Zenon
<1>6. f \in Seq(Cells(f))
  BY <1>1, <1>5, SeqDef, Zenon
<1>7. QED
  BY <1>1, <1>6 DEF n

\* A packet as it was received: its first cell, and the cells behind it
LEMMA ReceivedParts ==
    ASSUME NEW f \in Frames
    PROVE  /\ Received(f) \in Packets(Cells(f)) /\ Buffer(Received(f))
           /\ Received(f).data[1] = f[1]
           /\ Stripped(f) \in Packets(Cells(f)) /\ Buffer(Stripped(f))
           /\ Stripped(f).len = Len(f) - 1
           /\ \A i \in 1 .. Len(f) - 1 : Stripped(f).data[i] = f[i + 1]
<1> DEFINE C == Cells(f)
           r == Received(f)
           b == Stripped(f)
<1>1. f \in Seq(C) /\ Len(f) \in Nat /\ Len(f) >= 2 /\ Blank \in C
  BY FrameSeq DEF Cells
<1> HIDE DEF C
<1>2. /\ r \in Packets(C) /\ r.len = Len(f) /\ Payload(r) = f
      /\ Allocated(r) % Padding = 0
  <2>1. Len(f) <= Len(f)
    BY <1>1
  <2>2. QED
    BY <1>1, <2>1, NewPktHolds DEF Received
<1> HIDE DEF r
<1>3. 1 \in 0 .. r.len
  BY <1>1, <1>2
<1>4. b = DelHead(r, 1)
  BY DEF b, Stripped, r
<1> HIDE DEF b
<1>5. /\ b \in Packets(C) /\ Payload(b) = SubSeq(f, 1 + 1, Len(f))
      /\ b.len = Len(f) - 1 /\ Allocated(b) = Allocated(r)
  BY <1>2, <1>3, <1>4, DelHeadRemoves, DelHeadSize
<1>6. \A i \in 1 .. r.len : Payload(r)[i] = r.data[i]
  BY <1>2, PacketParts
<1>7. r.data[1] = f[1]
  BY <1>1, <1>2, <1>6
<1>8. \A i \in 1 .. b.len : Payload(b)[i] = b.data[i]
  BY <1>5, PacketParts
<1>9. \A i \in 1 .. Len(f) - 1 : SubSeq(f, 1 + 1, Len(f))[i] = f[1 + i]
  <2>1. 1 \in 0 .. Len(f) /\ Len(f) \in 1 .. Len(f)
    BY <1>1
  <2>2. QED
    BY <1>1, <2>1, Suffix
<1>10. \A i \in 1 .. Len(f) - 1 : b.data[i] = f[i + 1]
  BY <1>1, <1>5, <1>8, <1>9
<1>11. Buffer(r) /\ Buffer(b)
  BY <1>1, <1>2, <1>5 DEF Buffer
<1>12. QED
  BY <1>2, <1>5, <1>7, <1>10, <1>11 DEF C, r, b

\* A header in front of a packet
LEMMA HeadPut ==
    ASSUME NEW b, Buffer(b), NEW h
    PROVE  /\ Buffer(AddHead(b, <<h>>))
           /\ b.len \in Nat /\ AddHead(b, <<h>>).len = b.len + 1
           /\ Len(Payload(AddHead(b, <<h>>))) = b.len + 1
           /\ Payload(AddHead(b, <<h>>))[1] = h
           /\ \A i \in 1 .. b.len : Payload(AddHead(b, <<h>>))[i + 1] = b.data[i]
<1>1. PICK C : Blank \in C /\ b \in Packets(C)
  BY DEF Buffer
<1> DEFINE D == C \union {h}
           a == AddHead(b, <<h>>)
           c == Payload(b)
<1>2. Blank \in D /\ b \in Packets(D) /\ <<h>> \in Seq(D) /\ h \in D
  <2>1. b.data \in Seq(C) /\ b.len \in Nat /\ b.len <= Len(b.data)
        /\ b = [data |-> b.data, len |-> b.len]
    BY <1>1 DEF Packets
  <2>2. b.data \in Seq(D)
    BY <2>1, SeqDef
  <2>3. b \in Packets(D)
    BY <2>1, <2>2 DEF Packets
  <2>4. QED
    BY <1>1, <2>3
<1> HIDE DEF D
<1>3. a \in Packets(D) /\ Payload(a) = <<h>> \o c /\ Allocated(a) % Padding = 0
  BY <1>2, AddHeadPrepends, AddHeadEven DEF Buffer
<1>4. /\ b.len \in Nat /\ c \in Seq(D) /\ Len(c) = b.len
      /\ \A i \in 1 .. b.len : c[i] = b.data[i]
  BY <1>2, PacketParts
<1>5. Len(Payload(a)) = a.len
  BY <1>3, PacketParts
<1> HIDE DEF a, c
<1>6. /\ Len(<<h>> \o c) = Len(c) + 1 /\ (<<h>> \o c)[1] = h
      /\ \A i \in 1 .. Len(c) : (<<h>> \o c)[i + 1] = c[i]
  BY <1>2, <1>4, Linked
<1>7. Buffer(a)
  BY <1>2, <1>3 DEF Buffer
<1>8. QED
  BY <1>3, <1>4, <1>5, <1>6, <1>7 DEF a

\* One cell of a packet overwritten
LEMMA CellStored ==
    ASSUME NEW b, Buffer(b), NEW at \in Nat, at < b.len, NEW c
    PROVE  LET r == [b EXCEPT !.data = Stored(b.data, at, <<c>>)]
           IN  /\ Buffer(r) /\ r.len = b.len /\ r.data[at + 1] = c
               /\ \A i \in 1 .. b.len : i # at + 1 => r.data[i] = b.data[i]
<1>1. PICK C : Blank \in C /\ b \in Packets(C)
  BY DEF Buffer
<1> DEFINE D == C \union {c}
           e == Stored(b.data, at, <<c>>)
<1>2. /\ b.data \in Seq(C) /\ b.len \in Nat /\ b.len <= Len(b.data)
      /\ b \in [data : Seq(C), len : Nat]
  BY <1>1 DEF Packets
<1>3. /\ Blank \in D /\ b.data \in Seq(D) /\ <<c>> \in Seq(D) /\ Len(<<c>>) = 1
      /\ <<c>>[1] = c /\ Len(b.data) \in Nat
  BY <1>1, <1>2, SeqDef, LenProperties
<1> HIDE DEF D
<1>4. /\ e \in Seq(D) /\ Len(e) = Len(b.data)
      /\ \A i \in 1 .. Len(b.data) : e[i] =
             IF i <= at \/ i > at + 1 THEN b.data[i] ELSE <<c>>[i - at]
  <2> DEFINE s == <<c>>
             d == b.data
             x == Stored(d, at, s)
  <2>1. at + Len(s) <= Len(d) /\ s \in Seq(D) /\ d \in Seq(D)
    BY <1>2, <1>3
  <2>2. Len(s) = 1
    BY <1>3
  <2> HIDE DEF s, d
  <2>3. /\ x \in Seq(D) /\ Len(x) = Len(d)
        /\ \A i \in 1 .. Len(d) : x[i] =
               IF i <= at \/ i > at + Len(s) THEN d[i] ELSE s[i - at]
    BY <2>1, StoredCells
  <2>4. e = x
    BY DEF s, d, x, e
  <2> HIDE DEF e, x
  <2>5. \A i \in 1 .. Len(d) : x[i] =
            IF i <= at \/ i > at + 1 THEN d[i] ELSE s[i - at]
    BY <2>2, <2>3
  <2>6. QED
    BY <2>3, <2>4, <2>5 DEF s, d
<1>5. e[at + 1] = c
  <2>1. at + 1 \in 1 .. Len(b.data) /\ ~(at + 1 <= at) /\ ~(at + 1 > at + 1)
        /\ (at + 1) - at = 1
    BY <1>2, <1>3
  <2>2. QED
    BY <1>3, <1>4, <2>1
<1>6. ASSUME NEW i \in 1 .. b.len, i # at + 1
      PROVE  e[i] = b.data[i]
  <2>1. i \in 1 .. Len(b.data) /\ (i <= at \/ i > at + 1)
    BY <1>2, <1>3, <1>6
  <2>2. QED
    BY <1>4, <2>1
<1> HIDE DEF e
<1>7. [b EXCEPT !.data = e] = [data |-> e, len |-> b.len]
  BY <1>2
<1>8. [data |-> e, len |-> b.len] \in Packets(D)
  BY <1>2, <1>4 DEF Packets
<1>9. Buffer([data |-> e, len |-> b.len])
  <2>1. Allocated([data |-> e, len |-> b.len]) % Padding = 0
    BY <1>4 DEF Allocated, Buffer
  <2>2. QED
    BY <1>3, <1>8, <2>1 DEF Buffer
<1>10. QED
  BY <1>5, <1>6, <1>7, <1>9 DEF e

\* A packet without its first cell
LEMMA HeadCut ==
    ASSUME NEW b, Buffer(b), b.len >= 1
    PROVE  /\ Buffer(DelHead(b, 1))
           /\ b.len \in Nat /\ DelHead(b, 1).len = b.len - 1
           /\ \A i \in 1 .. b.len - 1 : DelHead(b, 1).data[i] = b.data[i + 1]
<1>1. PICK C : Blank \in C /\ b \in Packets(C)
  BY DEF Buffer
<1> DEFINE r == DelHead(b, 1)
           c == Payload(b)
<1>2. /\ b.len \in Nat /\ c \in Seq(C) /\ Len(c) = b.len
      /\ \A i \in 1 .. b.len : c[i] = b.data[i]
  BY <1>1, PacketParts
<1>3. 1 \in 0 .. b.len /\ 1 \in 0 .. Len(c) /\ b.len \in 1 .. Len(c)
  BY <1>2
<1>4. /\ r \in Packets(C) /\ Payload(r) = SubSeq(c, 1 + 1, b.len)
      /\ r.len = b.len - 1 /\ Allocated(r) = Allocated(b)
  BY <1>1, <1>3, DelHeadRemoves, DelHeadSize
<1> HIDE DEF r, c
<1>5. \A i \in 1 .. b.len - 1 : SubSeq(c, 1 + 1, b.len)[i] = c[1 + i]
  BY <1>2, <1>3, Suffix
<1>6. \A i \in 1 .. r.len : Payload(r)[i] = r.data[i]
  BY <1>4, PacketParts
<1>7. ASSUME NEW i \in 1 .. b.len - 1
      PROVE  r.data[i] = b.data[i + 1]
  <2>1. i \in 1 .. r.len /\ i + 1 \in 1 .. b.len /\ 1 + i = i + 1
    BY <1>2, <1>4
  <2>2. QED
    BY <1>2, <1>4, <1>5, <1>6, <2>1
<1>8. Buffer(r)
  BY <1>1, <1>4 DEF Buffer
<1>9. QED
  BY <1>2, <1>4, <1>7, <1>8 DEF r

\* A packet that was made shorter
LEMMA Shortened ==
    ASSUME NEW b, Buffer(b), NEW n \in Nat, n <= b.len
    PROVE  /\ Buffer([b EXCEPT !.len = n])
           /\ [b EXCEPT !.len = n].len = n /\ [b EXCEPT !.len = n].data = b.data
<1>1. PICK C : Blank \in C /\ b \in Packets(C)
  BY DEF Buffer
<1> DEFINE d == b.data
<1>2. /\ d \in Seq(C) /\ b.len \in Nat /\ b.len <= Len(d) /\ Len(d) \in Nat
      /\ b \in [data : Seq(C), len : Nat]
  BY <1>1, LenProperties DEF Packets
<1>3. [b EXCEPT !.len = n] = [data |-> d, len |-> n]
  BY <1>2
<1>4. Len(d) % Padding = 0
  BY DEF Buffer, Allocated
<1> HIDE DEF d
<1>5. [data |-> d, len |-> n] \in Packets(C)
  BY <1>2 DEF Packets
<1>6. Buffer([data |-> d, len |-> n])
  <2>1. Allocated([data |-> d, len |-> n]) = Len(d)
    BY DEF Allocated
  <2>2. QED
    BY <1>1, <1>4, <1>5, <2>1 DEF Buffer
<1>7. QED
  BY <1>3, <1>6 DEF d

\* What en_ip_input makes of the body of an IP frame: a length taken from the
\* header is no longer than the body, and is not reconsidered.
LEMMA TrimmedParts ==
    ASSUME NEW f \in Frames, f[1].type = "ip"
    PROVE  LET b == Stripped(f)
               t == IpTrimmed(b)
           IN  /\ Buffer(t) /\ t.data = b.data
               /\ t.len \in Nat /\ t.len <= b.len
               /\ IpValid(b) => t.len = f[2].len /\ f[2].ihl >= 1
               /\ IpValid(t) => IpValid(b)
<1> DEFINE b == Stripped(f)
           h == b.data[1]
<1>1. Len(f) \in Nat /\ Len(f) >= 2 /\ IpShaped(f)
  BY FrameSeq, NetAssumption
<1>2. Buffer(b) /\ b.len = Len(f) - 1 /\ \A i \in 1 .. Len(f) - 1 : b.data[i] = f[i + 1]
  BY ReceivedParts
<1> HIDE DEF b
<1>3. h = f[2]
  <2>1. 1 \in 1 .. Len(f) - 1 /\ 1 + 1 = 2
    BY <1>1
  <2>2. QED
    BY <1>2, <2>1
<1>4. h.len \in Nat /\ h.ihl \in Nat /\ b.len \in Nat
  BY <1>1, <1>2, <1>3 DEF IpShaped
<1>5. CASE IpSound(b) /\ b.len = MinBody /\ h.len < MinBody
  <2> DEFINE n == h.len
             t == [b EXCEPT !.len = n]
  <2>1. n \in Nat /\ n <= b.len
    BY <1>4, <1>5
  <2>2. IpTrimmed(b) = t
    BY <1>5 DEF IpTrimmed
  <2> HIDE DEF n
  <2>3. Buffer(t) /\ t.len = n /\ t.data = b.data
    BY <1>2, <2>1, Shortened
  <2> HIDE DEF t
  <2>4. IpValid(b) => n = f[2].len /\ f[2].ihl >= 1
    BY <1>3 DEF IpValid, n
  <2>5. IpValid(t) => IpValid(b)
    <3>1. IpValid(t) => t.data[1].ihl >= 1
      BY DEF IpValid
    <3>2. IpValid(b) <=> h.ihl >= 1 /\ h.len = t.len
      BY <1>5, <2>2 DEF IpValid
    <3>3. QED
      BY <2>3, <3>1, <3>2 DEF n
  <2>6. QED
    BY <2>1, <2>2, <2>3, <2>4, <2>5 DEF b
<1>6. CASE ~(IpSound(b) /\ b.len = MinBody /\ h.len < MinBody)
  <2>1. IpTrimmed(b) = b
    BY <1>6 DEF IpTrimmed
  <2>2. IpValid(b) => b.len = f[2].len /\ f[2].ihl >= 1
    BY <1>3, <2>1 DEF IpValid
  <2>3. QED
    BY <1>2, <1>4, <2>1, <2>2 DEF b
<1>7. QED
  BY <1>5, <1>6

\* The body of a valid ICMP frame: the message is within it, behind the options.
LEMMA IcmpParts ==
    ASSUME NEW f \in Frames, f[1].type = "ip", f[2].proto = "icmp", IpValid(Stripped(f))
    PROVE  LET t == IpTrimmed(Stripped(f))
               n == f[2].ihl
           IN  /\ Buffer(t) /\ t.len \in Nat /\ n \in Nat /\ n >= 1 /\ n < t.len
               /\ t.data[1] = f[2]
               /\ \A i \in 2 .. n : t.data[i].k = "opt"
               /\ LET m == t.data[n + 1] IN m = IcmpMsg(m.type, m.cksum, m.rest)
<1> DEFINE b == Stripped(f)
           t == IpTrimmed(b)
           n == f[2].ihl
<1>1. Len(f) \in Nat /\ Len(f) >= 2 /\ IpShaped(f)
  BY FrameSeq, NetAssumption
<1>2. b.len = Len(f) - 1 /\ \A i \in 1 .. Len(f) - 1 : b.data[i] = f[i + 1]
  BY ReceivedParts
<1>3. /\ Buffer(t) /\ t.data = b.data /\ t.len \in Nat /\ t.len <= b.len
      /\ t.len = f[2].len /\ n >= 1
  BY TrimmedParts
<1> HIDE DEF b, t
<1>4. /\ n \in Nat /\ n < t.len
      /\ \A i \in 3 .. Len(f) :
             /\ i < n + 2 => f[i].k = "opt"
             /\ i = n + 2 => f[i] = IcmpMsg(f[i].type, f[i].cksum, f[i].rest)
  BY <1>1, <1>3 DEF IpShaped
<1> HIDE DEF n
<1>5. \A i \in 1 .. Len(f) - 1 : t.data[i] = f[i + 1]
  BY <1>2, <1>3
<1>6. t.data[1] = f[2]
  <2>1. 1 \in 1 .. Len(f) - 1 /\ 1 + 1 = 2
    BY <1>1
  <2>2. QED
    BY <1>5, <2>1
<1>7. ASSUME NEW i \in 2 .. n
      PROVE  t.data[i].k = "opt"
  <2>1. i \in 1 .. Len(f) - 1 /\ i + 1 \in 3 .. Len(f) /\ i + 1 < n + 2
    BY <1>1, <1>2, <1>3, <1>4
  <2>2. QED
    BY <1>4, <1>5, <2>1
<1>8. t.data[n + 1] = f[n + 2] /\ n + 2 \in 3 .. Len(f)
  <2>1. n + 1 \in 1 .. Len(f) - 1 /\ (n + 1) + 1 = n + 2 /\ n + 2 \in 3 .. Len(f)
    BY <1>1, <1>2, <1>3, <1>4
  <2>2. QED
    BY <1>5, <2>1
<1>9. QED
  BY <1>3, <1>4, <1>6, <1>7, <1>8 DEF b, t, n

\* The reply to an echo without its IP header: there is something left, and it
\* begins with the reply or with an option of the request.
LEMMA EchoParts ==
    ASSUME NEW f \in Frames, f[1].type = "ip", f[2].proto = "icmp", IpValid(Stripped(f))
    PROVE  LET t == IpTrimmed(Stripped(f))
               n == t.data[1].ihl
               reply == [t EXCEPT !.data =
                            Stored(t.data, n, <<EchoReply(t.data[n + 1])>>)]
               r == DelHead(reply, 1)
           IN  /\ Buffer(r) /\ r.len \in Nat /\ r.len >= 1
               /\ \/ r.data[1].k = "icmp" /\ r.data[1].type = ECHO_REPLY
                  \/ r.data[1].k = "opt"
<1> DEFINE t == IpTrimmed(Stripped(f))
           n == t.data[1].ihl
           m == t.data[n + 1]
           e == EchoReply(m)
           reply == [t EXCEPT !.data = Stored(t.data, n, <<e>>)]
           r == DelHead(reply, 1)
<1>1. /\ Buffer(t) /\ t.len \in Nat /\ n \in Nat /\ n >= 1 /\ n < t.len
      /\ \A i \in 2 .. n : t.data[i].k = "opt"
      /\ m = IcmpMsg(m.type, m.cksum, m.rest)
  BY IcmpParts
<1> HIDE DEF t, n
<1>2. e.k = "icmp" /\ e.type = ECHO_REPLY
  <2> DEFINE mt == m.type
             mc == m.cksum
             mr == m.rest
  <2>1. m = [k |-> "icmp", type |-> mt, cksum |-> mc, rest |-> mr]
    BY <1>1 DEF IcmpMsg
  <2> HIDE DEF m, mt, mc, mr
  <2>2. QED
    BY <2>1 DEF e, EchoReply
<1> HIDE DEF e
<1>3. /\ Buffer(reply) /\ reply.len = t.len /\ reply.data[n + 1] = e
      /\ \A i \in 1 .. t.len : i # n + 1 => reply.data[i] = t.data[i]
  BY <1>1, CellStored
<1> HIDE DEF reply
<1>4. /\ Buffer(r) /\ r.len = t.len - 1
      /\ \A i \in 1 .. t.len - 1 : r.data[i] = reply.data[i + 1]
  <2>1. reply.len >= 1
    BY <1>1, <1>3
  <2>2. QED
    BY <1>3, <2>1, HeadCut
<1>5. 1 \in 1 .. t.len - 1
  BY <1>1
<1>6. r.data[1] = reply.data[2]
  BY <1>4, <1>5
<1> HIDE DEF r
<1>7. ASSUME n = 1
      PROVE  r.data[1] = e
  <2>1. n + 1 = 2
    BY <1>7
  <2>2. QED
    BY <1>3, <1>6, <2>1
<1>8. ASSUME n # 1
      PROVE  r.data[1].k = "opt"
  <2>1. 2 \in 2 .. n /\ 2 \in 1 .. t.len /\ 2 # n + 1
    BY <1>1, <1>8
  <2>2. r.data[1] = t.data[2] /\ t.data[2].k = "opt"
    BY <1>1, <1>3, <1>6, <2>1
  <2>3. QED
    BY <2>2
<1>9. r.len \in Nat /\ r.len >= 1
  BY <1>1, <1>4
<1>10. QED
  <2>1. \/ r.data[1].k = "icmp" /\ r.data[1].type = ECHO_REPLY
        \/ r.data[1].k = "opt"
    BY <1>2, <1>7, <1>8
  <2>2. QED
    BY <1>4, <1>9, <2>1 DEF r, reply, e, m, n, t

-----------------------------------------------------------------------------
(***************************************************************************)
(* The invariant. Received packets are as the driver filled them; only a   *)
(* frame whose destination is known is sent, so it stays right when the    *)
(* cache grows; and every entry of the cache has a hardware address, so    *)
(* that no second entry for the same address is made.                      *)
(***************************************************************************)
TypesOK ==
    /\ \A p \in Pkts : Free(p) \/ Buffer(pkt[p])
    /\ pkt = [p \in Pkts |-> pkt[p]]
    /\ rxq \in Seq(Pkts) /\ txq \in Seq(Pkts) /\ cut \subseteq ToSet(txq)
    /\ rx \in RxAt /\ hand \in Pkts \union {NULL}
    /\ rx = "handle" <=> hand # NULL

ReceivedOK == \A p \in ToSet(rxq) \union Held : \E f \in Frames : pkt[p] = Received(f)

\* A frame that is right, and stays so
SentOK(known, d) == FrameRight(known, d) /\ (d[2].k = "ip" => d[1].dst # NULL)

CacheOK == (\E C : cache \in Seq(C)) /\ Resolved(cache)

NInv ==
    /\ TypesOK /\ OneHolder /\ ReceivedOK /\ CacheOK /\ LostWhere
    /\ \A p \in ToSet(txq) \ cut : SentOK(cache, Payload(pkt[p]))

-----------------------------------------------------------------------------
(* The handlers: what became of the packet in hand *)

\* The cache knows what it knew.
CacheGrows ==
    /\ CacheOK'
    /\ \A addr : CacheLookup(cache, addr) # NULL =>
           CacheLookup(cache', addr) = CacheLookup(cache, addr)

\* The packet in hand was freed, left behind or queued; q is the packet that was
\* queued, it or a new one, or NULL.
Outcome(q) ==
    /\ rx = "handle" /\ rx' = "drain" /\ hand' = NULL /\ rxq' = rxq
    /\ pkt' = [p \in Pkts |-> pkt'[p]]
    /\ q \in {NULL, hand} \/ (q \in Pkts /\ Free(q))
    /\ \A p \in Pkts \ {hand, q} : pkt'[p] = pkt[p]
    /\ \/ q = hand
       \/ pkt'[hand] = NULL
       \/ Buffer(pkt'[hand]) /\ LeftBehind(pkt'[hand])
    /\ \/ q = NULL /\ txq' = txq /\ cut' = cut
       \/ /\ q # NULL /\ txq' = <<q>> \o txq /\ Buffer(pkt'[q])
          /\ \/ cut' = cut \union {q}
             \/ cut' = cut /\ SentOK(cache, Payload(pkt'[q]))

\* A buffer is not free memory.
LEMMA BufferIsNot ==
    ASSUME NoPacket, NEW x, Buffer(x)
    PROVE  x # NULL
BY DEF NoPacket, Buffer

\* A frame that is right stays so.
LEMMA StaysRight ==
    ASSUME NEW known, NEW later, NEW d, SentOK(known, d),
           \A addr : CacheLookup(known, addr) # NULL =>
               CacheLookup(later, addr) = CacheLookup(known, addr)
    PROVE  SentOK(later, d)
<1>1. CASE d[2].k = "arp"
  BY <1>1 DEF SentOK, FrameRight
<1>2. CASE d[2].k = "ip"
  <2>1. /\ Len(d) >= 2 /\ d[1].k = "eth" /\ d[1].src = OurMac /\ Len(d) >= 3
        /\ IpSentRight(known, d[1], d) /\ d[1].dst # NULL
    BY <1>2 DEF SentOK, FrameRight
  <2>2. IpSentRight(later, d[1], d)
    BY <2>1 DEF IpSentRight
  <2>3. QED
    BY <1>2, <2>1, <2>2 DEF SentOK, FrameRight
<1>3. QED
  BY <1>1, <1>2 DEF SentOK, FrameRight

\* Every outcome preserves the invariant.
LEMMA OutcomeOK ==
    ASSUME NoPacket, NInv, NEW q, Outcome(q), CacheGrows
    PROVE  NInv'
<1>1. /\ hand \in Pkts /\ hand # NULL /\ Held = {hand} /\ Held' = {}
      /\ NULL \notin Pkts
  <2>1. hand # NULL
    BY DEF NInv, TypesOK, Outcome
  <2>2. hand \in Pkts
    BY <2>1 DEF NInv, TypesOK
  <2>3. hand' = NULL
    BY DEF Outcome
  <2>4. QED
    BY <2>1, <2>2, <2>3, NetAssumption DEF Held
<1>2. /\ rxq \in Seq(Pkts) /\ txq \in Seq(Pkts) /\ cut \subseteq ToSet(txq)
      /\ rxq' = rxq /\ rx' = "drain" /\ hand' = NULL
      /\ pkt' = [p \in Pkts |-> pkt'[p]]
  BY DEF NInv, TypesOK, Outcome
<1>3. /\ IsInjective(rxq) /\ IsInjective(txq) /\ ToSet(rxq) \intersect ToSet(txq) = {}
      /\ hand \notin ToSet(rxq) /\ hand \notin ToSet(txq)
      /\ \A p \in ToSet(rxq) \union ToSet(txq) : ~Free(p)
  BY <1>1 DEF NInv, OneHolder
<1>4. ToSet(rxq) \subseteq Pkts /\ ToSet(txq) \subseteq Pkts
  <2>1. \A S : \A s \in Seq(S) : ToSet(s) \subseteq S
    BY LenProperties DEF ToSet
  <2>2. QED
    BY <1>2, <2>1
<1>5. q \notin ToSet(rxq) /\ q \notin ToSet(txq)
  BY <1>1, <1>3, <1>4 DEF Outcome
<1>6. \A p \in Pkts \ {hand, q} : pkt'[p] = pkt[p]
  BY DEF Outcome
<1>7. \A p \in ToSet(rxq) \union ToSet(txq) : p \in Pkts /\ pkt'[p] = pkt[p]
  BY <1>3, <1>4, <1>5, <1>6
<1>8. \/ q = NULL /\ txq' = txq /\ cut' = cut
      \/ /\ q # NULL /\ q \in Pkts
         /\ txq' \in Seq(Pkts) /\ ToSet(txq') = {q} \union ToSet(txq)
         /\ IsInjective(txq')
         /\ Buffer(pkt'[q]) /\ pkt'[q] # NULL
         /\ \/ cut' = cut \union {q}
            \/ cut' = cut /\ SentOK(cache, Payload(pkt'[q]))
  <2>1. CASE q = NULL
    BY <2>1 DEF Outcome
  <2>2. CASE q # NULL
    <3>1. /\ q \in Pkts /\ txq' = <<q>> \o txq /\ Buffer(pkt'[q])
          /\ \/ cut' = cut \union {q}
             \/ cut' = cut /\ SentOK(cache, Payload(pkt'[q]))
      BY <1>1, <2>2 DEF Outcome
    <3>2. txq' \in Seq(Pkts) /\ ToSet(txq') = {q} \union ToSet(txq) /\ IsInjective(txq')
      BY <1>2, <1>3, <1>5, <3>1, Linked
    <3>3. QED
      BY <2>2, <3>1, <3>2, BufferIsNot
  <2>3. QED
    BY <2>1, <2>2
<1>9. /\ txq' \in Seq(Pkts) /\ IsInjective(txq') /\ cut' \subseteq ToSet(txq')
      /\ ToSet(txq') \subseteq {q} \union ToSet(txq) /\ ToSet(txq) \subseteq ToSet(txq')
      /\ q \in ToSet(txq') => q \in Pkts /\ pkt'[q] # NULL
      /\ q \in Pkts => q \in ToSet(txq')
  BY <1>1, <1>2, <1>3, <1>5, <1>8
<1>10. TypesOK'
  <2>1. ASSUME NEW p \in Pkts
        PROVE  pkt'[p] = NULL \/ Buffer(pkt'[p])
    <3>1. CASE p \notin {hand, q}
      BY <1>6, <3>1 DEF NInv, TypesOK, Free
    <3>2. CASE p = q
      BY <1>1, <1>8, <3>2
    <3>3. CASE p = hand /\ p # q
      BY <3>3 DEF Outcome
    <3>4. QED
      BY <3>1, <3>2, <3>3
  <2>2. rx' \in RxAt /\ hand' \in Pkts \union {NULL} /\ (rx' = "handle" <=> hand' # NULL)
    BY <1>2 DEF RxAt
  <2>3. QED
    BY <1>2, <1>9, <2>1, <2>2 DEF TypesOK, Free
<1>11. OneHolder'
  <2>1. ToSet(rxq') \intersect ToSet(txq') = {}
    BY <1>2, <1>3, <1>5, <1>9
  <2>2. \A p \in ToSet(rxq') \union ToSet(txq') : pkt'[p] # NULL
    BY <1>2, <1>3, <1>7, <1>9 DEF Free
  <2>3. QED
    BY <1>1, <1>2, <1>3, <1>9, <2>1, <2>2 DEF OneHolder, Free
<1>12. ReceivedOK'
  BY <1>1, <1>2, <1>7 DEF NInv, ReceivedOK
<1>13. LostWhere'
  <2>1. SUFFICES ASSUME NEW p \in Pkts, p \notin ToSet(rxq), p \notin ToSet(txq'),
                        pkt'[p] # NULL
                 PROVE  LeftBehind(pkt'[p])
    BY <1>2 DEF LostWhere, Free
  <2>2. p # q /\ p \notin ToSet(txq)
    BY <1>9, <2>1
  <2>3. CASE p = hand
    BY <2>1, <2>2, <2>3 DEF Outcome
  <2>4. CASE p # hand
    <3>1. pkt'[p] = pkt[p]
      BY <1>6, <2>2, <2>4
    <3>2. LeftBehind(pkt[p])
      BY <1>1, <2>1, <2>2, <2>4, <3>1 DEF NInv, LostWhere, Free
    <3>3. QED
      BY <3>1, <3>2
  <2>5. QED
    BY <2>3, <2>4
<1>14. ASSUME NEW p \in ToSet(txq') \ cut'
       PROVE  SentOK(cache', Payload(pkt'[p]))
  <2>1. SentOK(cache, Payload(pkt'[p]))
    <3>1. CASE p = q
      BY <1>1, <1>2, <1>5, <1>8, <1>9, <1>14, <3>1
    <3>2. CASE p # q
      <4>1. p \in ToSet(txq) \ cut
        BY <1>8, <1>9, <1>14, <3>2
      <4>2. SentOK(cache, Payload(pkt[p])) /\ pkt'[p] = pkt[p]
        BY <1>7, <4>1 DEF NInv
      <4>3. QED
        BY <4>2
    <3>3. QED
      BY <3>1, <3>2
  <2>2. QED
    BY <2>1, StaysRight DEF CacheGrows
<1>15. CacheOK'
  BY DEF CacheGrows
<1>16. QED
  BY <1>10, <1>11, <1>12, <1>13, <1>14, <1>15 DEF NInv

LEMMA CacheSame ==
    ASSUME NInv, UNCHANGED cache
    PROVE  CacheGrows
BY DEF NInv, CacheOK, Resolved, CacheGrows

\* The packet in hand is one that was received.
LEMMA InHand ==
    ASSUME NInv, rx = "handle"
    PROVE  /\ hand \in Pkts /\ hand # NULL /\ ~Free(hand)
           /\ \E f \in Frames :
                  pkt[hand] = Received(f) /\ Body = Stripped(f) /\ Type = f[1].type
<1>1. hand # NULL /\ hand \in Pkts
  BY DEF NInv, TypesOK
<1>2. hand \in Held
  BY <1>1 DEF Held
<1>3. ~Free(hand)
  BY <1>2 DEF NInv, OneHolder
<1>4. PICK f \in Frames : pkt[hand] = Received(f)
  BY <1>2 DEF NInv, ReceivedOK
<1>5. Body = Stripped(f)
  BY <1>4 DEF Body, Stripped
<1>6. Type = f[1].type
  BY <1>4, ReceivedParts DEF Type
<1>7. QED
  BY <1>1, <1>3, <1>4, <1>5, <1>6

\* pkt' = [pkt EXCEPT ![hand] = x]
LEMMA HandSet ==
    ASSUME NInv, rx = "handle", NEW x, pkt' = [pkt EXCEPT ![hand] = x]
    PROVE  /\ pkt' = [p \in Pkts |-> pkt'[p]] /\ pkt'[hand] = x
           /\ \A p \in Pkts \ {hand} : pkt'[p] = pkt[p]
<1>1. hand \in Pkts
  BY InHand
<1>2. pkt = [p \in Pkts |-> pkt[p]]
  BY DEF NInv, TypesOK
<1>3. DOMAIN pkt = Pkts
  BY <1>2, Zenon
<1>4. pkt' = [p \in Pkts |-> IF p = hand THEN x ELSE pkt[p]]
  BY <1>3, Zenon
<1>5. \A p \in Pkts : pkt'[p] = IF p = hand THEN x ELSE pkt[p]
  BY <1>4, Zenon
<1>6. pkt' = [p \in Pkts |-> pkt'[p]]
  BY <1>4, <1>5, Zenon
<1>7. QED
  BY <1>1, <1>5, <1>6

\* A handler that frees the packet, or leaves it behind
LEMMA Freed ==
    ASSUME NInv, NEW type, Handling(type), FreeHand
    PROVE  Outcome(NULL)
<1>1. pkt' = [pkt EXCEPT ![hand] = NULL] /\ rx = "handle"
  BY DEF FreeHand, Handling
<1>2. /\ pkt' = [p \in Pkts |-> pkt'[p]] /\ pkt'[hand] = NULL
      /\ \A p \in Pkts \ {hand} : pkt'[p] = pkt[p]
  BY <1>1, HandSet
<1>3. QED
  BY <1>2 DEF Outcome, FreeHand, Handling, queues

LEMMA Forgotten ==
    ASSUME NInv, NEW type, Handling(type), NEW b, Forget(hand, b),
           Buffer(b), LeftBehind(b)
    PROVE  Outcome(NULL)
<1>1. pkt' = [pkt EXCEPT ![hand] = b] /\ rx = "handle"
  BY DEF Forget, Handling
<1>2. /\ pkt' = [p \in Pkts |-> pkt'[p]] /\ pkt'[hand] = b
      /\ \A p \in Pkts \ {hand} : pkt'[p] = pkt[p]
  BY <1>1, HandSet
<1>3. QED
  BY <1>2 DEF Outcome, Forget, Handling, queues

\* A handler that sends the packet
LEMMA Output ==
    ASSUME NInv, NEW in, Handling(in), NEW b, Buffer(b), NEW dst, NEW type, NEW whole,
           EthOutput(pkt, hand, b, dst, type, whole),
           whole => SentOK(cache, Payload(AddHead(b, <<EthHdr(dst, OurMac, type)>>)))
    PROVE  Outcome(hand)
<1>1. rx = "handle" /\ hand \in Pkts /\ hand # NULL
  BY InHand DEF Handling
<1> DEFINE a == AddHead(b, <<EthHdr(dst, OurMac, type)>>)
<1>2. PICK ok \in BOOLEAN :
          /\ pkt' = [pkt EXCEPT ![hand] = IF ok THEN a ELSE b]
          /\ txq' = <<hand>> \o txq
          /\ cut' = IF ok /\ whole THEN cut ELSE cut \union {hand}
          /\ UNCHANGED rxq
  BY DEF EthOutput
<1>3. Buffer(a)
  BY HeadPut
<1>4. whole => SentOK(cache, Payload(a))
  OBVIOUS
<1> HIDE DEF a
<1>5. /\ pkt' = [p \in Pkts |-> pkt'[p]] /\ pkt'[hand] = IF ok THEN a ELSE b
      /\ \A p \in Pkts \ {hand} : pkt'[p] = pkt[p]
  BY <1>1, <1>2, HandSet
<1>6. /\ Buffer(pkt'[hand])
      /\ cut' = cut \union {hand} \/ (cut' = cut /\ SentOK(cache, Payload(pkt'[hand])))
  BY <1>2, <1>3, <1>4, <1>5
<1>7. QED
  BY <1>1, <1>2, <1>5, <1>6 DEF Outcome, Handling

\* The question for an address that some route matches
LEMMA AskRight ==
    ASSUME NEW addr \in Reachable
    PROVE  LET msg == ArpMsg("request", OurMac, OurIps[1], Bcast, addr)
               c == Filled(NewPkt(2), <<msg>>)
           IN  /\ Buffer(c)
               /\ \A known :
                      SentOK(known, Payload(AddHead(c, <<EthHdr(Bcast, OurMac, "arp")>>)))
<1> DEFINE msg == ArpMsg("request", OurMac, OurIps[1], Bcast, addr)
           s == <<msg>>
           c == Filled(NewPkt(2), s)
           h == EthHdr(Bcast, OurMac, "arp")
           d == Payload(AddHead(c, <<h>>))
           C == {Blank, msg}
<1>1. /\ msg.k = "arp" /\ msg.op = "request" /\ msg.sha = OurMac
      /\ msg.spa = OurIps[1] /\ msg.tpa = addr
  BY DEF ArpMsg
<1> HIDE DEF msg
<1>2. s \in Seq(C) /\ Len(s) = 1 /\ s[1] = msg /\ Blank \in C
  OBVIOUS
<1> HIDE DEF s, C
<1>3. Len(s) <= 2
  BY <1>2
<1>4. /\ c \in Packets(C) /\ c.len = 1 /\ Payload(c) = s
      /\ Allocated(c) % Padding = 0
  BY <1>2, <1>3, NewPktHolds
<1> HIDE DEF c
<1>5. Buffer(c)
  BY <1>2, <1>4 DEF Buffer
<1>6. c.data[1] = msg
  <2>1. \A i \in 1 .. c.len : Payload(c)[i] = c.data[i]
    BY <1>4, PacketParts
  <2>2. QED
    BY <1>2, <1>4, <2>1
<1>7. h.k = "eth" /\ h.dst = Bcast /\ h.src = OurMac /\ h.type = "arp"
  BY DEF EthHdr
<1> HIDE DEF h
<1>8. /\ Len(d) = c.len + 1 /\ d[1] = h
      /\ \A i \in 1 .. c.len : d[i + 1] = c.data[i]
  BY <1>5, HeadPut
<1> HIDE DEF d
<1>9. Len(d) >= 2 /\ d[2] = msg
  <2>1. 1 \in 1 .. c.len /\ 1 + 1 = 2
    BY <1>4
  <2>2. d[2] = c.data[1]
    BY <1>8, <2>1
  <2>3. QED
    BY <1>4, <1>6, <1>8, <2>2
<1>10. OurIps[1] \in ToSet(OurIps)
  <2>1. OurIps \in Seq(ToSet(OurIps)) /\ OurIps # <<>>
    BY NetAssumption
  <2>2. Len(OurIps) \in Nat \ {0} /\ DOMAIN OurIps = 1 .. Len(OurIps)
    BY <2>1, EmptySeq, LenProperties
  <2>3. QED
    BY <2>2 DEF ToSet
<1>11. ArpSentRight(d[1], d[2])
  BY <1>1, <1>7, <1>8, <1>9, <1>10 DEF ArpSentRight
<1>12. \A known : FrameRight(known, d) /\ d[2].k # "ip"
  BY <1>1, <1>7, <1>8, <1>9, <1>11 DEF FrameRight
<1>13. QED
  BY <1>5, <1>12 DEF SentOK, msg, s, c, h, d

\* A handler that leaves the packet behind and asks for an address
LEMMA Asked ==
    ASSUME NoPacket, NInv, NEW type, Handling(type), NEW b, Buffer(b), LeftBehind(b),
           NEW addr \in Reachable, ArpAsk(hand, b, addr)
    PROVE  \E q : Outcome(q)
<1> DEFINE store == [pkt EXCEPT ![hand] = b]
           msg == ArpMsg("request", OurMac, OurIps[1], Bcast, addr)
           c == Filled(NewPkt(2), <<msg>>)
           a == AddHead(c, <<EthHdr(Bcast, OurMac, "arp")>>)
<1>1. rx = "handle" /\ hand \in Pkts /\ ~Free(hand)
  BY InHand DEF Handling
<1>2. CASE Forget(hand, b)
  BY <1>2, Forgotten
<1>3. ASSUME NEW q \in Pkts, Free(q), EthOutput(store, q, c, Bcast, "arp", TRUE)
      PROVE  Outcome(q)
  <2>1. PICK ok \in BOOLEAN :
            /\ pkt' = [store EXCEPT ![q] = IF ok THEN a ELSE c]
            /\ txq' = <<q>> \o txq
            /\ cut' = IF ok THEN cut ELSE cut \union {q}
            /\ UNCHANGED rxq
    BY <1>3 DEF EthOutput
  <2>2. Buffer(c) /\ Buffer(a) /\ SentOK(cache, Payload(a))
    BY AskRight, HeadPut
  <2> HIDE DEF a, c
  <2>3. q # hand /\ q # NULL
    BY <1>1, <1>3, NetAssumption
  <2>4. /\ pkt' = [p \in Pkts |-> pkt'[p]]
        /\ pkt'[q] = IF ok THEN a ELSE c
        /\ pkt'[hand] = b
        /\ \A p \in Pkts \ {hand, q} : pkt'[p] = pkt[p]
    <3>1. pkt = [p \in Pkts |-> pkt[p]]
      BY DEF NInv, TypesOK
    <3>2. DOMAIN pkt = Pkts
      BY <3>1, Zenon
    <3> DEFINE x == IF ok THEN a ELSE c
    <3> HIDE DEF x
    <3>3. pkt' = [p \in Pkts |-> IF p = q THEN x ELSE IF p = hand THEN b ELSE pkt[p]]
      <4>1. store = [p \in Pkts |-> IF p = hand THEN b ELSE pkt[p]]
        BY <3>2, Zenon
      <4> HIDE DEF store
      <4>2. DOMAIN store = Pkts
        BY <4>1, Zenon
      <4>3. pkt' = [store EXCEPT ![q] = x]
        BY <2>1 DEF x
      <4>4. pkt' = [p \in Pkts |-> IF p = q THEN x ELSE store[p]]
        BY <4>2, <4>3, Zenon
      <4>5. \A p \in Pkts : store[p] = IF p = hand THEN b ELSE pkt[p]
        BY <4>1, Zenon
      <4>6. QED
        BY <4>4, <4>5, Zenon
    <3>4. \A p \in Pkts : pkt'[p] = IF p = q THEN x ELSE IF p = hand THEN b ELSE pkt[p]
      BY <3>3, Zenon
    <3>5. pkt' = [p \in Pkts |-> pkt'[p]]
      BY <3>3, <3>4, Zenon
    <3>6. QED
      BY <1>1, <2>3, <3>4, <3>5 DEF x
  <2>5. /\ Buffer(pkt'[q])
        /\ cut' = cut \union {q} \/ (cut' = cut /\ SentOK(cache, Payload(pkt'[q])))
    BY <2>1, <2>2, <2>4
  <2>6. QED
    BY <1>3, <2>1, <2>3, <2>4, <2>5 DEF Outcome, Handling
<1>4. QED
  BY <1>2, <1>3 DEF ArpAsk

-----------------------------------------------------------------------------
(* Each handler has one of the outcomes. *)

LEMMA ArpInvalid ==
    ASSUME NInv, ArpInputInvalid
    PROVE  Outcome(NULL) /\ CacheGrows
<1>1. Handling("arp") /\ ~Body.data[1].ok /\ Forget(hand, Body) /\ UNCHANGED cache
  BY DEF ArpInputInvalid
<1>2. PICK f \in Frames : Body = Stripped(f) /\ f[1].type = "arp"
  BY <1>1, InHand DEF Handling
<1>3. Buffer(Stripped(f)) /\ Stripped(f).data[1].k = "arp"
  <2>1. 1 \in 1 .. Len(f) - 1 /\ 1 + 1 = 2
    BY FrameSeq
  <2>2. Stripped(f).data[1] = f[2]
    BY <2>1, ReceivedParts
  <2>3. QED
    BY <1>2, <2>2, ReceivedParts, NetAssumption DEF ArpShaped
<1>4. LeftBehind(Body)
  BY <1>1, <1>2, <1>3 DEF LeftBehind
<1>5. QED
  BY <1>1, <1>2, <1>3, <1>4, Forgotten, CacheSame

LEMMA ArpRequest ==
    ASSUME NInv, ArpInputRequest
    PROVE  (\E q : Outcome(q)) /\ CacheGrows
<1> DEFINE m == Body.data[1]
           reply == [Body EXCEPT !.data = Stored(Body.data, 0, <<ArpReply(m)>>)]
           h == EthHdr(m.sha, OurMac, "arp")
           d == Payload(AddHead(reply, <<h>>))
           x == ArpReply(m)
<1>1. /\ Handling("arp") /\ UNCHANGED cache
      /\ IF m.tpa \in ToSet(OurIps) THEN EthOutput(pkt, hand, reply, m.sha, "arp", TRUE)
         ELSE FreeHand
  BY DEF ArpInputRequest
<1>2. PICK f \in Frames : Body = Stripped(f)
  BY <1>1, InHand DEF Handling
<1>3. Buffer(Body) /\ Body.len \in Nat /\ 0 < Body.len
  BY <1>2, FrameSeq, ReceivedParts
<1>4. CASE m.tpa \notin ToSet(OurIps)
  BY <1>1, <1>4, Freed, CacheSame
<1>5. CASE m.tpa \in ToSet(OurIps)
  <2>1. Buffer(reply) /\ reply.len = Body.len /\ reply.data[0 + 1] = x
    BY <1>3, CellStored
  <2>2. /\ x.k = "arp" /\ x.sha = OurMac /\ x.spa = m.tpa /\ x.op = "reply"
        /\ x.tha = m.sha
    BY DEF ArpReply, ArpMsg
  <2>3. h.k = "eth" /\ h.dst = m.sha /\ h.src = OurMac /\ h.type = "arp"
    BY DEF EthHdr
  <2>4. EthOutput(pkt, hand, reply, m.sha, "arp", TRUE)
    BY <1>1, <1>5
  <2> HIDE DEF x, reply
  <2>5. d = Payload(AddHead(reply, <<EthHdr(m.sha, OurMac, "arp")>>))
    OBVIOUS
  <2> HIDE DEF h
  <2>6. /\ Len(d) = reply.len + 1 /\ d[1] = h
        /\ \A i \in 1 .. reply.len : d[i + 1] = reply.data[i]
    <3>1. Buffer(reply)
      BY <2>1
    <3>2. QED
      BY <3>1, HeadPut
  <2> HIDE DEF d, m
  <2>7. Len(d) >= 2 /\ d[2] = x
    <3>1. 1 \in 1 .. reply.len /\ 1 + 1 = 2 /\ 0 + 1 = 1
      BY <1>3, <2>1
    <3>2. d[2] = reply.data[1]
      BY <2>6, <3>1
    <3>3. QED
      BY <1>3, <2>1, <2>6, <3>1, <3>2
  <2>8. ArpSentRight(d[1], d[2])
    BY <1>5, <2>2, <2>3, <2>6, <2>7 DEF ArpSentRight
  <2>9. SentOK(cache, d)
    BY <2>2, <2>3, <2>6, <2>7, <2>8 DEF SentOK, FrameRight
  <2>10. Outcome(hand)
    BY <1>1, <2>1, <2>4, <2>5, <2>9, Output
  <2>11. QED
    BY <1>1, <2>10, CacheSame
<1>6. QED
  BY <1>4, <1>5

\* An address that is entered was not known.
LEMMA ArpReplyOK ==
    ASSUME NInv, ArpInputReply
    PROVE  Outcome(NULL) /\ CacheGrows
<1> DEFINE m == Body.data[1]
           e == [proto |-> m.spa, hrd |-> m.sha]
<1>1. Handling("arp") /\ FreeHand
  BY DEF ArpInputReply
<1>2. PICK f \in Frames : Body = Stripped(f) /\ f[1].type = "arp"
  BY <1>1, InHand DEF Handling
<1>3. m.sha # NULL
  <2>1. 1 \in 1 .. Len(f) - 1 /\ 1 + 1 = 2
    BY FrameSeq
  <2>2. m = f[2]
    BY <1>2, <2>1, ReceivedParts
  <2>3. QED
    BY <1>2, <2>2, NetAssumption DEF ArpShaped
<1>4. \/ CacheLookup(cache, m.spa) = NULL /\ cache' = <<e>> \o cache
      \/ UNCHANGED cache
  BY DEF ArpInputReply
<1>5. e.proto = m.spa /\ e.hrd = m.sha
  OBVIOUS
<1> HIDE DEF m, e
<1>6. CASE CacheLookup(cache, m.spa) = NULL /\ cache' = <<e>> \o cache
  <2>1. PICK C : cache \in Seq(C)
    BY DEF NInv, CacheOK
  <2> DEFINE D == C \union {e}
  <2>2. cache \in Seq(D) /\ e \in D
    BY <2>1, SeqDef
  <2> HIDE DEF D
  <2>3. Resolved(cache)
    BY DEF NInv, CacheOK
  <2>4. /\ Resolved(<<e>> \o cache)
        /\ \A addr : CacheLookup(cache, addr) # NULL =>
               CacheLookup(<<e>> \o cache, addr) = CacheLookup(cache, addr)
    BY <1>3, <1>5, <1>6, <2>2, <2>3, CacheEntered
  <2>5. <<e>> \o cache \in Seq(D)
    BY <2>2, Linked
  <2>6. cache' \in Seq(D) /\ Resolved(cache')
    BY <1>6, <2>4, <2>5
  <2>7. CacheOK'
    BY <2>6 DEF CacheOK, Resolved
  <2>8. CacheGrows
    BY <1>6, <2>4, <2>7 DEF CacheGrows
  <2>9. QED
    BY <1>1, <2>8, Freed
<1>7. QED
  BY <1>1, <1>4, <1>6, Freed, CacheSame

LEMMA IpLeft ==
    ASSUME NInv, IpInputInvalid \/ IpInputOther
    PROVE  Outcome(NULL) /\ CacheGrows
<1> DEFINE t == IpTrimmed(Body)
<1>1. /\ Handling("ip") /\ Forget(hand, t) /\ UNCHANGED cache
      /\ ~IpValid(Body) \/ Body.data[1].proto = "other"
  BY DEF IpInputInvalid, IpInputOther
<1>2. PICK f \in Frames : Body = Stripped(f) /\ f[1].type = "ip"
  BY <1>1, InHand DEF Handling
<1>3. Buffer(t) /\ t.data = Body.data /\ (IpValid(t) => IpValid(Body))
  BY <1>2, TrimmedParts
<1> HIDE DEF t
<1>4. Body.data[1].k = "ip"
  <2>1. 1 \in 1 .. Len(f) - 1 /\ 1 + 1 = 2
    BY FrameSeq
  <2>2. Stripped(f).data[1] = f[2]
    BY <2>1, ReceivedParts
  <2>3. QED
    BY <1>2, <2>2, NetAssumption DEF IpShaped
<1>5. LeftBehind(t)
  BY <1>1, <1>3, <1>4 DEF LeftBehind
<1>6. QED
  BY <1>1, <1>3, <1>5, Forgotten, CacheSame

\* en_ip_output of an ICMP message, from the echo that asked for it
LEMMA EchoSent ==
    ASSUME NoPacket, NInv, NEW type, Handling(type), NEW b, Buffer(b),
           b.len \in Nat, b.len >= 1,
           \/ b.data[1].k = "icmp" /\ b.data[1].type = ECHO_REPLY
           \/ b.data[1].k = "opt",
           NEW dst, IpOutput(hand, b, dst)
    PROVE  \E q : Outcome(q)
<1> DEFINE hrd == CacheLookup(cache, dst)
           ip == IpHdr(1, b.len + 1, "icmp", OurIps[1], dst)
           c == AddHead(b, <<ip>>)
           h == EthHdr(hrd, OurMac, "ip")
           d == Payload(AddHead(c, <<h>>))
<1>1. LeftBehind(b)
  BY DEF LeftBehind
<1>2. CASE dst \notin Reachable
  BY <1>1, <1>2, Forgotten DEF IpOutput
<1>3. CASE dst \in Reachable /\ hrd = NULL
  <2>1. ArpAsk(hand, b, dst)
    BY <1>3 DEF IpOutput
  <2>2. QED
    BY <1>1, <1>3, <2>1, Asked
<1>4. CASE dst \in Reachable /\ hrd # NULL
  <2>1. PICK ok \in BOOLEAN : EthOutput(pkt, hand, IF ok THEN c ELSE b, hrd, "ip", ok)
    BY <1>4 DEF IpOutput
  <2>2. Buffer(c) /\ c.len = b.len + 1 /\ Len(Payload(c)) = b.len + 1
        /\ Payload(c)[1] = ip /\ \A i \in 1 .. b.len : Payload(c)[i + 1] = b.data[i]
    BY HeadPut
  <2>3. /\ ip.k = "ip" /\ ip.ihl = 1 /\ ip.len = b.len + 1 /\ ip.src = OurIps[1]
        /\ ip.dst = dst
    BY DEF IpHdr
  <2>4. h.k = "eth" /\ h.dst = hrd /\ h.src = OurMac /\ h.type = "ip"
    BY DEF EthHdr
  <2> HIDE DEF ip, c
  <2>5. d = Payload(AddHead(c, <<EthHdr(hrd, OurMac, "ip")>>))
    OBVIOUS
  <2> HIDE DEF h
  <2>6. /\ Len(d) = c.len + 1 /\ d[1] = h
        /\ \A i \in 1 .. c.len : d[i + 1] = c.data[i]
    <3>1. Buffer(c)
      BY <2>2
    <3>2. QED
      BY <3>1, HeadPut
  <2>7. \A i \in 1 .. c.len : Payload(c)[i] = c.data[i]
    <3>1. PICK C : c \in Packets(C)
      BY <2>2 DEF Buffer
    <3>2. QED
      BY <3>1, PacketParts
  <2> HIDE DEF d, hrd
  <2>8. Len(d) = b.len + 2 /\ d[2] = ip /\ d[3] = b.data[1]
    <3>1. /\ 1 \in 1 .. c.len /\ 2 \in 1 .. c.len /\ 1 \in 1 .. b.len
          /\ 1 + 1 = 2 /\ 2 + 1 = 3
      BY <2>2
    <3>2. d[2] = c.data[1] /\ c.data[1] = Payload(c)[1]
      BY <2>6, <2>7, <3>1
    <3>3. d[3] = c.data[2] /\ c.data[2] = Payload(c)[2] /\ Payload(c)[2] = b.data[1]
      BY <2>2, <2>6, <2>7, <3>1
    <3>4. QED
      BY <2>2, <2>6, <3>2, <3>3
  <2>9. OurIps[1] \in ToSet(OurIps)
    <3>1. OurIps \in Seq(ToSet(OurIps)) /\ OurIps # <<>>
      BY NetAssumption
    <3>2. Len(OurIps) \in Nat \ {0} /\ DOMAIN OurIps = 1 .. Len(OurIps)
      BY <3>1, EmptySeq, LenProperties
    <3>3. QED
      BY <3>2 DEF ToSet
  <2>10. IpSentRight(cache, d[1], d)
    <3>1. d[2].len = Len(d) - 1 /\ d[2].ihl = 1
      BY <2>3, <2>8
    <3>2. d[1].dst = CacheLookup(cache, d[2].dst)
      BY <2>3, <2>4, <2>6, <2>8 DEF hrd
    <3>3. \/ d[3].k = "icmp" /\ d[3].type = ECHO_REPLY
          \/ d[3].k = "opt"
      BY <2>8
    <3>4. QED
      BY <2>3, <2>4, <2>6, <2>8, <2>9, <3>1, <3>2, <3>3 DEF IpSentRight
  <2>11. SentOK(cache, d)
    BY <1>4, <2>3, <2>4, <2>6, <2>8, <2>10 DEF SentOK, FrameRight
  <2>12. CASE ok
    BY <2>1, <2>2, <2>5, <2>11, <2>12, Output
  <2>13. CASE ~ok
    BY <2>1, <2>13, Output
  <2>14. QED
    BY <2>12, <2>13
<1>5. QED
  BY <1>2, <1>3, <1>4

LEMMA Echo ==
    ASSUME NoPacket, NInv, IcmpInputEcho
    PROVE  (\E q : Outcome(q)) /\ CacheGrows
<1> DEFINE t == IpTrimmed(Body)
           n == t.data[1].ihl
           reply == [t EXCEPT !.data = Stored(t.data, n, <<EchoReply(t.data[n + 1])>>)]
           r == DelHead(reply, 1)
<1>1. /\ Handling("ip") /\ IpValid(Body) /\ t.data[1].proto = "icmp"
      /\ IpOutput(hand, r, t.data[1].src) /\ UNCHANGED cache
  BY DEF IcmpInputEcho
<1>2. PICK f \in Frames : Body = Stripped(f) /\ f[1].type = "ip"
  BY <1>1, InHand DEF Handling
<1>3. t.data[1] = f[2]
  <2>1. 1 \in 1 .. Len(f) - 1 /\ 1 + 1 = 2
    BY FrameSeq
  <2>2. Stripped(f).data[1] = f[2]
    BY <2>1, ReceivedParts
  <2>3. QED
    BY <1>2, <2>2, TrimmedParts
<1>4. /\ Buffer(r) /\ r.len \in Nat /\ r.len >= 1
      /\ \/ r.data[1].k = "icmp" /\ r.data[1].type = ECHO_REPLY
         \/ r.data[1].k = "opt"
  BY <1>1, <1>2, <1>3, EchoParts
<1> HIDE DEF r
<1>5. QED
  BY <1>1, <1>4, EchoSent, CacheSame

\* en_eth_input, whatever was received
LEMMA HandleOK ==
    ASSUME NoPacket, NInv, Handle
    PROVE  NInv' /\ CacheGrows
<1>1. CASE EthInputOther
  BY <1>1, Freed, CacheSame, OutcomeOK DEF EthInputOther
<1>2. CASE ArpInputInvalid
  BY <1>2, ArpInvalid, OutcomeOK
<1>3. CASE ArpInputRequest
  BY <1>3, ArpRequest, OutcomeOK
<1>4. CASE ArpInputReply
  BY <1>4, ArpReplyOK, OutcomeOK
<1>5. CASE ArpInputOther
  BY <1>5, Freed, CacheSame, OutcomeOK DEF ArpInputOther
<1>6. CASE IpInputInvalid \/ IpInputOther
  BY <1>6, IpLeft, OutcomeOK
<1>7. CASE UdpInput
  BY <1>7, Freed, CacheSame, OutcomeOK DEF UdpInput
<1>8. CASE IcmpInputOther
  BY <1>8, Freed, CacheSame, OutcomeOK DEF IcmpInputOther
<1>9. CASE IcmpInputEcho
  BY <1>9, Echo, OutcomeOK
<1>10. QED
  BY <1>1, <1>2, <1>3, <1>4, <1>5, <1>6, <1>7, <1>8, <1>9 DEF Handle

-----------------------------------------------------------------------------
(* The queues *)

\* One packet of the store replaced
LEMMA PktSet ==
    ASSUME NInv, NEW q \in Pkts, NEW x, pkt' = [pkt EXCEPT ![q] = x]
    PROVE  /\ pkt' = [p \in Pkts |-> pkt'[p]] /\ pkt'[q] = x
           /\ \A p \in Pkts \ {q} : pkt'[p] = pkt[p]
<1>1. pkt = [p \in Pkts |-> pkt[p]]
  BY DEF NInv, TypesOK
<1>2. DOMAIN pkt = Pkts
  BY <1>1, Zenon
<1>3. pkt' = [p \in Pkts |-> IF p = q THEN x ELSE pkt[p]]
  BY <1>2, Zenon
<1>4. \A p \in Pkts : pkt'[p] = IF p = q THEN x ELSE pkt[p]
  BY <1>3, Zenon
<1>5. pkt' = [p \in Pkts |-> pkt'[p]]
  BY <1>3, <1>4, Zenon
<1>6. QED
  BY <1>4, <1>5

\* What is in a queue is a packet.
LEMMA Queued ==
    ASSUME NInv
    PROVE  /\ rxq \in Seq(Pkts) /\ txq \in Seq(Pkts)
           /\ ToSet(rxq) \subseteq Pkts /\ ToSet(txq) \subseteq Pkts
           /\ \A p \in ToSet(rxq) \union ToSet(txq) \union Held : ~Free(p)
<1>1. rxq \in Seq(Pkts) /\ txq \in Seq(Pkts)
  BY DEF NInv, TypesOK
<1>2. \A S : \A s \in Seq(S) : ToSet(s) \subseteq S
  BY LenProperties DEF ToSet
<1>3. QED
  BY <1>1, <1>2 DEF NInv, OneHolder

LEMMA DriverRxOK ==
    ASSUME NoPacket, NInv, NEW f \in Frames, DriverRx(f)
    PROVE  NInv' /\ CacheGrows
<1>1. PICK q \in Pkts :
          /\ Free(q) /\ pkt' = [pkt EXCEPT ![q] = Received(f)]
          /\ rxq' = <<q>> \o rxq /\ rx' = IF rx = "asleep" THEN "drain" ELSE rx
          /\ txq' = txq /\ hand' = hand /\ cache' = cache /\ cut' = cut
  BY DEF DriverRx, Received
<1>2. /\ pkt' = [p \in Pkts |-> pkt'[p]] /\ pkt'[q] = Received(f)
      /\ \A p \in Pkts \ {q} : pkt'[p] = pkt[p]
  BY <1>1, PktSet
<1>3. Buffer(Received(f)) /\ Received(f) # NULL
  BY ReceivedParts, BufferIsNot
<1>4. /\ rxq \in Seq(Pkts) /\ txq \in Seq(Pkts)
      /\ ToSet(rxq) \subseteq Pkts /\ ToSet(txq) \subseteq Pkts
      /\ q \notin ToSet(rxq) /\ q \notin ToSet(txq) /\ q \notin Held
      /\ Held \subseteq Pkts /\ Held' = Held
      /\ \A p \in ToSet(rxq) \union ToSet(txq) \union Held : ~Free(p)
  <2>1. Held \subseteq Pkts /\ Held' = Held
    BY <1>1 DEF NInv, TypesOK, Held
  <2>2. QED
    BY <1>1, <2>1, Queued
<1>5. /\ IsInjective(rxq) /\ IsInjective(txq) /\ ToSet(rxq) \intersect ToSet(txq) = {}
      /\ Held \intersect (ToSet(rxq) \union ToSet(txq)) = {}
  BY DEF NInv, OneHolder
<1>6. /\ rxq' \in Seq(Pkts) /\ ToSet(rxq') = {q} \union ToSet(rxq)
      /\ IsInjective(rxq')
  BY <1>1, <1>4, <1>5, Linked
<1>7. \A p \in ToSet(rxq) \union ToSet(txq) \union Held : pkt'[p] = pkt[p]
  BY <1>2, <1>4
<1>8. TypesOK'
  <2>1. ASSUME NEW p \in Pkts
        PROVE  pkt'[p] = NULL \/ Buffer(pkt'[p])
    BY <1>2, <1>3 DEF NInv, TypesOK, Free
  <2>2. cut' \subseteq ToSet(txq')
    BY <1>1 DEF NInv, TypesOK
  <2>3. rx' \in RxAt /\ hand' \in Pkts \union {NULL} /\ (rx' = "handle" <=> hand' # NULL)
    BY <1>1 DEF NInv, TypesOK, RxAt
  <2>4. QED
    BY <1>1, <1>2, <1>4, <1>6, <2>1, <2>2, <2>3 DEF TypesOK, Free
<1>9. OneHolder'
  <2>1. \A p \in ToSet(rxq') \union ToSet(txq') \union Held' : pkt'[p] # NULL
    BY <1>1, <1>2, <1>3, <1>4, <1>6, <1>7 DEF Free
  <2>2. /\ ToSet(rxq') \intersect ToSet(txq') = {}
        /\ Held' \intersect (ToSet(rxq') \union ToSet(txq')) = {}
    BY <1>1, <1>4, <1>5, <1>6
  <2>3. IsInjective(txq')
    BY <1>1, <1>5
  <2>4. QED
    BY <1>6, <2>1, <2>2, <2>3 DEF OneHolder, Free
<1>10. ReceivedOK'
  <2>1. SUFFICES ASSUME NEW p \in ToSet(rxq') \union Held'
                 PROVE  \E g \in Frames : pkt'[p] = Received(g)
    BY DEF ReceivedOK
  <2>2. CASE p = q
    BY <1>2, <2>2
  <2>3. CASE p # q
    BY <1>4, <1>6, <1>7, <2>1, <2>3 DEF NInv, ReceivedOK
  <2>4. QED
    BY <2>2, <2>3
<1>11. LostWhere'
  <2>1. SUFFICES ASSUME NEW p \in Pkts, p \notin ToSet(rxq'), p \notin ToSet(txq'),
                        p \notin Held', pkt'[p] # NULL
                 PROVE  LeftBehind(pkt'[p])
    BY DEF LostWhere, Free
  <2>2. p # q /\ p \notin ToSet(rxq) /\ p \notin ToSet(txq) /\ p \notin Held
    BY <1>1, <1>4, <1>6, <2>1
  <2>3. QED
    BY <1>2, <2>1, <2>2 DEF NInv, LostWhere, Free
<1>12. \A p \in ToSet(txq') \ cut' : SentOK(cache', Payload(pkt'[p]))
  BY <1>1, <1>7 DEF NInv
<1>13. CacheGrows
  BY <1>1, CacheSame
<1>14. CacheOK'
  BY <1>13 DEF CacheGrows
<1>15. QED
  BY <1>8, <1>9, <1>10, <1>11, <1>12, <1>13, <1>14 DEF NInv

LEMMA RxTakeOK ==
    ASSUME NInv, RxTake
    PROVE  NInv' /\ CacheGrows
<1> DEFINE q == Head(rxq)
<1>1. /\ rx = "drain" /\ rxq # <<>> /\ hand' = q /\ rxq' = Tail(rxq) /\ rx' = "handle"
      /\ pkt' = pkt /\ txq' = txq /\ cache' = cache /\ cut' = cut
  BY DEF RxTake
<1>2. /\ rxq \in Seq(Pkts) /\ txq \in Seq(Pkts)
      /\ \A p \in ToSet(rxq) \union ToSet(txq) : ~Free(p)
  BY Queued
<1>3. /\ IsInjective(rxq) /\ IsInjective(txq) /\ ToSet(rxq) \intersect ToSet(txq) = {}
  BY DEF NInv, OneHolder
<1>4. /\ q \in Pkts /\ rxq' \in Seq(Pkts) /\ ToSet(rxq) = {q} \union ToSet(rxq')
      /\ q \notin ToSet(rxq') /\ IsInjective(rxq')
  BY <1>1, <1>2, <1>3, Unlinked
<1> HIDE DEF q
<1>5. q # NULL /\ Held' = {q} /\ Held = {}
  <2>1. hand = NULL
    BY <1>1 DEF NInv, TypesOK
  <2>2. QED
    BY <1>1, <1>4, <2>1, NetAssumption DEF Held
<1>6. TypesOK'
  <2>1. \A p \in Pkts : pkt'[p] = NULL \/ Buffer(pkt'[p])
    BY <1>1 DEF NInv, TypesOK, Free
  <2>2. cut' \subseteq ToSet(txq') /\ pkt' = [p \in Pkts |-> pkt'[p]]
    BY <1>1 DEF NInv, TypesOK
  <2>3. rx' \in RxAt /\ hand' \in Pkts \union {NULL} /\ (rx' = "handle" <=> hand' # NULL)
    BY <1>1, <1>4, <1>5 DEF RxAt
  <2>4. txq' \in Seq(Pkts)
    BY <1>1, <1>2
  <2>5. QED
    BY <1>4, <2>1, <2>2, <2>3, <2>4 DEF TypesOK, Free
<1>7. OneHolder'
  <2>1. IsInjective(txq')
    BY <1>1, <1>3
  <2>2. QED
    BY <1>1, <1>2, <1>3, <1>4, <1>5, <2>1 DEF OneHolder, Free
<1>8. ReceivedOK'
  BY <1>1, <1>4, <1>5 DEF NInv, ReceivedOK
<1>9. LostWhere'
  <2>1. SUFFICES ASSUME NEW p \in Pkts, p \notin ToSet(rxq'), p \notin ToSet(txq'),
                        p \notin Held', pkt'[p] # NULL
                 PROVE  LeftBehind(pkt'[p])
    BY DEF LostWhere, Free
  <2>2. p \notin ToSet(rxq) /\ p \notin ToSet(txq) /\ p \notin Held
    BY <1>1, <1>4, <1>5, <2>1
  <2>3. QED
    BY <1>1, <2>1, <2>2 DEF NInv, LostWhere, Free
<1>10. \A p \in ToSet(txq') \ cut' : SentOK(cache', Payload(pkt'[p]))
  BY <1>1 DEF NInv
<1>11. CacheGrows
  BY <1>1, CacheSame
<1>12. CacheOK'
  BY <1>11 DEF CacheGrows
<1>13. QED
  BY <1>6, <1>7, <1>8, <1>9, <1>10, <1>11, <1>12 DEF NInv

LEMMA TxStepOK ==
    ASSUME NInv, TxStep
    PROVE  NInv' /\ CacheGrows
<1> DEFINE q == Head(txq)
<1>1. /\ txq # <<>> /\ pkt' = [pkt EXCEPT ![q] = NULL] /\ txq' = Tail(txq)
      /\ cut' = cut \ {q}
      /\ rxq' = rxq /\ hand' = hand /\ rx' = rx /\ cache' = cache
  BY DEF TxStep
<1>2. /\ rxq \in Seq(Pkts) /\ txq \in Seq(Pkts)
      /\ ToSet(rxq) \subseteq Pkts /\ ToSet(txq) \subseteq Pkts
      /\ \A p \in ToSet(rxq) \union ToSet(txq) \union Held : ~Free(p)
  BY Queued
<1>3. /\ IsInjective(rxq) /\ IsInjective(txq) /\ ToSet(rxq) \intersect ToSet(txq) = {}
      /\ Held \intersect (ToSet(rxq) \union ToSet(txq)) = {}
  BY DEF NInv, OneHolder
<1>4. /\ q \in Pkts /\ txq' \in Seq(Pkts) /\ ToSet(txq) = {q} \union ToSet(txq')
      /\ q \notin ToSet(txq') /\ IsInjective(txq')
  BY <1>1, <1>2, <1>3, Unlinked
<1> HIDE DEF q
<1>5. Held' = Held /\ Held \subseteq Pkts
  BY <1>1 DEF Held, NInv, TypesOK
<1>6. /\ pkt' = [p \in Pkts |-> pkt'[p]] /\ pkt'[q] = NULL
      /\ \A p \in Pkts \ {q} : pkt'[p] = pkt[p]
  BY <1>1, <1>4, PktSet
<1>7. \A p \in ToSet(rxq) \union ToSet(txq') \union Held : pkt'[p] = pkt[p] /\ p # q
  BY <1>2, <1>3, <1>4, <1>5, <1>6
<1>8. TypesOK'
  <2>1. ASSUME NEW p \in Pkts
        PROVE  pkt'[p] = NULL \/ Buffer(pkt'[p])
    BY <1>6 DEF NInv, TypesOK, Free
  <2>2. cut' \subseteq ToSet(txq')
    BY <1>1, <1>4 DEF NInv, TypesOK
  <2>3. rx' \in RxAt /\ hand' \in Pkts \union {NULL} /\ (rx' = "handle" <=> hand' # NULL)
    BY <1>1 DEF NInv, TypesOK
  <2>4. rxq' \in Seq(Pkts)
    BY <1>1, <1>2
  <2>5. QED
    BY <1>4, <1>6, <2>1, <2>2, <2>3, <2>4 DEF TypesOK, Free
<1>9. OneHolder'
  <2>1. \A p \in ToSet(rxq') \union ToSet(txq') \union Held' : pkt'[p] # NULL
    BY <1>1, <1>2, <1>4, <1>5, <1>7 DEF Free
  <2>2. /\ ToSet(rxq') \intersect ToSet(txq') = {}
        /\ Held' \intersect (ToSet(rxq') \union ToSet(txq')) = {}
    BY <1>1, <1>3, <1>4, <1>5
  <2>3. IsInjective(rxq')
    BY <1>1, <1>3
  <2>4. QED
    BY <1>4, <2>1, <2>2, <2>3 DEF OneHolder, Free
<1>10. ReceivedOK'
  BY <1>1, <1>5, <1>7 DEF NInv, ReceivedOK
<1>11. LostWhere'
  <2>1. SUFFICES ASSUME NEW p \in Pkts, p \notin ToSet(rxq'), p \notin ToSet(txq'),
                        p \notin Held', pkt'[p] # NULL
                 PROVE  LeftBehind(pkt'[p])
    BY DEF LostWhere, Free
  <2>2. p # q /\ p \notin ToSet(rxq) /\ p \notin ToSet(txq) /\ p \notin Held
    BY <1>1, <1>4, <1>5, <1>6, <2>1
  <2>3. QED
    BY <1>6, <2>1, <2>2 DEF NInv, LostWhere, Free
<1>12. ASSUME NEW p \in ToSet(txq') \ cut'
       PROVE  SentOK(cache', Payload(pkt'[p]))
  <2>1. p \in ToSet(txq) \ cut /\ pkt'[p] = pkt[p]
    BY <1>1, <1>4, <1>7, <1>12
  <2>2. QED
    BY <1>1, <2>1 DEF NInv
<1>13. CacheGrows
  BY <1>1, CacheSame
<1>14. CacheOK'
  BY <1>13 DEF CacheGrows
<1>15. QED
  BY <1>8, <1>9, <1>10, <1>11, <1>12, <1>13, <1>14 DEF NInv

\* The receive task between two packets; a step in which nothing happens
LEMMA IdleOK ==
    ASSUME NInv, RxEmpty \/ RxWait \/ UNCHANGED vars
    PROVE  NInv' /\ CacheGrows
<1>1. /\ pkt' = pkt /\ rxq' = rxq /\ txq' = txq /\ hand' = hand
      /\ cache' = cache /\ cut' = cut
  BY DEF RxEmpty, RxWait, vars
<1>2. rx' \in RxAt /\ (rx' = "handle" <=> rx = "handle")
  BY DEF NInv, TypesOK, RxEmpty, RxWait, vars, RxAt
<1>3. TypesOK'
  BY <1>1, <1>2 DEF NInv, TypesOK, Free
<1>4. OneHolder' /\ ReceivedOK' /\ LostWhere'
  BY <1>1 DEF NInv, OneHolder, ReceivedOK, LostWhere, Held, Free
<1>5. \A p \in ToSet(txq') \ cut' : SentOK(cache', Payload(pkt'[p]))
  BY <1>1 DEF NInv
<1>6. CacheGrows
  BY <1>1, CacheSame
<1>7. CacheOK'
  BY <1>6 DEF CacheGrows
<1>8. QED
  BY <1>3, <1>4, <1>5, <1>6, <1>7 DEF NInv

LEMMA NInvInit == Init => NInv
<1> SUFFICES ASSUME Init
             PROVE  NInv
  OBVIOUS
<1>1. /\ pkt = [p \in Pkts |-> NULL] /\ rxq = <<>> /\ txq = <<>> /\ hand = NULL
      /\ rx = "leave" /\ cache = <<>> /\ cut = {}
  BY DEF Init
<1>2. \A p \in Pkts : pkt[p] = NULL
  BY <1>1, Zenon
<1>3. ToSet(rxq) = {} /\ ToSet(txq) = {} /\ Held = {} /\ DOMAIN cache = {}
  BY <1>1 DEF ToSet, Held
<1>4. IsInjective(rxq) /\ IsInjective(txq)
  BY <1>1 DEF IsInjective
<1>5. TypesOK
  <2>1. pkt = [p \in Pkts |-> pkt[p]]
    BY <1>1, <1>2, Zenon
  <2>2. QED
    BY <1>1, <1>2, <1>3, <2>1 DEF TypesOK, Free, RxAt
<1>6. OneHolder /\ ReceivedOK /\ LostWhere
  BY <1>2, <1>3, <1>4 DEF OneHolder, ReceivedOK, LostWhere, Free
<1>7. CacheOK
  BY <1>1, <1>3 DEF CacheOK, Resolved
<1>8. QED
  BY <1>3, <1>5, <1>6, <1>7 DEF NInv

LEMMA NInvStep ==
    ASSUME NoPacket, NInv, [Next]_vars
    PROVE  NInv' /\ CacheGrows
<1>1. CASE \E f \in Frames : DriverRx(f)
  BY <1>1, DriverRxOK
<1>2. CASE RxTake
  BY <1>2, RxTakeOK
<1>3. CASE RxEmpty \/ RxWait \/ UNCHANGED vars
  BY <1>3, IdleOK
<1>4. CASE Handle
  BY <1>4, HandleOK
<1>5. CASE TxStep
  BY <1>5, TxStepOK
<1>6. QED
  BY <1>1, <1>2, <1>3, <1>4, <1>5 DEF Next, RxStep

LEMMA NInvAlways ==
    ASSUME NoPacket
    PROVE  Spec => []NInv
<1>1. NInv /\ [Next]_vars => NInv'
  BY NInvStep
<1>2. QED
  BY NInvInit, <1>1, PTL DEF Spec

-----------------------------------------------------------------------------
(* What follows *)

\* A buffer never overflows: whatever the handlers strip, trim, overwrite and put
\* in front, a packet's length stays within a buffer of the size pkt_alloc and
\* pkt_grow give buffers.
THEOREM TypeCorrect ==
    ASSUME NoPacket
    PROVE  Spec => []TypeOK
<1>1. ASSUME NEW x, Buffer(x)
      PROVE  /\ DOMAIN x = {"data", "len"} /\ x.len \in 0 .. Allocated(x)
             /\ Allocated(x) % Padding = 0
  <2>1. PICK C : x \in Packets(C)
    BY <1>1 DEF Buffer
  <2>2. x \in [data : Seq(C), len : Nat]
    BY <2>1 DEF Packets
  <2>3. DOMAIN x = {"data", "len"}
    BY <2>2
  <2>4. x.len \in 0 .. Allocated(x)
    BY <2>1, PacketParts
  <2>5. QED
    BY <1>1, <2>3, <2>4 DEF Buffer
<1>2. NInv => TypeOK
  BY <1>1 DEF NInv, TypesOK, TypeOK
<1>3. QED
  BY NInvAlways, <1>2, PTL

\* No packet is in two queues or twice in one, and none that is queued or being
\* processed was freed: pkt_free and the queues of the Ethernet framework agree
\* on every path through the handlers.
THEOREM PacketsHaveOneHolder ==
    ASSUME NoPacket
    PROVE  Spec => []OneHolder
<1>1. NInv => OneHolder
  BY DEF NInv
<1>2. QED
  BY NInvAlways, <1>1, PTL

\* Replies and questions are complete and addressed to the right host, also when
\* the cache changed after they were queued.
THEOREM FramesSentRight ==
    ASSUME NoPacket
    PROVE  Spec => []SentRight
<1>1. NInv => SentRight
  BY DEF NInv, SentRight, SentOK
<1>2. QED
  BY NInvAlways, <1>1, PTL

\* Packets are lost only by the returns of the handlers that free nothing.
THEOREM LossesKnown ==
    ASSUME NoPacket
    PROVE  Spec => []LostWhere
<1>1. NInv => LostWhere
  BY DEF NInv
<1>2. QED
  BY NInvAlways, <1>1, PTL

\* The hardware address known for an IP address is never replaced.
THEOREM AddressesKept ==
    ASSUME NoPacket
    PROVE  Spec => CacheKeeps
<1> DEFINE Keeps == \A e \in ToSet(cache) :
                        CacheLookup(cache', e.proto) = CacheLookup(cache, e.proto)
<1>1. ASSUME NInv, [Next]_vars
      PROVE  Keeps
  <2>1. CacheGrows
    BY <1>1, NInvStep
  <2>2. PICK C : cache \in Seq(C)
    BY <1>1 DEF NInv, CacheOK
  <2>3. Resolved(cache)
    BY <1>1 DEF NInv, CacheOK
  <2>4. ASSUME NEW e \in ToSet(cache)
        PROVE  CacheLookup(cache, e.proto) # NULL
    <3>1. PICK i \in 1 .. Len(cache) : cache[i] = e
      BY <2>2, LenProperties DEF ToSet
    <3>2. CacheLookup(cache, cache[i].proto) # NULL
      BY <2>2, <2>3, LookupFinds
    <3>3. QED
      BY <3>1, <3>2
  <2>5. QED
    BY <2>1, <2>4 DEF CacheGrows
<1>2. NInv /\ [Next]_vars => [Keeps]_vars
  BY <1>1
<1>3. QED
  BY NInvAlways, <1>2, PTL DEF Spec, CacheKeeps
=============================================================================
