----------------------------- MODULE MemProofs -----------------------------
(***************************************************************************)
(* Theorems about the allocator Mem for any number of steps and chunks and *)
(* any sizes: what malloc returns is large enough, a chunk that is not the *)
(* first of its step is in one place only, and what smalloc returns is     *)
(* disjoint.                                                               *)
(***************************************************************************)
EXTENDS Mem, BfifoProofs, FiniteSetTheorems, WellFoundedInduction

-----------------------------------------------------------------------------
(* Powers of two, of which the provers know nothing: 2^n is the number of  *)
(* subsets of 1 .. n.                                                      *)

LEMMA PowerOfTwo ==
    ASSUME NEW n \in Nat
    PROVE  /\ 2^n \in Nat
           /\ IsFiniteSet(SUBSET (1 .. n)) /\ Cardinality(SUBSET (1 .. n)) = 2^n
<1>1. IsFiniteSet(1 .. n) /\ Cardinality(1 .. n) = n
  <2>1. Cardinality(1 .. n) = IF 1 > n THEN 0 ELSE n - 1 + 1
    BY FS_Interval
  <2>2. QED
    BY <2>1, FS_Interval
<1>2. IsFiniteSet(SUBSET (1 .. n)) /\ Cardinality(SUBSET (1 .. n)) = 2^n
  BY <1>1, FS_SUBSET
<1>3. QED
  BY <1>2, FS_CardinalityType

\* Shifting by one more bit doubles: as many subsets of 1 .. n + 1 hold n + 1 as
\* do not.
LEMMA PowerDoubles ==
    ASSUME NEW n \in Nat
    PROVE  2^(n + 1) = 2 * 2^n
<1>. DEFINE A == SUBSET (1 .. n)
            B == {x \in SUBSET (1 .. n + 1) : n + 1 \in x}
            f == [x \in A |-> x \cup {n + 1}]
<1>1. A \cup B = SUBSET (1 .. n + 1)
  <2>1. ASSUME NEW x \in SUBSET (1 .. n + 1), n + 1 \notin x
        PROVE  x \in A
    <3>1. \A e \in x : e \in 1 .. n + 1 /\ e # n + 1
      BY <2>1
    <3>2. \A e \in 1 .. n + 1 : e # n + 1 => e \in 1 .. n
      OBVIOUS
    <3>3. QED
      BY <3>1, <3>2
  <2>2. 1 .. n \subseteq 1 .. n + 1
    OBVIOUS
  <2>3. QED
    BY <2>1, <2>2
<1>2. A \cap B = {}
  <2>1. n + 1 \notin 1 .. n
    OBVIOUS
  <2>2. QED
    BY <2>1
<1>3. ExistsBijection(A, B)
  <2>1. n + 1 \notin 1 .. n /\ n + 1 \in 1 .. n + 1 /\ 1 .. n \subseteq 1 .. n + 1
    OBVIOUS
  <2>2. f \in [A -> B]
    BY <2>1
  <2>3. ASSUME NEW x \in A, NEW y \in A, f[x] = f[y]
        PROVE  x = y
    <3>1. x \cup {n + 1} = y \cup {n + 1} /\ n + 1 \notin x /\ n + 1 \notin y
      BY <2>1, <2>3
    <3>2. QED
      BY <3>1
  <2>4. ASSUME NEW y \in B
        PROVE  \E x \in A : f[x] = y
    <3>1. \A e \in 1 .. n + 1 : e # n + 1 => e \in 1 .. n
      OBVIOUS
    <3>2. y \ {n + 1} \in A /\ (y \ {n + 1}) \cup {n + 1} = y
      BY <3>1
    <3>3. QED
      BY <3>2
  <2>5. f \in Bijection(A, B)
    <3>. HIDE DEF f, A, B
    <3>1. f \in Injection(A, B)
      BY <2>2, <2>3 DEF Injection, IsInjective
    <3>2. f \in Surjection(A, B)
      BY <2>2, <2>4 DEF Surjection
    <3>3. QED
      BY <3>1, <3>2 DEF Bijection
  <2>6. QED
    BY <2>5 DEF ExistsBijection
<1>4. IsFiniteSet(A) /\ Cardinality(A) = 2^n /\ 2^n \in Nat
  BY PowerOfTwo
<1>5. IsFiniteSet(B) /\ Cardinality(B) = 2^n
  BY <1>3, <1>4, FS_Bijection
<1>6. Cardinality(A \cup B) = 2^(n + 1)
  <2>1. n + 1 \in Nat
    OBVIOUS
  <2>2. QED
    BY <1>1, <2>1, PowerOfTwo
<1>7. Cardinality(A \cup B) = 2^n + 2^n
  <2>. HIDE DEF A, B
  <2>1. Cardinality(A \cap B) = 0
    BY <1>2, FS_EmptySet
  <2>2. QED
    BY <1>4, <1>5, <2>1, FS_Union
<1>8. QED
  BY <1>4, <1>6, <1>7

LEMMA PowerPositive ==
    ASSUME NEW n \in Nat
    PROVE  2^n \in Nat \ {0}
<1>1. IsFiniteSet(SUBSET (1 .. n)) /\ Cardinality(SUBSET (1 .. n)) = 2^n /\ 2^n \in Nat
  BY PowerOfTwo
<1>2. SUBSET (1 .. n) # {}
  OBVIOUS
<1>3. QED
  BY <1>1, <1>2, FS_EmptySet

-----------------------------------------------------------------------------
(* The layout *)

\* A product with a multiple of four is one.
LEMMA FourTimes ==
    ASSUME NEW a \in Nat, a % 4 = 0, NEW n \in Nat
    PROVE  a * n \in Nat /\ (a * n) % 4 = 0
<1>1. PICK k \in Nat : a = 4 * k
  <2>1. a = 4 * (a \div 4) /\ a \div 4 \in Nat
    OBVIOUS
  <2>2. QED
    BY <2>1
<1>2. a * n = 4 * (k * n) /\ k * n \in Nat
  BY <1>1
<1>. DEFINE m == k * n
<1>3. m \in Nat /\ a * n = 4 * m
  BY <1>2
<1>. HIDE DEF m
<1>4. QED
  BY <1>3

LEMMA ProductPositive ==
    ASSUME NEW a \in Nat \ {0}, NEW b \in Nat \ {0}
    PROVE  a * b \in Nat \ {0} /\ a * b = b * a
OBVIOUS

\* The chunks of a step have a size, which the next step doubles, and begin
\* where those of the step before end.
LEMMA Layout ==
    ASSUME NEW i \in Nat \ {0}
    PROVE  /\ DescSize(i) \in Nat \ {0} /\ DescSize(i) % 4 = 0
           /\ DescSize(i + 1) = 2 * DescSize(i)
           /\ Start(i) \in Nat /\ Start(i) % 4 = 0
           /\ End(i) = Start(i) + Num * DescSize(i)
           /\ Start(i + 1) = End(i)
<1>. DEFINE P == 2^(i - 1)
<1>1. i - 1 \in Nat /\ (i - 1) + 1 = i /\ (i + 1) - 1 = i
  OBVIOUS
<1>2. P \in Nat \ {0} /\ 2^i = 2 * P
  <2>1. P \in Nat \ {0}
    BY <1>1, PowerPositive
  <2>2. 2^((i - 1) + 1) = 2 * P
    BY <1>1, PowerDoubles
  <2>3. QED
    BY <1>1, <2>1, <2>2
<1>3. /\ Steps \in Nat /\ Num \in Nat /\ MetaSize \in Nat /\ MetaSize % 4 = 0
      /\ AllocMin \in Nat \ {0} /\ AllocMin % 4 = 0
  BY MemAssumption
<1>4. /\ DescSize(i) = AllocMin * P /\ DescSize(i + 1) = AllocMin * (2 * P)
      /\ Start(i) = Steps * MetaSize + Num * AllocMin * (P - 1)
      /\ Start(i + 1) = Steps * MetaSize + Num * AllocMin * (2 * P - 1)
      /\ End(i) = Start(i) + Num * DescSize(i)
  BY <1>1, <1>2 DEF DescSize, Start, End
<1>. HIDE DEF P
<1>5. /\ DescSize(i) \in Nat \ {0} /\ DescSize(i) % 4 = 0
      /\ DescSize(i + 1) = 2 * DescSize(i)
  <2>1. (AllocMin * P) % 4 = 0 /\ AllocMin * P \in Nat
    BY <1>2, <1>3, FourTimes
  <2>2. AllocMin * P # 0 /\ AllocMin * (2 * P) = 2 * (AllocMin * P)
    BY <1>2, <1>3
  <2>3. QED
    BY <1>4, <2>1, <2>2
<1>6. Start(i) \in Nat /\ Start(i) % 4 = 0
  <2>1. MetaSize * Steps \in Nat /\ (MetaSize * Steps) % 4 = 0
    BY <1>3, FourTimes
  <2>2. Num * (P - 1) \in Nat
    BY <1>2, <1>3
  <2>3. AllocMin * (Num * (P - 1)) \in Nat /\ (AllocMin * (Num * (P - 1))) % 4 = 0
    BY <1>3, <2>2, FourTimes
  <2>4. Start(i) = MetaSize * Steps + AllocMin * (Num * (P - 1))
    BY <1>2, <1>3, <1>4
  <2>. DEFINE x == MetaSize * Steps
              y == AllocMin * (Num * (P - 1))
  <2>5. x \in Nat /\ x % 4 = 0 /\ y \in Nat /\ y % 4 = 0 /\ Start(i) = x + y
    BY <2>1, <2>3, <2>4
  <2>. HIDE DEF x, y
  <2>6. QED
    BY <2>5
<1>7. Start(i + 1) = End(i)
  <2>. DEFINE q == Num * AllocMin
  <2>1. q \in Nat /\ q * (2 * P - 1) = q * (P - 1) + q * P /\ q * P = Num * (AllocMin * P)
    BY <1>2, <1>3
  <2>2. Steps * MetaSize \in Nat /\ q * (P - 1) \in Nat /\ q * P \in Nat
    BY <1>2, <1>3, <2>1
  <2>3. QED
    BY <1>4, <2>1, <2>2
<1>8. QED
  BY <1>4, <1>5, <1>6, <1>7

\* A set of numbers has a least one.
LEMMA LeastIsLeast ==
    ASSUME NEW S, S \subseteq Nat, S # {}
    PROVE  Least(S) \in S /\ \A m \in S : Least(S) <= m
<1>. DEFINE Less == {ss \in Nat \X Nat : ss[1] < ss[2]}
<1>1. IsWellFoundedOn(Less, Nat)
  <2>1. OpToRel(<, Nat) = Less
    BY Zenon DEF OpToRel
  <2>2. QED
    BY <2>1, NatLessThanWellFounded, Zenon
<1>2. PICK n \in S : \A m \in S : <<m, n>> \notin Less
  <2>. HIDE DEF Less
  <2>1. QED
    BY <1>1, WFMin, Zenon
<1>3. \A m \in S : n <= m
  <2>. SUFFICES ASSUME NEW m \in S
                PROVE  n <= m
    OBVIOUS
  <2>1. m \in Nat /\ n \in Nat
    OBVIOUS
  <2>2. m < n => <<m, n>> \in Less
    BY <2>1
  <2>3. ~(m < n)
    BY <1>2, <2>2
  <2>4. QED
    BY <2>1, <2>3
<1>4. QED
  BY <1>3 DEF Least

\* So a step ends before every later one begins, and has the smaller chunks.
LEMMA StepsAscend ==
    ASSUME NEW i \in Nat \ {0}, NEW k \in Nat, i < k
    PROVE  /\ End(i) \in Nat /\ End(i) % 4 = 0 /\ Start(i) < End(i)
           /\ End(i) <= Start(k) /\ DescSize(i) < DescSize(k)
<1>. DEFINE Ok(n) == End(i) <= Start(n) /\ DescSize(i) < DescSize(n)
            Bad == {n \in Nat : i < n /\ ~Ok(n)}
<1>1. End(i) \in Nat /\ End(i) % 4 = 0 /\ Start(i) < End(i)
  <2>1. /\ Start(i) \in Nat /\ Start(i) % 4 = 0 /\ End(i) = Start(i) + Num * DescSize(i)
        /\ DescSize(i) \in Nat \ {0} /\ DescSize(i) % 4 = 0
    BY Layout
  <2>2. Num \in Nat \ {0}
    BY MemAssumption
  <2>. DEFINE d == DescSize(i) * Num
  <2>3. d \in Nat /\ d % 4 = 0
    BY <2>1, <2>2, FourTimes
  <2>4. d # 0 /\ End(i) = Start(i) + d
    <3>1. DescSize(i) * Num # 0 /\ DescSize(i) * Num = Num * DescSize(i)
      BY <2>1, <2>2, ProductPositive
    <3>2. QED
      BY <2>1, <3>1
  <2>. HIDE DEF d
  <2>5. QED
    BY <2>1, <2>3, <2>4
<1>2. SUFFICES ASSUME Bad # {}
               PROVE  FALSE
  BY <1>1
<1>3. PICK n \in Bad : \A m \in 0 .. n - 1 : m \notin Bad
  <2>. HIDE DEF Bad
  <2>1. Bad \subseteq Nat
    BY DEF Bad
  <2>2. Least(Bad) \in Bad /\ \A m \in Bad : Least(Bad) <= m
    BY <1>2, <2>1, LeastIsLeast
  <2>3. \A m \in 0 .. Least(Bad) - 1 : m \notin Bad
    <3>1. SUFFICES ASSUME NEW m \in 0 .. Least(Bad) - 1, m \in Bad
                   PROVE  FALSE
      OBVIOUS
    <3>2. Least(Bad) <= m /\ Least(Bad) \in Nat
      BY <2>1, <2>2, <3>1
    <3>3. QED
      BY <3>2
  <2>4. QED
    BY <2>2, <2>3
<1>4. n \in Nat /\ i < n /\ ~Ok(n)
  BY <1>3
<1>5. n # i + 1
  <2>1. Ok(i + 1)
    BY <1>1, Layout
  <2>2. QED
    BY <1>4, <2>1
<1>6. i < n - 1 /\ n - 1 \in Nat \ {0} /\ n - 1 \in 0 .. n - 1 /\ (n - 1) + 1 = n
  BY <1>4, <1>5
<1>7. Ok(n - 1)
  BY <1>3, <1>6
<1>8. /\ Start(n) = Start(n - 1) + Num * DescSize(n - 1) /\ Start(n - 1) \in Nat
      /\ DescSize(n) = 2 * DescSize(n - 1) /\ DescSize(n - 1) \in Nat \ {0}
  <2>1. /\ End(n - 1) = Start(n - 1) + Num * DescSize(n - 1)
        /\ Start((n - 1) + 1) = End(n - 1) /\ Start(n - 1) \in Nat
        /\ DescSize((n - 1) + 1) = 2 * DescSize(n - 1) /\ DescSize(n - 1) \in Nat \ {0}
    BY <1>6, Layout
  <2>2. QED
    BY <1>6, <2>1
<1>9. Num * DescSize(n - 1) \in Nat
  BY <1>8, MemAssumption
<1>10. DescSize(i) \in Nat
  BY Layout
<1>11. QED
  BY <1>1, <1>4, <1>7, <1>8, <1>9, <1>10

-----------------------------------------------------------------------------
(* The chunks *)

LEMMA MultiplesApart ==
    ASSUME NEW d \in Nat \ {0}, NEW m \in Nat, NEW n \in Nat, m < n
    PROVE  m * d \in Nat /\ n * d \in Nat /\ m * d + d <= n * d
<1>1. PICK k \in Nat : n = m + 1 + k
  <2>1. n = m + 1 + (n - m - 1) /\ n - m - 1 \in Nat
    OBVIOUS
  <2>2. QED
    BY <2>1
<1>2. n * d = m * d + d + k * d /\ k * d \in Nat /\ m * d \in Nat
  BY <1>1
<1>3. QED
  BY <1>2

LEMMA DescSizeType ==
    ASSUME NEW i \in 1 .. Steps
    PROVE  /\ DescSize(i) \in Nat \ {0} /\ Start(i) \in Nat
           /\ End(i) \in Nat /\ Num \in Nat \ {0}
<1>1. i \in Nat \ {0} /\ Num \in Nat \ {0}
  BY MemAssumption
<1>2. End(i) \in Nat
  <2>1. i + 1 \in Nat /\ i < i + 1
    BY <1>1
  <2>2. QED
    BY <1>1, <2>1, StepsAscend
<1>3. QED
  BY <1>1, <1>2, Layout

\* A chunk lies within its step, and is its first one or behind its start.
LEMMA ChunkInStep ==
    ASSUME NEW i \in 1 .. Steps, NEW j \in 1 .. Num
    PROVE  /\ Chunk(i, j) \in Nat
           /\ Start(i) <= Chunk(i, j) /\ Chunk(i, j) < End(i)
           /\ j # 1 => Start(i) < Chunk(i, j)
<1>. DEFINE d == DescSize(i)
<1>1. /\ d \in Nat \ {0} /\ Start(i) \in Nat /\ Num \in Nat \ {0}
      /\ End(i) = Start(i) + Num * d /\ Chunk(i, j) = Start(i) + (j - 1) * d
  BY DescSizeType DEF End, Chunk
<1>. HIDE DEF d
<1>2. j - 1 \in Nat /\ j - 1 < Num
  BY <1>1
<1>3. (j - 1) * d \in Nat /\ Num * d \in Nat /\ (j - 1) * d + d <= Num * d
  BY <1>1, <1>2, MultiplesApart
<1>4. j # 1 => (j - 1) * d # 0
  <2>1. j # 1 => 0 < j - 1
    BY <1>2
  <2>2. j # 1 => 0 * d + d <= (j - 1) * d /\ 0 * d \in Nat
    BY <1>1, <1>2, <2>1, MultiplesApart
  <2>3. QED
    BY <1>1, <1>3, <2>2
<1>5. QED
  BY <1>1, <1>3, <1>4

\* Different chunks of a step are at different places.
LEMMA ChunksOfStepApart ==
    ASSUME NEW i \in 1 .. Steps, NEW j \in 1 .. Num, NEW m \in 1 .. Num, j < m
    PROVE  Chunk(i, j) + DescSize(i) <= Chunk(i, m)
<1>. DEFINE d == DescSize(i)
<1>1. /\ d \in Nat \ {0} /\ Start(i) \in Nat /\ Num \in Nat \ {0}
      /\ Chunk(i, j) = Start(i) + (j - 1) * d /\ Chunk(i, m) = Start(i) + (m - 1) * d
  BY DescSizeType DEF Chunk
<1>. HIDE DEF d
<1>2. j - 1 \in Nat /\ m - 1 \in Nat /\ j - 1 < m - 1
  BY <1>1
<1>3. (j - 1) * d \in Nat /\ (m - 1) * d \in Nat /\ (j - 1) * d + d <= (m - 1) * d
  BY <1>1, <1>2, MultiplesApart
<1>4. QED
  BY <1>1, <1>3 DEF d

\* Chunks of different steps are at different places.
LEMMA ChunksOfStepsApart ==
    ASSUME NEW i \in 1 .. Steps, NEW k \in 1 .. Steps, i < k,
           NEW j \in 1 .. Num, NEW m \in 1 .. Num
    PROVE  Chunk(i, j) < Chunk(k, m) /\ DescSize(i) < DescSize(k) /\ End(i) <= Start(k)
<1>1. i \in Nat \ {0} /\ k \in Nat
  BY MemAssumption
<1>2. End(i) <= Start(k) /\ DescSize(i) < DescSize(k)
  BY <1>1, StepsAscend
<1>3. /\ Chunk(i, j) \in Nat /\ Chunk(k, m) \in Nat
      /\ Chunk(i, j) < End(i) /\ Start(k) <= Chunk(k, m)
      /\ End(i) \in Nat /\ Start(k) \in Nat
  BY ChunkInStep, DescSizeType
<1>4. QED
  BY <1>2, <1>3

LEMMA ChunkInjective ==
    ASSUME NEW i \in 1 .. Steps, NEW k \in 1 .. Steps, NEW j \in 1 .. Num, NEW m \in 1 .. Num,
           Chunk(i, j) = Chunk(k, m)
    PROVE  i = k /\ j = m
<1>1. Chunk(i, j) \in Nat /\ Chunk(k, m) \in Nat
  BY ChunkInStep
<1>2. i \in Nat /\ k \in Nat /\ j \in Nat /\ m \in Nat
  BY MemAssumption
<1>3. ~(i < k) /\ ~(k < i)
  BY <1>1, ChunksOfStepsApart
<1>4. i = k
  BY <1>2, <1>3
<1>5. ~(j < m) /\ ~(m < j)
  <2>1. DescSize(i) \in Nat \ {0} /\ DescSize(k) \in Nat \ {0}
    BY DescSizeType
  <2>2. j < m => Chunk(i, j) + DescSize(i) <= Chunk(i, m)
    BY ChunksOfStepApart
  <2>3. m < j => Chunk(i, m) + DescSize(i) <= Chunk(i, j)
    BY ChunksOfStepApart
  <2>4. QED
    BY <1>1, <1>4, <2>1, <2>2, <2>3
<1>6. QED
  BY <1>2, <1>4, <1>5

\* A chunk has the size of its step.
LEMMA SizeOfChunk ==
    ASSUME NEW i \in 1 .. Steps, NEW j \in 1 .. Num
    PROVE  SizeAt(Chunk(i, j)) = DescSize(i)
<1>. DEFINE p == Chunk(i, j)
            Fits(d) == \E k \in 1 .. Steps, m \in 1 .. Num : p = Chunk(k, m) /\ d = DescSize(k)
            Ds == {DescSize(k) : k \in 1 .. Steps}
<1>1. DescSize(i) \in Ds /\ Fits(DescSize(i))
  OBVIOUS
<1>2. ASSUME NEW d \in Ds, Fits(d)
      PROVE  d = DescSize(i)
  BY <1>2, ChunkInjective
<1>3. SizeAt(p) = CHOOSE d \in Ds : Fits(d)
  BY DEF SizeAt
<1>. HIDE DEF p, Fits, Ds
<1>4. SizeAt(p) = DescSize(i)
  BY <1>1, <1>2, <1>3
<1>5. QED
  BY <1>4 DEF p

\* free() finds a chunk within its own step and, if it is the first of that
\* step, within the step before as well; never within one of larger chunks.
LEMMA WithinOwnStep ==
    ASSUME NEW i \in 1 .. Steps, NEW k \in 1 .. Steps, NEW m \in 1 .. Num,
           Within(i, Chunk(k, m))
    PROVE  /\ DescSize(i) <= SizeAt(Chunk(k, m))
           /\ i = k \/ Chunk(k, m) = Start(k)
<1>1. /\ Start(i) <= Chunk(k, m) /\ Chunk(k, m) <= End(i) /\ Chunk(k, m) \in Nat
      /\ Chunk(k, m) < End(k) /\ Start(k) <= Chunk(k, m)
      /\ Start(i) \in Nat /\ End(i) \in Nat /\ Start(k) \in Nat /\ End(k) \in Nat
      /\ DescSize(i) \in Nat /\ DescSize(k) \in Nat
  BY ChunkInStep, DescSizeType DEF Within
<1>2. i \in Nat \ {0} /\ k \in Nat \ {0}
  BY MemAssumption
<1>3. ~(k < i)
  <2>1. k < i => End(k) <= Start(i)
    BY <1>2, StepsAscend
  <2>2. QED
    BY <1>1, <2>1
<1>4. i < k => End(i) <= Start(k) /\ DescSize(i) < DescSize(k)
  BY <1>2, StepsAscend
<1>5. SizeAt(Chunk(k, m)) = DescSize(k)
  BY SizeOfChunk
<1>6. QED
  BY <1>1, <1>2, <1>3, <1>4, <1>5

-----------------------------------------------------------------------------
(* smalloc *)

\* Taking what is left modulo a word makes no more of it.
LEMMA LeftIsNoMore ==
    ASSUME NEW x \in Nat, NEW w \in Nat \ {0}
    PROVE  (x + w) % w \in Nat /\ (x + w) % w <= x
<1>. DEFINE r == (x + w) % w
            q == (x + w) \div w
<1>1. r \in 0 .. w - 1 /\ q \in Int /\ x + w = w * q + r
  OBVIOUS
<1>. HIDE DEF r, q
<1>2. w * 1 = w /\ (q > 0 => w * q = w * (q - 1) + w /\ w * (q - 1) >= 0)
  BY <1>1
<1>3. q > 0
  <2>1. q <= 0 => w * q <= 0
    BY <1>1
  <2>2. QED
    BY <1>1, <2>1
<1>4. r <= x
  BY <1>1, <1>2, <1>3
<1>5. QED
  BY <1>1, <1>4 DEF r

\* The next boundary does not lie behind a later boundary.
LEMMA RealignStays ==
    ASSUME NEW a \in Nat, NEW b \in Nat, b % 4 = 0, a <= b
    PROVE  /\ Realign(a) \in Nat /\ Realign(a) % 4 = 0
           /\ a <= Realign(a) /\ Realign(a) <= b
BY DEF Realign

\* heap_cur is a boundary between the chunks and the end of the heap, and
\* everything smalloc returned lies between the chunks and heap_cur.
HeapOK ==
    /\ heap_cur \in Nat /\ heap_cur % 4 = 0
    /\ End(Steps) <= heap_cur /\ heap_cur <= HeapSize
    /\ static \subseteq Nat \X Nat
    /\ \A r \in static : End(Steps) <= r[1] /\ r[1] <= r[2] /\ r[2] <= heap_cur

StaticInv == HeapOK /\ StaticDisjoint

LEMMA HeapBounds ==
    /\ End(Steps) \in Nat /\ End(Steps) % 4 = 0 /\ HeapSize \in Nat
    /\ HeapSize % 4 = 0 /\ End(Steps) <= HeapSize
<1>1. Steps \in Nat \ {0} /\ Steps + 1 \in Nat /\ Steps < Steps + 1
  BY MemAssumption
<1>2. End(Steps) \in Nat /\ End(Steps) % 4 = 0
  BY <1>1, StepsAscend
<1>3. StaticSize \in Nat /\ StaticSize % 4 = 0 /\ HeapSize = End(Steps) + StaticSize
  BY MemAssumption DEF HeapSize
<1>4. QED
  BY <1>2, <1>3

LEMMA SmallocKeepsRegions ==
    ASSUME NEW size \in StaticSizes, StaticInv, Smalloc(size)
    PROVE  StaticInv'
<1>1. /\ End(Steps) \in Nat /\ HeapSize \in Nat /\ HeapSize % 4 = 0
      /\ End(Steps) <= HeapSize /\ size \in Nat /\ Word \in Nat \ {0}
  BY HeapBounds, MemAssumption
<1>2. /\ heap_cur \in Nat /\ End(Steps) <= heap_cur /\ heap_cur <= HeapSize
      /\ static \subseteq Nat \X Nat
      /\ \A r \in static : End(Steps) <= r[1] /\ r[1] <= r[2] /\ r[2] <= heap_cur
      /\ \A r, q \in static : r # q => r[2] <= q[1] \/ q[2] <= r[1]
  BY DEF StaticInv, HeapOK, StaticDisjoint
<1>. DEFINE new == <<heap_cur, heap_cur + size>>
<1>3. /\ static' = static \cup {new} /\ heap_cur' = Realign(heap_cur + size)
      /\ Left >= size
  BY DEF Smalloc
<1>4. heap_cur + size \in Nat /\ heap_cur + size <= HeapSize
  <2>1. HeapSize - heap_cur \in Nat
    BY <1>1, <1>2
  <2>2. ((HeapSize - heap_cur) + Word) % Word <= HeapSize - heap_cur
    BY <1>1, <2>1, LeftIsNoMore
  <2>3. HeapSize + Word - heap_cur = (HeapSize - heap_cur) + Word
    BY <1>1, <1>2
  <2>4. Left \in Nat /\ Left <= HeapSize - heap_cur
    BY <1>1, <2>1, <2>2, <2>3, LeftIsNoMore DEF Left
  <2>5. QED
    BY <1>1, <1>2, <1>3, <2>4
<1>5. /\ heap_cur' \in Nat /\ heap_cur' % 4 = 0
      /\ heap_cur + size <= heap_cur' /\ heap_cur' <= HeapSize
  BY <1>1, <1>3, <1>4, RealignStays
<1>6. new \in Nat \X Nat /\ new[1] = heap_cur /\ new[2] = heap_cur + size
  BY <1>2, <1>4
<1>. HIDE DEF new
<1>7. \A r \in static' : r \in Nat \X Nat /\ (r \in static \/ r = new)
  BY <1>2, <1>3, <1>6
<1>8. \A r \in static' : End(Steps) <= r[1] /\ r[1] <= r[2] /\ r[2] <= heap_cur'
  <2>. SUFFICES ASSUME NEW r \in static'
                PROVE  End(Steps) <= r[1] /\ r[1] <= r[2] /\ r[2] <= heap_cur'
    OBVIOUS
  <2>1. CASE r \in static
    <3>1. /\ End(Steps) <= r[1] /\ r[1] <= r[2] /\ r[2] <= heap_cur
          /\ r[1] \in Nat /\ r[2] \in Nat
      BY <1>2, <2>1
    <3>2. QED
      BY <1>1, <1>2, <1>5, <3>1
  <2>2. CASE r = new
    BY <1>1, <1>2, <1>5, <1>6, <2>2
  <2>3. QED
    BY <1>7, <2>1, <2>2
<1>9. \A r, q \in static' : r # q => r[2] <= q[1] \/ q[2] <= r[1]
  BY <1>2, <1>6, <1>7
<1>10. \A r \in static' : r[2] <= HeapSize
  <2>. SUFFICES ASSUME NEW r \in static'
                PROVE  r[2] <= HeapSize
    OBVIOUS
  <2>1. r[2] <= heap_cur' /\ r[2] \in Nat
    BY <1>7, <1>8
  <2>2. QED
    BY <1>1, <1>5, <2>1
<1>11. (End(Steps) <= heap_cur')
  BY <1>1, <1>2, <1>4, <1>5
<1>12. HeapOK'
  BY <1>5, <1>7, <1>8, <1>11 DEF HeapOK, HeapSize, End, Start, DescSize
<1>13. StaticDisjoint'
  BY <1>8, <1>9, <1>10 DEF StaticDisjoint, HeapSize, End, Start, DescSize
<1>14. QED
  BY <1>12, <1>13 DEF StaticInv

LEMMA StaticInvariant == Spec => []StaticInv
<1>1. Init => StaticInv
  <2>. SUFFICES ASSUME Init
                PROVE  StaticInv
    OBVIOUS
  <2>1. heap_cur = End(Steps) /\ static = {}
    BY DEF Init
  <2>2. QED
    BY <2>1, HeapBounds DEF StaticInv, HeapOK, StaticDisjoint
<1>2. StaticInv /\ [Next]_vars => StaticInv'
  <2>. SUFFICES ASSUME StaticInv, [Next]_vars
                PROVE  StaticInv'
    OBVIOUS
  <2>1. ASSUME NEW size \in StaticSizes, Smalloc(size)
        PROVE  StaticInv'
    BY <2>1, SmallocKeepsRegions
  <2>2. ASSUME UNCHANGED <<heap_cur, static>>
        PROVE  StaticInv'
    BY <2>2 DEF StaticInv, HeapOK, StaticDisjoint, HeapSize, End, Start, DescSize
  <2>3. ASSUME NEW s \in Slots, NEW size \in Sizes, Malloc(s, size)
        PROVE  StaticInv'
    BY <2>2, <2>3 DEF Malloc
  <2>4. ASSUME NEW s \in Slots, Free(s)
        PROVE  StaticInv'
    BY <2>2, <2>4 DEF Free
  <2>5. CASE UNCHANGED vars
    BY <2>2, <2>5 DEF vars
  <2>6. QED
    BY <2>1, <2>3, <2>4, <2>5 DEF Next
<1>3. QED
  BY <1>1, <1>2, PTL DEF Spec

\* What smalloc() returns lies behind all chunks and within the heap, and two of
\* its regions never overlap: what is left of the heap never wraps around, so
\* the comparison in smalloc() is one with the true size (kernel/mem.c:66).
THEOREM RegionsDisjoint == Spec => []StaticDisjoint
<1>1. StaticInv => StaticDisjoint
  BY DEF StaticInv
<1>2. QED
  BY <1>1, StaticInvariant, PTL

-----------------------------------------------------------------------------
(* malloc and free *)

\* The chunks that a FIFO of step i may hold: its own, and larger ones.
Enough(i) == {p \in Chunks : DescSize(i) <= SizeAt(p)}

FifoType == [head : Nat, tail : Nat, free : Nat, size : {Num}, elems : [0 .. Num - 1 -> Chunks]]

\* Every FIFO is well-formed and holds nothing too small for its step; so does
\* whoever asked for a block.
DescsOK ==
    /\ mem_desc \in [1 .. Steps -> [least_free : 0 .. Num, allocations : FifoType]]
    /\ \A i \in 1 .. Steps : IsBfifo(mem_desc[i].allocations, Enough(i))

HeldOK ==
    /\ held \in [Slots -> {NULL} \cup [ptr : Chunks, size : Sizes]]
    /\ \A s \in InUse : held[s].size <= SizeAt(held[s].ptr)

ChunkInv == DescsOK /\ HeldOK

\* A FIFO that holds what a step may hold has the type of every FIFO.
LEMMA FifoHasType ==
    ASSUME NEW i \in 1 .. Steps, NEW f, IsBfifo(f, Enough(i)), f.size = Num
    PROVE  f \in FifoType
<1>1. f \in [head : Nat, tail : Nat, free : Nat, size : Nat, elems : [0 .. Num - 1 -> Enough(i)]]
  BY DEF IsBfifo
<1>2. Enough(i) \subseteq Chunks
  BY DEF Enough
<1>3. QED
  BY <1>1, <1>2 DEF FifoType

\* Queueing and dequeueing leave the size alone.
LEMMA SizeStays ==
    ASSUME NEW S, NEW f, IsBfifo(f, S), NEW e
    PROVE  BfifoQueue(f, e).size = f.size /\ BfifoDequeue(f).size = f.size
BY DEF IsBfifo, BfifoQueue, BfifoDequeue

LEMMA MallocKeepsChunks ==
    ASSUME NEW s \in Slots, NEW size \in Sizes, ChunkInv, Malloc(s, size)
    PROVE  \E i \in 1 .. Steps :
             LET fifo == mem_desc[i].allocations
             IN  /\ ~BfifoIsEmpty(fifo)
                 /\ held' = [held EXCEPT ![s] = [ptr |-> BfifoFirst(fifo), size |-> size]]
                 /\ BfifoFirst(fifo) \in Enough(i) /\ size <= DescSize(i)
                 /\ BfifoFirst(fifo) = BfifoContents(fifo)[1]
                 /\ \A k \in 1 .. Steps : mem_desc'[k].allocations =
                       IF k = i THEN BfifoDequeue(fifo) ELSE mem_desc[k].allocations
                 /\ DescsOK'
<1>. DEFINE able == {i \in 1 .. Steps : LargeEnough(i, size)
                                         /\ ~BfifoIsEmpty(mem_desc[i].allocations)}
            i == Least(able)
            fifo == mem_desc[i].allocations
            rest == BfifoDequeue(fifo)
<1>1. /\ able # {} /\ held[s] = NULL
      /\ held' = [held EXCEPT ![s] = [ptr |-> BfifoFirst(fifo), size |-> size]]
      /\ mem_desc' = [mem_desc EXCEPT ![i].allocations = rest,
                                      ![i].least_free = Lesser(rest.free, @)]
  BY DEF Malloc
<1>2. i \in able
  <2>1. able \subseteq Nat
    OBVIOUS
  <2>. HIDE DEF able
  <2>2. QED
    BY <1>1, <2>1, LeastIsLeast
<1>3. i \in 1 .. Steps /\ DescSize(i) >= size /\ ~BfifoIsEmpty(fifo)
  BY <1>2 DEF LargeEnough
<1>. HIDE DEF i, able
<1>4. /\ mem_desc \in [1 .. Steps -> [least_free : 0 .. Num, allocations : FifoType]]
      /\ \A k \in 1 .. Steps : IsBfifo(mem_desc[k].allocations, Enough(k))
  BY DEF ChunkInv, DescsOK, FifoType
<1>5. IsBfifo(fifo, Enough(i)) /\ fifo.size = Num
  BY <1>3, <1>4 DEF FifoType
<1>. HIDE DEF fifo
<1>6. /\ IsBfifo(rest, Enough(i)) /\ rest.size = Num
      /\ BfifoFirst(fifo) = Head(BfifoContents(fifo)) /\ BfifoContents(fifo) # <<>>
  BY <1>3, <1>5, BfifoDequeuePops, SizeStays
<1>7. rest \in FifoType /\ rest.free \in 0 .. Num
  BY <1>3, <1>6, FifoHasType DEF IsBfifo, BfifoOK
<1>8. BfifoFirst(fifo) \in Enough(i) /\ BfifoFirst(fifo) = BfifoContents(fifo)[1]
  <2>1. BfifoContents(fifo) \in Seq(Enough(i))
    BY <1>5, BfifoFields
  <2>2. QED
    BY <1>6, <2>1
<1>. HIDE DEF rest
<1>9. \A k \in 1 .. Steps : mem_desc'[k].allocations =
          IF k = i THEN rest ELSE mem_desc[k].allocations
  BY <1>1, <1>3, <1>4
<1>10. mem_desc' \in [1 .. Steps -> [least_free : 0 .. Num, allocations : FifoType]]
  <2>1. Lesser(rest.free, mem_desc[i].least_free) \in 0 .. Num
    BY <1>3, <1>4, <1>7 DEF Lesser
  <2>2. mem_desc' = [mem_desc EXCEPT ![i] =
            [mem_desc[i] EXCEPT !.allocations = rest,
                                !.least_free = Lesser(rest.free, mem_desc[i].least_free)]]
    BY <1>1, <1>3, <1>4
  <2>3. QED
    BY <1>3, <1>4, <1>7, <2>1, <2>2
<1>11. DescsOK'
  <2>1. \A k \in 1 .. Steps : IsBfifo(mem_desc'[k].allocations, Enough(k))
    BY <1>4, <1>6, <1>9
  <2>2. \A k \in 1 .. Steps : Enough(k)' = Enough(k)
    BY DEF Enough, Chunks, Chunk, Start, DescSize, SizeAt
  <2>3. Chunks' = Chunks
    BY DEF Chunks, Chunk, Start, DescSize
  <2>4. QED
    BY <1>10, <2>1, <2>2, <2>3 DEF DescsOK, FifoType
<1>12. DescSize(i) \in Nat /\ size \in Nat
  BY <1>3, MemAssumption, DescSizeType
<1>13. QED
  BY <1>1, <1>3, <1>8, <1>9, <1>11, <1>12 DEF fifo, rest

LEMMA FreeKeepsChunks ==
    ASSUME NEW s \in Slots, ChunkInv, Free(s)
    PROVE  LET p == held[s].ptr
           IN  /\ s \in InUse /\ p \in Chunks
               /\ held' = [held EXCEPT ![s] = NULL]
               /\ \A i \in 1 .. Steps : Within(i, p) => p \in Enough(i)
               /\ \A i \in 1 .. Steps : mem_desc'[i].allocations =
                    IF Within(i, p) THEN BfifoQueue(mem_desc[i].allocations, p)
                                    ELSE mem_desc[i].allocations
               /\ DescsOK'
<1>. DEFINE p == held[s].ptr
<1>1. /\ held[s] # NULL /\ held' = [held EXCEPT ![s] = NULL]
      /\ mem_desc' = [i \in 1 .. Steps |->
                        IF Within(i, p)
                          THEN [mem_desc[i] EXCEPT !.allocations = BfifoQueue(@, p)]
                          ELSE mem_desc[i]]
  BY DEF Free
<1>2. s \in InUse /\ p \in Chunks
  BY <1>1 DEF InUse, ChunkInv, HeldOK
<1>. HIDE DEF p
<1>3. \A i \in 1 .. Steps : Within(i, p) => p \in Enough(i)
  <2>. SUFFICES ASSUME NEW i \in 1 .. Steps, Within(i, p)
                PROVE  p \in Enough(i)
    OBVIOUS
  <2>1. PICK k \in 1 .. Steps, m \in 1 .. Num : p = Chunk(k, m)
    BY <1>2 DEF Chunks
  <2>2. DescSize(i) <= SizeAt(p)
    BY <2>1, WithinOwnStep
  <2>3. QED
    BY <1>2, <2>2 DEF Enough
<1>4. /\ mem_desc \in [1 .. Steps -> [least_free : 0 .. Num, allocations : FifoType]]
      /\ \A i \in 1 .. Steps : IsBfifo(mem_desc[i].allocations, Enough(i))
  BY DEF ChunkInv, DescsOK
<1>5. \A i \in 1 .. Steps : mem_desc'[i].allocations =
          IF Within(i, p) THEN BfifoQueue(mem_desc[i].allocations, p)
                          ELSE mem_desc[i].allocations
  BY <1>1, <1>4
<1>6. ASSUME NEW i \in 1 .. Steps, Within(i, p)
      PROVE  /\ IsBfifo(BfifoQueue(mem_desc[i].allocations, p), Enough(i))
             /\ BfifoQueue(mem_desc[i].allocations, p) \in FifoType
  <2>1. IsBfifo(mem_desc[i].allocations, Enough(i)) /\ p \in Enough(i)
    BY <1>3, <1>4, <1>6
  <2>2. IsBfifo(BfifoQueue(mem_desc[i].allocations, p), Enough(i))
    BY <2>1, BfifoQueueAppends
  <2>3. mem_desc[i].allocations.size = Num
    BY <1>4 DEF FifoType
  <2>4. BfifoQueue(mem_desc[i].allocations, p).size = Num
    BY <2>1, <2>3, SizeStays
  <2>5. QED
    BY <2>2, <2>4, FifoHasType
<1>7. DescsOK'
  <2>1. \A i \in 1 .. Steps : IsBfifo(mem_desc'[i].allocations, Enough(i))
    BY <1>4, <1>5, <1>6
  <2>2. mem_desc' \in [1 .. Steps -> [least_free : 0 .. Num, allocations : FifoType]]
    <3>. SUFFICES ASSUME NEW i \in 1 .. Steps
                  PROVE  (IF Within(i, p)
                            THEN [mem_desc[i] EXCEPT !.allocations =
                                    BfifoQueue(mem_desc[i].allocations, p)]
                            ELSE mem_desc[i])
                         \in [least_free : 0 .. Num, allocations : FifoType]
      BY <1>1
    <3>1. mem_desc[i] \in [least_free : 0 .. Num, allocations : FifoType]
      BY <1>4
    <3>. HIDE DEF FifoType
    <3>2. QED
      BY <1>6, <3>1
  <2>3. \A k \in 1 .. Steps : Enough(k)' = Enough(k)
    BY DEF Enough, Chunks, Chunk, Start, DescSize, SizeAt
  <2>4. Chunks' = Chunks
    BY DEF Chunks, Chunk, Start, DescSize
  <2>5. QED
    BY <2>1, <2>2, <2>3, <2>4 DEF DescsOK, FifoType
<1>8. QED
  BY <1>1, <1>2, <1>3, <1>5, <1>7 DEF p

\* Holding: what a step of malloc or free makes of the blocks in use.
LEMMA HeldAfterMalloc ==
    ASSUME NEW s \in Slots, NEW size \in Sizes, HeldOK,
           NEW i \in 1 .. Steps, NEW p \in Enough(i), size <= DescSize(i),
           held' = [held EXCEPT ![s] = [ptr |-> p, size |-> size]]
    PROVE  HeldOK'
<1>1. /\ held \in [Slots -> {NULL} \cup [ptr : Chunks, size : Sizes]]
      /\ \A u \in Slots : held[u] # NULL => held[u].size <= SizeAt(held[u].ptr)
  BY DEF HeldOK, InUse
<1>2. p \in Chunks /\ size <= SizeAt(p)
  <2>1. PICK k \in 1 .. Steps, m \in 1 .. Num : p = Chunk(k, m)
    BY DEF Enough, Chunks
  <2>2. SizeAt(p) \in Nat /\ DescSize(i) \in Nat /\ size \in Nat
    BY <2>1, SizeOfChunk, DescSizeType, MemAssumption
  <2>3. QED
    BY <2>2 DEF Enough
<1>3. held' \in [Slots -> {NULL} \cup [ptr : Chunks, size : Sizes]]
  BY <1>1, <1>2
<1>4. \A u \in Slots : held'[u] # NULL => held'[u].size <= SizeAt(held'[u].ptr)
  BY <1>1, <1>2
<1>5. Chunks' = Chunks
  BY DEF Chunks, Chunk, Start, DescSize
<1>6. QED
  BY <1>3, <1>4, <1>5 DEF HeldOK, InUse, SizeAt, Chunk, Start, DescSize

LEMMA HeldAfterFree ==
    ASSUME NEW s \in Slots, HeldOK, held' = [held EXCEPT ![s] = NULL]
    PROVE  HeldOK'
<1>1. /\ held \in [Slots -> {NULL} \cup [ptr : Chunks, size : Sizes]]
      /\ \A u \in Slots : held[u] # NULL => held[u].size <= SizeAt(held[u].ptr)
  BY DEF HeldOK, InUse
<1>2. held' \in [Slots -> {NULL} \cup [ptr : Chunks, size : Sizes]]
  BY <1>1
<1>3. \A u \in Slots : held'[u] # NULL => held'[u].size <= SizeAt(held'[u].ptr)
  BY <1>1
<1>4. Chunks' = Chunks
  BY DEF Chunks, Chunk, Start, DescSize
<1>5. QED
  BY <1>2, <1>3, <1>4 DEF HeldOK, InUse, SizeAt, Chunk, Start, DescSize

\* What mem_init leaves behind: each FIFO holds all chunks of its step.
LEMMA FilledHolds ==
    ASSUME NEW i \in 1 .. Steps
    PROVE  /\ IsBfifo(Filled(i), Enough(i)) /\ Filled(i) \in FifoType
           /\ BfifoCount(Filled(i)) = Num
           /\ \A k \in 1 .. Num : BfifoContents(Filled(i))[k] = Chunk(i, k)
<1>. DEFINE f == Filled(i)
<1>1. Num \in Nat \ {0}
  BY MemAssumption
<1>2. /\ f.head = 0 /\ f.tail = 0 /\ f.free = 0 /\ f.size = Num
      /\ f.elems = [k \in 0 .. Num - 1 |-> Chunk(i, k + 1)]
      /\ f = [head |-> f.head, tail |-> f.tail, free |-> f.free, size |-> f.size,
              elems |-> f.elems]
  BY DEF Filled
<1>. HIDE DEF f
<1>3. \A k \in 1 .. Num : Chunk(i, k) \in Enough(i)
  <2>. SUFFICES ASSUME NEW k \in 1 .. Num
                PROVE  Chunk(i, k) \in Enough(i)
    OBVIOUS
  <2>1. Chunk(i, k) \in Chunks
    BY DEF Chunks
  <2>2. SizeAt(Chunk(i, k)) = DescSize(i) /\ DescSize(i) \in Nat
    BY SizeOfChunk, DescSizeType
  <2>3. QED
    BY <2>1, <2>2 DEF Enough
<1>4. BfifoCount(f) = Num
  BY <1>1, <1>2 DEF BfifoCount
<1>5. f.elems \in [0 .. Num - 1 -> Enough(i)]
  <2>1. \A k \in 0 .. Num - 1 : k + 1 \in 1 .. Num
    BY <1>1
  <2>2. QED
    BY <1>2, <1>3, <2>1
<1>6. BfifoOK(f)
  BY <1>1, <1>2, <1>4 DEF BfifoOK, BfifoSlot
<1>7. IsBfifo(f, Enough(i))
  BY <1>1, <1>2, <1>5, <1>6 DEF IsBfifo
<1>8. \A k \in 1 .. Num : BfifoContents(f)[k] = Chunk(i, k)
  <2>. SUFFICES ASSUME NEW k \in 1 .. Num
                PROVE  BfifoContents(f)[k] = Chunk(i, k)
    OBVIOUS
  <2>1. BfifoContents(f)[k] = f.elems[BfifoSlot(f, k - 1)]
    BY <1>4 DEF BfifoContents
  <2>2. BfifoSlot(f, k - 1) = k - 1
    BY <1>1, <1>2 DEF BfifoSlot
  <2>3. k - 1 \in 0 .. Num - 1 /\ (k - 1) + 1 = k
    BY <1>1
  <2>4. QED
    BY <1>2, <2>1, <2>2, <2>3
<1>9. f \in FifoType
  BY <1>2, <1>7, FifoHasType
<1>10. QED
  BY <1>4, <1>7, <1>8, <1>9 DEF f

LEMMA ChunkInvariant == Spec => []ChunkInv
<1>1. Init => ChunkInv
  <2>. SUFFICES ASSUME Init
                PROVE  ChunkInv
    OBVIOUS
  <2>1. /\ mem_desc = [i \in 1 .. Steps |-> [least_free |-> Num, allocations |-> Filled(i)]]
        /\ held = [s \in Slots |-> NULL] /\ Num \in Nat
    BY MemAssumption DEF Init
  <2>2. DescsOK
    BY <2>1, FilledHolds DEF DescsOK
  <2>3. HeldOK
    BY <2>1 DEF HeldOK, InUse
  <2>4. QED
    BY <2>2, <2>3 DEF ChunkInv
<1>2. ChunkInv /\ [Next]_vars => ChunkInv'
  <2>. SUFFICES ASSUME ChunkInv, [Next]_vars
                PROVE  ChunkInv'
    OBVIOUS
  <2>1. ASSUME UNCHANGED <<mem_desc, held>>
        PROVE  ChunkInv'
    <3>1. Chunks' = Chunks /\ \A k \in 1 .. Steps : Enough(k)' = Enough(k)
      BY DEF Enough, Chunks, Chunk, Start, DescSize, SizeAt
    <3>2. DescsOK'
      BY <2>1, <3>1 DEF ChunkInv, DescsOK, FifoType
    <3>3. HeldOK'
      BY <2>1, <3>1 DEF ChunkInv, HeldOK, InUse, SizeAt, Chunk, Start, DescSize
    <3>4. QED
      BY <3>2, <3>3 DEF ChunkInv
  <2>2. ASSUME NEW size \in StaticSizes, Smalloc(size)
        PROVE  ChunkInv'
    BY <2>1, <2>2 DEF Smalloc
  <2>3. ASSUME NEW s \in Slots, NEW size \in Sizes, Malloc(s, size)
        PROVE  ChunkInv'
    <3>1. PICK i \in 1 .. Steps : \E p \in Enough(i) :
            /\ held' = [held EXCEPT ![s] = [ptr |-> p, size |-> size]]
            /\ size <= DescSize(i) /\ DescsOK'
      BY <2>3, MallocKeepsChunks
    <3>2. HeldOK
      BY DEF ChunkInv
    <3>3. HeldOK'
      BY <3>1, <3>2, HeldAfterMalloc
    <3>4. QED
      BY <3>1, <3>3 DEF ChunkInv
  <2>4. ASSUME NEW s \in Slots, Free(s)
        PROVE  ChunkInv'
    <3>1. held' = [held EXCEPT ![s] = NULL] /\ DescsOK'
      BY <2>4, FreeKeepsChunks
    <3>2. QED
      BY <3>1, HeldAfterFree DEF ChunkInv
  <2>5. CASE UNCHANGED vars
    BY <2>1, <2>5 DEF vars
  <2>6. QED
    BY <2>2, <2>3, <2>4, <2>5 DEF Next
<1>3. QED
  BY <1>1, <1>2, PTL DEF Spec

\* The FIFOs stay well-formed and hold chunks only, although free() queues the
\* first chunk of a step twice and ignores that a FIFO is full.
THEOREM TypeCorrect == Spec => []TypeOK
<1>1. ChunkInv /\ StaticInv => TypeOK
  <2>. SUFFICES ASSUME ChunkInv, StaticInv
                PROVE  TypeOK
    OBVIOUS
  <2>1. ASSUME NEW i \in 1 .. Steps
        PROVE  LET fifo == mem_desc[i].allocations
               IN  /\ BfifoOK(fifo)
                   /\ \A k \in 1 .. BfifoCount(fifo) : BfifoContents(fifo)[k] \in Chunks
                   /\ mem_desc[i].least_free \in 0 .. Num
    <3>. DEFINE fifo == mem_desc[i].allocations
    <3>1. IsBfifo(fifo, Enough(i)) /\ mem_desc[i].least_free \in 0 .. Num
      BY DEF ChunkInv, DescsOK
    <3>. HIDE DEF fifo
    <3>2. BfifoContents(fifo) \in Seq(Enough(i)) /\ Len(BfifoContents(fifo)) = BfifoCount(fifo)
      BY <3>1, BfifoFields
    <3>3. \A k \in 1 .. BfifoCount(fifo) : BfifoContents(fifo)[k] \in Enough(i)
      BY <3>2
    <3>4. QED
      BY <3>1, <3>3 DEF fifo, IsBfifo, Enough
  <2>2. heap_cur \in Nat
    BY DEF StaticInv, HeapOK
  <2>3. \A s \in InUse : held[s].ptr \in Chunks /\ held[s].size \in Sizes
    BY DEF ChunkInv, HeldOK, InUse
  <2>4. QED
    BY <2>1, <2>2, <2>3 DEF TypeOK
<1>2. QED
  BY <1>1, ChunkInvariant, StaticInvariant, PTL

\* malloc() never returns less than was asked for, although free() puts the
\* first chunk of a step into the FIFO of the step before as well: what ends up
\* in a foreign FIFO is larger than its chunks, never smaller.
THEOREM BlocksLargeEnough == Spec => []BlockIsLargeEnough
<1>1. ChunkInv => BlockIsLargeEnough
  BY DEF ChunkInv, HeldOK, BlockIsLargeEnough
<1>2. QED
  BY <1>1, ChunkInvariant, PTL

-----------------------------------------------------------------------------
(* Interior chunks are in one place *)

Queue(i) == BfifoContents(mem_desc[i].allocations)

HandedOutOnce ==
    \A s, u \in InUse :
        held[s].ptr = held[u].ptr /\ held[s].ptr \in Interior => s = u

QueuedOnce ==
    \A i, k \in 1 .. Steps : \A m \in 1 .. Len(Queue(i)), n \in 1 .. Len(Queue(k)) :
        Queue(i)[m] = Queue(k)[n] /\ Queue(i)[m] \in Interior => i = k /\ m = n

NotBoth ==
    \A s \in InUse, i \in 1 .. Steps : \A m \in 1 .. Len(Queue(i)) :
        Queue(i)[m] \in Interior => Queue(i)[m] # held[s].ptr

PlaceInv == HandedOutOnce /\ QueuedOnce /\ NotBoth

\* The only step within whose bounds an interior chunk lies is its own.
LEMMA InteriorWithinOne ==
    ASSUME NEW p \in Interior, NEW i \in 1 .. Steps, NEW k \in 1 .. Steps,
           Within(i, p), Within(k, p)
    PROVE  i = k
<1>1. PICK n \in 1 .. Steps, m \in 1 .. Num : p = Chunk(n, m)
  BY DEF Interior, Chunks
<1>2. p # Start(n)
  BY DEF Interior
<1>3. i = n /\ k = n
  BY <1>1, <1>2, WithinOwnStep
<1>4. QED
  BY <1>3

LEMMA QueueIsSeq ==
    ASSUME DescsOK, NEW i \in 1 .. Steps
    PROVE  /\ Queue(i) \in Seq(Chunks)
           /\ Len(Queue(i)) = BfifoCount(mem_desc[i].allocations) /\ Len(Queue(i)) \in 0 .. Num
<1>. DEFINE f == mem_desc[i].allocations
<1>1. IsBfifo(f, Enough(i)) /\ f.size = Num /\ Enough(i) \subseteq Chunks
  BY DEF DescsOK, FifoType, Enough
<1>. HIDE DEF f
<1>2. /\ BfifoContents(f) \in Seq(Enough(i)) /\ Len(BfifoContents(f)) = BfifoCount(f)
      /\ BfifoCount(f) \in 0 .. Num
  BY <1>1, BfifoFields
<1>3. BfifoContents(f) \in Seq(Chunks)
  BY <1>1, <1>2
<1>4. QED
  BY <1>2, <1>3 DEF Queue, f

LEMMA MallocKeepsPlaces ==
    ASSUME NEW s \in Slots, NEW size \in Sizes, ChunkInv, PlaceInv, Malloc(s, size)
    PROVE  PlaceInv'
<1>1. PICK i \in 1 .. Steps :
        LET fifo == mem_desc[i].allocations
        IN  /\ ~BfifoIsEmpty(fifo)
            /\ held' = [held EXCEPT ![s] = [ptr |-> BfifoFirst(fifo), size |-> size]]
            /\ BfifoFirst(fifo) = BfifoContents(fifo)[1]
            /\ \A k \in 1 .. Steps : mem_desc'[k].allocations =
                  IF k = i THEN BfifoDequeue(fifo) ELSE mem_desc[k].allocations
  BY MallocKeepsChunks
<1>. DEFINE fifo == mem_desc[i].allocations
            p == Queue(i)[1]
            gone(k) == IF k = i THEN 1 ELSE 0
<1>2. /\ IsBfifo(fifo, Enough(i)) /\ ~BfifoIsEmpty(fifo)
      /\ held' = [held EXCEPT ![s] = [ptr |-> p, size |-> size]]
      /\ held \in [Slots -> {NULL} \cup [ptr : Chunks, size : Sizes]]
  BY <1>1 DEF ChunkInv, DescsOK, HeldOK, Queue
<1>3. \A k \in 1 .. Steps : Queue(k) \in Seq(Chunks)
  BY QueueIsSeq DEF ChunkInv
<1>4. /\ Queue(i) # <<>> /\ BfifoContents(BfifoDequeue(fifo)) = Tail(Queue(i))
  BY <1>2, BfifoDequeuePops DEF Queue
<1>5. \A k \in 1 .. Steps : Queue(k)' = IF k = i THEN Tail(Queue(i)) ELSE Queue(k)
  BY <1>1, <1>4 DEF Queue
<1>6. ASSUME NEW k \in 1 .. Steps, NEW m \in 1 .. Len(Queue(k)')
      PROVE  m + gone(k) \in 1 .. Len(Queue(k)) /\ Queue(k)'[m] = Queue(k)[m + gone(k)]
  <2>1. CASE k = i
    BY <1>3, <1>4, <1>5, <2>1
  <2>2. CASE k # i
    BY <1>3, <1>5, <2>2
  <2>3. QED
    BY <2>1, <2>2
<1>7. 1 \in 1 .. Len(Queue(i))
  BY <1>3, <1>4
<1>8. \A u \in InUse' : u \in Slots /\ IF u = s THEN held'[u].ptr = p
                                     ELSE u \in InUse /\ held'[u] = held[u]
  BY <1>2 DEF InUse
<1>9. Interior' = Interior
  BY DEF Interior, Chunks, Chunk, Start, DescSize
<1>10. \A u \in InUse : p \in Interior => p # held[u].ptr
  BY <1>7 DEF PlaceInv, NotBoth
<1>11. HandedOutOnce'
  <2>. SUFFICES ASSUME NEW u \in InUse', NEW v \in InUse',
                       held'[u].ptr = held'[v].ptr, held'[u].ptr \in Interior
                PROVE  u = v
    BY <1>9 DEF HandedOutOnce
  <2>1. CASE u = s \/ v = s
    BY <1>8, <1>10, <2>1
  <2>2. CASE u # s /\ v # s
    BY <1>8, <2>2 DEF PlaceInv, HandedOutOnce
  <2>3. QED
    BY <2>1, <2>2
<1>12. QueuedOnce'
  <2>. SUFFICES ASSUME NEW j \in 1 .. Steps, NEW k \in 1 .. Steps,
                       NEW m \in 1 .. Len(Queue(j)'), NEW n \in 1 .. Len(Queue(k)'),
                       Queue(j)'[m] = Queue(k)'[n], Queue(j)'[m] \in Interior
                PROVE  j = k /\ m = n
    BY <1>9 DEF QueuedOnce
  <2>. HIDE DEF gone
  <2>1. j = k /\ m + gone(j) = n + gone(k)
    <3>1. m + gone(j) \in 1 .. Len(Queue(j)) /\ Queue(j)'[m] = Queue(j)[m + gone(j)]
      BY <1>6
    <3>2. n + gone(k) \in 1 .. Len(Queue(k)) /\ Queue(k)'[n] = Queue(k)[n + gone(k)]
      BY <1>6
    <3>. DEFINE a == m + gone(j)
                b == n + gone(k)
    <3>. HIDE DEF a, b
    <3>3. /\ a \in 1 .. Len(Queue(j)) /\ b \in 1 .. Len(Queue(k))
          /\ Queue(j)[a] = Queue(k)[b] /\ Queue(j)[a] \in Interior
      BY <3>1, <3>2 DEF a, b
    <3>4. j = k /\ a = b
      BY <3>3 DEF PlaceInv, QueuedOnce
    <3>5. QED
      BY <3>4 DEF a, b
  <2>2. m \in Int /\ n \in Int /\ gone(j) \in Int
    BY DEF gone
  <2>3. QED
    BY <2>1, <2>2
<1>13. NotBoth'
  <2>. SUFFICES ASSUME NEW u \in InUse', NEW k \in 1 .. Steps,
                       NEW m \in 1 .. Len(Queue(k)'), Queue(k)'[m] \in Interior
                PROVE  Queue(k)'[m] # held'[u].ptr
    BY <1>9 DEF NotBoth
  <2>1. m + gone(k) \in 1 .. Len(Queue(k)) /\ Queue(k)'[m] = Queue(k)[m + gone(k)]
    BY <1>6
  <2>2. CASE u = s
    <3>1. SUFFICES ASSUME Queue(k)[m + gone(k)] = Queue(i)[1]
                   PROVE  FALSE
      BY <1>8, <2>1, <2>2
    <3>2. k = i /\ m + gone(k) = 1
      BY <1>7, <2>1, <3>1 DEF PlaceInv, QueuedOnce
    <3>3. QED
      BY <3>2
  <2>3. CASE u # s
    BY <1>8, <2>1, <2>3 DEF PlaceInv, NotBoth
  <2>4. QED
    BY <2>2, <2>3
<1>14. QED
  BY <1>11, <1>12, <1>13 DEF PlaceInv

LEMMA FreeKeepsPlaces ==
    ASSUME NEW s \in Slots, ChunkInv, PlaceInv, Free(s)
    PROVE  PlaceInv'
<1>. DEFINE p == held[s].ptr
<1>1. /\ s \in InUse /\ p \in Chunks
      /\ held' = [held EXCEPT ![s] = NULL]
      /\ \A k \in 1 .. Steps : Within(k, p) => p \in Enough(k)
      /\ \A k \in 1 .. Steps : mem_desc'[k].allocations =
           IF Within(k, p) THEN BfifoQueue(mem_desc[k].allocations, p)
                           ELSE mem_desc[k].allocations
  BY FreeKeepsChunks
<1>. HIDE DEF p
<1>2. \A k \in 1 .. Steps : IsBfifo(mem_desc[k].allocations, Enough(k)) /\ Queue(k) \in Seq(Chunks)
  BY QueueIsSeq DEF ChunkInv, DescsOK
<1>3. \A k \in 1 .. Steps :
        Queue(k)' = Queue(k) \/ (Within(k, p) /\ Queue(k)' = Append(Queue(k), p))
  <2>. SUFFICES ASSUME NEW k \in 1 .. Steps
                PROVE  Queue(k)' = Queue(k) \/ (Within(k, p) /\ Queue(k)' = Append(Queue(k), p))
    OBVIOUS
  <2>1. Queue(k)' = BfifoContents(mem_desc'[k].allocations)
    BY DEF Queue
  <2>2. CASE Within(k, p)
    <3>1. IsBfifo(mem_desc[k].allocations, Enough(k)) /\ p \in Enough(k)
      BY <1>1, <1>2, <2>2
    <3>2. Queue(k)' = BfifoContents(BfifoQueue(mem_desc[k].allocations, p))
      BY <1>1, <2>1, <2>2
    <3>3. BfifoContents(BfifoQueue(mem_desc[k].allocations, p)) =
            IF BfifoHasRoom(mem_desc[k].allocations) THEN Append(Queue(k), p) ELSE Queue(k)
      BY <3>1, BfifoQueueAppends DEF Queue
    <3>4. QED
      BY <2>2, <3>2, <3>3
  <2>3. CASE ~Within(k, p)
    <3>1. mem_desc'[k].allocations = mem_desc[k].allocations
      BY <1>1, <2>3
    <3>2. QED
      BY <2>1, <3>1 DEF Queue
  <2>4. QED
    BY <2>2, <2>3
<1>4. ASSUME NEW k \in 1 .. Steps, NEW m \in 1 .. Len(Queue(k)')
      PROVE  \/ m \in 1 .. Len(Queue(k)) /\ Queue(k)'[m] = Queue(k)[m]
             \/ m = Len(Queue(k)) + 1 /\ Queue(k)'[m] = p /\ Within(k, p)
  <2>. DEFINE q == Queue(k)
              r == Queue(k)'
  <2>1. q \in Seq(Chunks) /\ p \in Chunks /\ m \in 1 .. Len(r)
    BY <1>1, <1>2
  <2>2. r = q \/ (Within(k, p) /\ r = Append(q, p))
    BY <1>3
  <2>. HIDE DEF q, r
  <2>3. \/ m \in 1 .. Len(q) /\ r[m] = q[m]
        \/ m = Len(q) + 1 /\ r[m] = p /\ Within(k, p)
    BY <2>1, <2>2
  <2>4. QED
    BY <2>3 DEF q, r
<1>5. \A u \in InUse' : u \in InUse /\ u # s /\ held'[u] = held[u]
  BY <1>1 DEF ChunkInv, HeldOK, InUse
<1>6. Interior' = Interior
  BY DEF Interior, Chunks, Chunk, Start, DescSize
<1>7. ASSUME NEW k \in 1 .. Steps, NEW m \in 1 .. Len(Queue(k)), Queue(k)[m] \in Interior
      PROVE  Queue(k)[m] # p
  BY <1>1, <1>7 DEF PlaceInv, NotBoth, p
<1>8. HandedOutOnce'
  BY <1>5, <1>6 DEF PlaceInv, HandedOutOnce
<1>9. QueuedOnce'
  <2>. SUFFICES ASSUME NEW j \in 1 .. Steps, NEW k \in 1 .. Steps,
                       NEW m \in 1 .. Len(Queue(j)'), NEW n \in 1 .. Len(Queue(k)'),
                       Queue(j)'[m] = Queue(k)'[n], Queue(j)'[m] \in Interior
                PROVE  j = k /\ m = n
    BY <1>6 DEF QueuedOnce
  <2>1. CASE /\ m \in 1 .. Len(Queue(j)) /\ Queue(j)'[m] = Queue(j)[m]
             /\ n \in 1 .. Len(Queue(k)) /\ Queue(k)'[n] = Queue(k)[n]
    BY <2>1 DEF PlaceInv, QueuedOnce
  <2>2. CASE Within(j, p) /\ Within(k, p) /\ m = Len(Queue(j)) + 1 /\ n = Len(Queue(k)) + 1
             /\ Queue(j)'[m] = p
    BY <2>2, InteriorWithinOne
  <2>3. QED
    BY <1>4, <1>7, <2>1, <2>2
<1>10. NotBoth'
  <2>. SUFFICES ASSUME NEW u \in InUse', NEW k \in 1 .. Steps,
                       NEW m \in 1 .. Len(Queue(k)'), Queue(k)'[m] \in Interior
                PROVE  Queue(k)'[m] # held'[u].ptr
    BY <1>6 DEF NotBoth
  <2>1. u \in InUse /\ u # s /\ held'[u] = held[u]
    BY <1>5
  <2>2. CASE m \in 1 .. Len(Queue(k)) /\ Queue(k)'[m] = Queue(k)[m]
    BY <2>1, <2>2 DEF PlaceInv, NotBoth
  <2>3. CASE Queue(k)'[m] = p
    BY <1>1, <2>1, <2>3 DEF PlaceInv, HandedOutOnce, p
  <2>4. QED
    BY <1>4, <2>2, <2>3
<1>11. QED
  BY <1>8, <1>9, <1>10 DEF PlaceInv

LEMMA PlaceInvariant == Spec => []PlaceInv
<1>1. Init => PlaceInv
  <2>. SUFFICES ASSUME Init
                PROVE  PlaceInv
    OBVIOUS
  <2>1. /\ mem_desc = [i \in 1 .. Steps |-> [least_free |-> Num, allocations |-> Filled(i)]]
        /\ InUse = {}
    BY DEF Init, InUse
  <2>2. ASSUME NEW i \in 1 .. Steps, NEW m \in 1 .. Len(Queue(i))
        PROVE  m \in 1 .. Num /\ Queue(i)[m] = Chunk(i, m)
    <3>1. Queue(i) = BfifoContents(Filled(i))
      BY <2>1 DEF Queue
    <3>2. Len(Queue(i)) = Num
      BY <3>1, FilledHolds, BfifoFields
    <3>3. QED
      BY <2>2, <3>1, <3>2, FilledHolds
  <2>3. QueuedOnce
    <3>. SUFFICES ASSUME NEW i \in 1 .. Steps, NEW k \in 1 .. Steps,
                         NEW m \in 1 .. Len(Queue(i)), NEW n \in 1 .. Len(Queue(k)),
                         Queue(i)[m] = Queue(k)[n]
                  PROVE  i = k /\ m = n
      BY DEF QueuedOnce
    <3>1. /\ m \in 1 .. Num /\ Queue(i)[m] = Chunk(i, m)
          /\ n \in 1 .. Num /\ Queue(k)[n] = Chunk(k, n)
      BY <2>2
    <3>2. QED
      BY <3>1, ChunkInjective
  <2>4. QED
    BY <2>1, <2>3 DEF PlaceInv, HandedOutOnce, NotBoth
<1>2. ChunkInv /\ PlaceInv /\ [Next]_vars => PlaceInv'
  <2>. SUFFICES ASSUME ChunkInv, PlaceInv, [Next]_vars
                PROVE  PlaceInv'
    OBVIOUS
  <2>1. ASSUME UNCHANGED <<mem_desc, held>>
        PROVE  PlaceInv'
    <3>1. /\ Interior' = Interior /\ InUse' = InUse
          /\ \A i \in 1 .. Steps : Queue(i)' = Queue(i)
      BY <2>1 DEF Interior, Chunks, Chunk, Start, DescSize, InUse, Queue
    <3>2. QED
      BY <2>1, <3>1 DEF PlaceInv, HandedOutOnce, QueuedOnce, NotBoth
  <2>2. ASSUME NEW size \in StaticSizes, Smalloc(size)
        PROVE  PlaceInv'
    BY <2>1, <2>2 DEF Smalloc
  <2>3. ASSUME NEW s \in Slots, NEW size \in Sizes, Malloc(s, size)
        PROVE  PlaceInv'
    BY <2>3, MallocKeepsPlaces
  <2>4. ASSUME NEW s \in Slots, Free(s)
        PROVE  PlaceInv'
    BY <2>4, FreeKeepsPlaces
  <2>5. CASE UNCHANGED vars
    BY <2>1, <2>5 DEF vars
  <2>6. QED
    BY <2>2, <2>3, <2>4, <2>5 DEF Next
<1>3. QED
  BY <1>1, <1>2, ChunkInvariant, PTL DEF Spec

\* A chunk that is not the first of its step is handed out at most once, queued
\* at most once, and never both: free() finds it within one step only, whoever
\* frees it, in whatever order.
THEOREM InteriorChunksUnique == Spec => []InteriorInOnePlace
<1>1. ChunkInv /\ PlaceInv => InteriorInOnePlace
  <2>. SUFFICES ASSUME ChunkInv, PlaceInv, NEW p \in Interior
                PROVE  Cardinality(Places(p)) <= 1
    BY DEF InteriorInOnePlace
  <2>. DEFINE A == {s \in InUse : held[s].ptr = p}
              B == {x \in (1 .. Steps) \X (1 .. Num) :
                      LET fifo == mem_desc[x[1]].allocations
                      IN  x[2] <= BfifoCount(fifo) /\ BfifoContents(fifo)[x[2]] = p}
  <2>1. Places(p) = A \cup B
    BY DEF Places
  <2>2. \A s, u \in A : s = u
    BY DEF PlaceInv, HandedOutOnce
  <2>3. ASSUME NEW x \in B
        PROVE  /\ x = <<x[1], x[2]>> /\ x[1] \in 1 .. Steps
               /\ x[2] \in 1 .. Len(Queue(x[1])) /\ Queue(x[1])[x[2]] = p
    <3>1. /\ x = <<x[1], x[2]>> /\ x[1] \in 1 .. Steps /\ x[2] \in 1 .. Num
          /\ x[2] <= BfifoCount(mem_desc[x[1]].allocations) /\ Queue(x[1])[x[2]] = p
      BY DEF Queue
    <3>2. /\ Len(Queue(x[1])) = BfifoCount(mem_desc[x[1]].allocations)
          /\ Len(Queue(x[1])) \in 0 .. Num
      BY <3>1, QueueIsSeq DEF ChunkInv
    <3>3. QED
      BY <3>1, <3>2
  <2>4. \A x, y \in B : x = y
    <3>. SUFFICES ASSUME NEW x \in B, NEW y \in B
                  PROVE  x = y
      OBVIOUS
    <3>. HIDE DEF B
    <3>1. x[1] = y[1] /\ x[2] = y[2]
      BY <2>3 DEF PlaceInv, QueuedOnce
    <3>2. x = <<x[1], x[2]>> /\ y = <<y[1], y[2]>>
      BY <2>3
    <3>3. QED
      BY <3>1, <3>2
  <2>5. A = {} \/ B = {}
    <3>. SUFFICES ASSUME NEW s \in A, NEW x \in B
                  PROVE  FALSE
      OBVIOUS
    <3>1. s \in InUse /\ held[s].ptr = p
      OBVIOUS
    <3>. HIDE DEF A, B
    <3>2. QED
      BY <2>3, <3>1 DEF PlaceInv, NotBoth
  <2>. HIDE DEF A, B
  <2>6. Places(p) = {} \/ \E x : Places(p) = {x}
    <3>1. CASE Places(p) = {}
      BY <3>1
    <3>2. CASE Places(p) # {}
      <4>1. PICK x : x \in Places(p)
        BY <3>2
      <4>2. \A y \in Places(p) : y = x
        BY <2>1, <2>2, <2>4, <2>5, <4>1
      <4>3. Places(p) = {x}
        BY <4>1, <4>2
      <4>4. QED
        BY <4>3
    <3>3. QED
      BY <3>1, <3>2
  <2>7. Cardinality(Places(p)) = 0 \/ Cardinality(Places(p)) = 1
    <3>1. \A x : Cardinality({x}) = 1
      BY FS_Singleton
    <3>2. Cardinality({}) = 0
      BY FS_EmptySet
    <3>3. QED
      BY <2>6, <3>1, <3>2, Zenon
  <2>8. QED
    BY <2>7
<1>2. QED
  BY <1>1, ChunkInvariant, PlaceInvariant, PTL
=============================================================================
