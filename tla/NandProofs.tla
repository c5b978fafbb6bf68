----------------------------- MODULE NandProofs -----------------------------
(***************************************************************************)
(* What the code of dev/hamming.c corrects and what it only reports, for   *)
(* blocks of any size and any contents, and what that makes of the flash   *)
(* driver: a page reads back as the user was told it holds, and a command  *)
(* changes no cell but those it is about.                                  *)
(***************************************************************************)
EXTENDS Nand, FiniteSetTheorems, SequenceTheorems, TLAPS

-----------------------------------------------------------------------------
(* The code *)

\* A block with one of its bits changed
Flipped(block, b) == SymDiff(block, {b})

\* The groups that bit b belongs to
Marks(b) == {g \in Groups : b[g[1]] = g[2]}

\* A changed bit turns the parity of each group it belongs to, and of no other.
LEMMA ParityTurns ==
    ASSUME NEW block \in SUBSET Bits, IsFiniteSet(block), NEW b \in Bits, NEW g \in Groups
    PROVE  Odd(Members(g, Flipped(block, b))) <=>
               IF g \in Marks(b) THEN ~Odd(Members(g, block)) ELSE Odd(Members(g, block))
<1> DEFINE M == Members(g, block)
           F == Members(g, Flipped(block, b))
<1>1. /\ IsFiniteSet(M) /\ Cardinality(M) \in Nat
  BY FS_Subset, FS_CardinalityType, M \in SUBSET block DEF Members
<1>2. CASE g \notin Marks(b)
  <2>1. F = M BY <1>2 DEF Marks, Members, Flipped, SymDiff
  <2> QED BY <2>1, <1>2
<1>3. CASE g \in Marks(b) /\ b \in block
  <2>1. F = M \ {b} /\ b \in M BY <1>3 DEF Marks, Members, Flipped, SymDiff
  <2> HIDE DEF M, F
  <2>2. Cardinality(F) = Cardinality(M) - 1 BY <2>1, <1>1, FS_RemoveElement
  <2>3. Cardinality(F) \in Nat BY <2>1, <1>1, FS_RemoveElement, FS_CardinalityType
  <2>4. Odd(F) <=> ~Odd(M) BY <2>2, <2>3, <1>1 DEF Odd
  <2> QED BY <2>4, <1>3 DEF M, F
<1>4. CASE g \in Marks(b) /\ b \notin block
  <2>1. F = M \union {b} /\ b \notin M BY <1>4 DEF Marks, Members, Flipped, SymDiff
  <2>2. Cardinality(F) = Cardinality(M) + 1 BY <2>1, <1>1, FS_AddElement
  <2> HIDE DEF M, F
  <2>3. Odd(F) <=> ~Odd(M) BY <2>2, <1>1 DEF Odd
  <2> QED BY <2>3, <1>4 DEF M, F
<1> QED BY <1>2, <1>3, <1>4

\* So the codes before and after differ in these groups exactly.
LEMMA CodesDiffer ==
    ASSUME NEW block \in SUBSET Bits, IsFiniteSet(block), NEW b \in Bits
    PROVE  SymDiff(Compute(block), Compute(Flipped(block, b))) = Marks(b)
<1> DEFINE A == {g \in Groups : ~Odd(Members(g, block))}
           B == {g \in Groups : ~Odd(Members(g, Flipped(block, b)))}
<1>1. \A g \in Groups : (g \in A <=> g \in B) <=> g \notin Marks(b)
  BY ParityTurns
<1>2. Groups \intersect PadBits = {}
  BY DigitsAssumption DEF Groups, PadBits
<1>3. A \subseteq Groups /\ B \subseteq Groups /\ Marks(b) \subseteq Groups
  BY DEF Marks
<1>4. Compute(block) = A \union PadBits /\ Compute(Flipped(block, b)) = B \union PadBits
  BY DEF Compute
<1> HIDE DEF A, B
<1> QED BY <1>1, <1>2, <1>3, <1>4 DEF SymDiff

\* A bit belongs to one group for each digit.
LEMMA MarksOf ==
    ASSUME NEW b \in Bits, NEW D \in SUBSET Digits
    PROVE  LET S == {g \in Groups : g[1] \in D /\ b[g[1]] = g[2]}
           IN  IsFiniteSet(S) /\ Cardinality(S) = Cardinality(D)
<1> DEFINE S == {g \in Groups : g[1] \in D /\ b[g[1]] = g[2]}
           f == [d \in D |-> <<d, b[d]>>]
<1>1. IsFiniteSet(D) BY FS_Subset, DigitsAssumption
<1>2. \A d \in D : f[d] \in S BY DEF Groups, Bits
<1>3. \A g \in S : g[1] \in D /\ f[g[1]] = g BY DEF Groups
<1>4. f \in Bijection(D, S)
  <2>1. f \in [D -> S] BY <1>2
  <2>2. \A d, e \in D : f[d] = f[e] => d = e OBVIOUS
  <2>3. \A g \in S : \E d \in D : f[d] = g BY <1>3
  <2> HIDE DEF f, S
  <2> QED BY <2>1, <2>2, <2>3 DEF Bijection, Injection, Surjection, IsInjective
<1>5. ExistsBijection(D, S) BY <1>4 DEF ExistsBijection
<1> HIDE DEF S
<1> QED BY <1>1, <1>5, FS_Bijection DEF S

LEMMA MarksSize ==
    ASSUME NEW b \in Bits
    PROVE  IsFiniteSet(Marks(b)) /\ Cardinality(Marks(b)) = Cardinality(Digits)
<1>1. Marks(b) = {g \in Groups : g[1] \in Digits /\ b[g[1]] = g[2]}
  BY DEF Marks, Groups
<1> QED BY <1>1, MarksOf, Digits \in SUBSET Digits

\* A block read back with one bit changed is recognised, the bit is found and
\* the block restored, whatever it holds (hamming_correct_256).
THEOREM OneErrorCorrected ==
    ASSUME NEW block \in SUBSET Bits, IsFiniteSet(block), NEW b \in Bits
    PROVE  LET spoilt == Flipped(block, b)
           IN  /\ Verdict(Compute(block), Compute(spoilt)) = "single"
               /\ Corrected(spoilt, Compute(block), Compute(spoilt)) = block
<1> DEFINE spoilt == Flipped(block, b)
<1>1. SymDiff(Compute(block), Compute(spoilt)) = Marks(b) BY CodesDiffer
<1>2. Cardinality(Digits) \in Nat /\ Cardinality(Digits) > 1
  BY DigitsAssumption, FS_CardinalityType
<1>3. Verdict(Compute(block), Compute(spoilt)) = "single"
  BY <1>1, <1>2, MarksSize DEF Verdict
<1>4. Named(Marks(b)) = b
  <2>1. \A d \in Digits : <<d, 1>> \in Marks(b) <=> b[d] = 1 BY DEF Marks, Groups
  <2>2. \A d \in Digits : b[d] \in {0, 1} BY DEF Bits
  <2>3. b = [d \in Digits |-> b[d]] BY DEF Bits
  <2> QED BY <2>1, <2>2, <2>3 DEF Named
<1>5. SymDiff(spoilt, {b}) = block BY DEF Flipped, SymDiff
<1> QED BY <1>1, <1>3, <1>4, <1>5 DEF Corrected

\* A changed bit of the stored code, pad bits included, is told from one of the
\* data, and leaves the block alone (hamming_correct_256).
THEOREM CodeErrorHarmless ==
    ASSUME NEW block \in SUBSET Bits, NEW g \in CodeBits
    PROVE  LET stored == SymDiff(Compute(block), {g})
           IN  /\ Verdict(stored, Compute(block)) = "ecc"
               /\ Corrected(block, stored, Compute(block)) = block
<1> DEFINE stored == SymDiff(Compute(block), {g})
<1>1. SymDiff(stored, Compute(block)) = {g} BY DEF SymDiff
<1>2. Cardinality({g}) = 1 BY FS_Singleton
<1>3. Cardinality(Digits) \in Nat /\ Cardinality(Digits) > 1
  BY DigitsAssumption, FS_CardinalityType
<1>4. Verdict(stored, Compute(block)) = "ecc" BY <1>1, <1>2, <1>3 DEF Verdict
<1> QED BY <1>4 DEF Corrected

\* Two changed bits are never taken for one, for a changed code or for none:
\* they change an even number of groups, two for each digit in which they
\* differ, and the digits of an index are odd in number (hamming_correct_256).
THEOREM TwoErrorsReported ==
    ASSUME NEW block \in SUBSET Bits, IsFiniteSet(block),
           NEW b \in Bits, NEW c \in Bits, b # c
    PROVE  LET spoilt == Flipped(Flipped(block, b), c)
           IN  /\ Verdict(Compute(block), Compute(spoilt)) = "multi"
               /\ Corrected(spoilt, Compute(block), Compute(spoilt)) = spoilt
<1> DEFINE one == Flipped(block, b)
           spoilt == Flipped(one, c)
           D == {d \in Digits : b[d] # c[d]}
           InB == {g \in Groups : g[1] \in D /\ b[g[1]] = g[2]}
           InC == {g \in Groups : g[1] \in D /\ c[g[1]] = g[2]}
<1>1. one \in SUBSET Bits /\ IsFiniteSet(one)
  <2>1. one \subseteq block \union {b} BY DEF Flipped, SymDiff
  <2>2. IsFiniteSet(block \union {b}) BY FS_AddElement
  <2> QED BY <2>1, <2>2, FS_Subset
<1>2. SymDiff(Compute(block), Compute(spoilt)) = SymDiff(Marks(b), Marks(c))
  <2>1. SymDiff(Compute(block), Compute(one)) = Marks(b) BY CodesDiffer
  <2>2. SymDiff(Compute(one), Compute(spoilt)) = Marks(c) BY <1>1, CodesDiffer
  <2> HIDE DEF one, spoilt
  <2> QED BY <2>1, <2>2 DEF SymDiff
<1>3. SymDiff(Marks(b), Marks(c)) = InB \union InC
  BY DEF SymDiff, Marks, Groups
<1>4. InB \intersect InC = {}
  BY DEF Groups
<1>5. D \in SUBSET Digits
  OBVIOUS
<1>6. /\ IsFiniteSet(InB) /\ Cardinality(InB) = Cardinality(D)
      /\ IsFiniteSet(InC) /\ Cardinality(InC) = Cardinality(D)
  BY <1>5, MarksOf
<1>7. D # {}
  <2>1. b = [d \in Digits |-> b[d]] /\ c = [d \in Digits |-> c[d]] BY DEF Bits
  <2> QED BY <2>1
<1>8. Cardinality(D) \in Nat /\ Cardinality(D) > 0
  BY <1>5, <1>7, DigitsAssumption, FS_Subset, FS_CardinalityType, FS_EmptySet
<1> HIDE DEF D, InB, InC
<1>9. Cardinality(InB \union InC) = 2 * Cardinality(D)
  <2>1. Cardinality(InB \union InC)
            = Cardinality(InB) + Cardinality(InC) - Cardinality(InB \intersect InC)
    BY <1>6, FS_Union
  <2>2. Cardinality(InB \intersect InC) = 0 BY <1>4, FS_EmptySet
  <2> QED BY <2>1, <2>2, <1>6, <1>8
<1>10. Cardinality(Digits) \in Nat /\ Cardinality(Digits) % 2 = 1
  BY DigitsAssumption, FS_CardinalityType
<1>11. /\ 2 * Cardinality(D) # 0 /\ 2 * Cardinality(D) # 1
       /\ 2 * Cardinality(D) # Cardinality(Digits)
  BY <1>8, <1>10
<1>12. Verdict(Compute(block), Compute(spoilt)) = "multi"
  BY <1>2, <1>3, <1>9, <1>11 DEF Verdict
<1> QED BY <1>12 DEF Corrected

LEMMA DigitsCount ==
    /\ Cardinality(Digits) \in Nat
    /\ Cardinality(Digits) % 2 = 1
    /\ Cardinality(Digits) > 2
<1>1. Cardinality(Digits) \in Nat BY DigitsAssumption, FS_CardinalityType
<1> QED BY <1>1, DigitsAssumption

LEMMA BitsFinite == IsFiniteSet(Bits)
<1> DEFINE f == [D \in SUBSET Digits |-> [d \in Digits |-> IF d \in D THEN 1 ELSE 0]]
<1>1. IsFiniteSet(SUBSET Digits) BY DigitsAssumption, FS_SUBSET
<1>2. \A D \in SUBSET Digits : f[D] \in Bits BY DEF Bits
<1>3. \A D, E \in SUBSET Digits : f[D] = f[E] => D = E
  <2> SUFFICES ASSUME NEW D \in SUBSET Digits, NEW E \in SUBSET Digits, f[D] = f[E]
               PROVE  D = E
    OBVIOUS
  <2>1. \A d \in Digits : f[D][d] = (IF d \in D THEN 1 ELSE 0)
    OBVIOUS
  <2>2. \A d \in Digits : f[E][d] = (IF d \in E THEN 1 ELSE 0)
    OBVIOUS
  <2> HIDE DEF f
  <2>3. \A d \in Digits : d \in D <=> d \in E BY <2>1, <2>2
  <2> QED BY <2>3
<1>4. \A b \in Bits : \E D \in SUBSET Digits : f[D] = b
  <2> SUFFICES ASSUME NEW b \in Bits PROVE \E D \in SUBSET Digits : f[D] = b
    OBVIOUS
  <2> DEFINE D == {d \in Digits : b[d] = 1}
  <2>1. f[D] = [d \in Digits |-> IF d \in D THEN 1 ELSE 0] OBVIOUS
  <2>2. \A d \in Digits : (IF d \in D THEN 1 ELSE 0) = b[d] BY DEF Bits
  <2>3. b = [d \in Digits |-> b[d]] BY DEF Bits
  <2>4. f[D] = b BY <2>1, <2>2, <2>3
  <2>5. D \in SUBSET Digits OBVIOUS
  <2> QED BY <2>4, <2>5
<1>5. f \in [SUBSET Digits -> Bits] BY <1>2
<1> HIDE DEF f
<1>6. f \in Bijection(SUBSET Digits, Bits)
  BY <1>3, <1>4, <1>5 DEF Bijection, Injection, Surjection, IsInjective
<1>7. ExistsBijection(SUBSET Digits, Bits) BY <1>6 DEF ExistsBijection
<1> QED BY <1>1, <1>7, FS_Bijection

\* Of all bits, those of a group come in pairs that differ in another digit.
LEMMA GroupsEven ==
    ASSUME NEW g \in Groups
    PROVE  ~Odd(Members(g, Bits))
<1>1. PICK e \in Digits : e # g[1]
  <2>1. SUFFICES ASSUME \A e \in Digits : e = g[1] PROVE FALSE
    OBVIOUS
  <2>2. Digits = {g[1]} BY <2>1 DEF Groups
  <2>3. Cardinality({g[1]}) = 1 BY FS_Singleton
  <2> QED BY <2>2, <2>3, DigitsCount
<1> DEFINE Half(v) == {b \in Bits : b[g[1]] = g[2] /\ b[e] = v}
           A == Half(0)
           B == Half(1)
           f == [b \in A |-> [b EXCEPT ![e] = 1]]
<1>2. A \in SUBSET Bits /\ B \in SUBSET Bits OBVIOUS
<1>3. Members(g, Bits) = A \union B /\ A \intersect B = {}
  BY DEF Members, Bits
<1>4. \A b \in A : f[b] \in B
  <2> SUFFICES ASSUME NEW b \in A PROVE f[b] \in B
    OBVIOUS
  <2>1. f[b] = [b EXCEPT ![e] = 1] OBVIOUS
  <2>2. b \in [Digits -> {0, 1}] /\ g[1] \in Digits BY DEF Bits, Groups
  <2>3. f[b] \in Bits /\ f[b][e] = 1 /\ f[b][g[1]] = b[g[1]]
    BY <1>1, <2>1, <2>2 DEF Bits
  <2> HIDE DEF f
  <2> QED BY <2>3
<1>5. \A b, c \in A : f[b] = f[c] => b = c
  <2> SUFFICES ASSUME NEW b \in A, NEW c \in A, f[b] = f[c] PROVE b = c
    OBVIOUS
  <2>1. b = [f[b] EXCEPT ![e] = 0] /\ c = [f[c] EXCEPT ![e] = 0]
    BY DEF Bits
  <2> HIDE DEF f, A
  <2> QED BY <2>1
<1>6. \A c \in B : \E b \in A : f[b] = c
  <2> SUFFICES ASSUME NEW c \in B PROVE \E b \in A : f[b] = c
    OBVIOUS
  <2> DEFINE b == [c EXCEPT ![e] = 0]
  <2>1. c \in [Digits -> {0, 1}] /\ g[1] \in Digits BY DEF Bits, Groups
  <2>2. b \in Bits /\ b[e] = 0 /\ b[g[1]] = c[g[1]] BY <1>1, <2>1 DEF Bits
  <2>3. [b EXCEPT ![e] = 1] = c BY <2>1
  <2> HIDE DEF b
  <2> QED BY <2>2, <2>3
<1>7. f \in [A -> B] BY <1>4
<1> HIDE DEF f, A, B
<1>8. f \in Bijection(A, B)
  BY <1>5, <1>6, <1>7 DEF Bijection, Injection, Surjection, IsInjective
<1>9. IsFiniteSet(A) /\ IsFiniteSet(B) BY <1>2, BitsFinite, FS_Subset
<1>10. Cardinality(A) = Cardinality(B) /\ Cardinality(A) \in Nat
  BY <1>8, <1>9, FS_Bijection, FS_CardinalityType DEF ExistsBijection
<1>11. Cardinality(A \union B) = Cardinality(A) + Cardinality(B)
  BY <1>3, <1>9, <1>10, FS_Union, FS_EmptySet
<1>12. Cardinality(Members(g, Bits)) = 2 * Cardinality(A) BY <1>3, <1>10, <1>11
<1> QED BY <1>10, <1>12 DEF Odd

\* An erased block has the code of an erased spare area.
LEMMA ErasedCode == Compute(Bits) = CodeBits
BY GroupsEven DEF Compute, CodeBits

LEMMA CodeType == \A block : Compute(block) \in SUBSET CodeBits
BY DEF Compute, CodeBits

\* A wrong code, up to two of its bits, does no harm to a right block.
LEMMA WrongCode ==
    ASSUME NEW block \in SUBSET Bits, NEW stored \in SUBSET CodeBits,
           IsFiniteSet(SymDiff(stored, Compute(block))),
           Cardinality(SymDiff(stored, Compute(block))) <= 2
    PROVE  LET n == Cardinality(SymDiff(stored, Compute(block)))
               v == Verdict(stored, Compute(block))
           IN  /\ Corrected(block, stored, Compute(block)) = block
               /\ n = 0 => v = "valid"
               /\ n = 1 => v = "ecc"
<1>1. Cardinality(SymDiff(stored, Compute(block))) \in Nat BY FS_CardinalityType
<1> QED BY <1>1, DigitsCount DEF Verdict, Corrected

\* A wrong bit of the block and one of its code are reported.
LEMMA BlockAndCode ==
    ASSUME NEW block \in SUBSET Bits, NEW b \in Bits, NEW g \in CodeBits
    PROVE  Verdict(SymDiff(Compute(block), {g}), Compute(Flipped(block, b))) = "multi"
<1> DEFINE stored == SymDiff(Compute(block), {g})
           code == Compute(Flipped(block, b))
           diff == SymDiff(stored, code)
<1>1. IsFiniteSet(block) BY BitsFinite, FS_Subset
<1>2. SymDiff(Compute(block), code) = Marks(b) BY <1>1, CodesDiffer
<1>3. diff = IF g \in Marks(b) THEN Marks(b) \ {g} ELSE Marks(b) \union {g}
  <2> HIDE DEF code
  <2> QED BY <1>2 DEF SymDiff
<1>4. IsFiniteSet(Marks(b)) /\ Cardinality(Marks(b)) = Cardinality(Digits) BY MarksSize
<1> HIDE DEF diff
<1>5. Cardinality(diff) = IF g \in Marks(b) THEN Cardinality(Digits) - 1
                                            ELSE Cardinality(Digits) + 1
  <2>1. CASE g \in Marks(b)
    <3>1. diff = Marks(b) \ {g} BY <1>3, <2>1
    <3> QED BY <1>4, <2>1, <3>1, FS_RemoveElement
  <2>2. CASE g \notin Marks(b)
    <3>1. diff = Marks(b) \union {g} BY <1>3, <2>2
    <3> QED BY <1>4, <2>2, <3>1, FS_AddElement
  <2> QED BY <2>1, <2>2
<1>6. Cardinality(diff) # 0 /\ Cardinality(diff) # 1 /\ Cardinality(diff) # Cardinality(Digits)
  BY <1>5, DigitsCount
<1> QED BY <1>6 DEF Verdict, diff

LEMMA DiffOfTwo ==
    ASSUME NEW S, IsFiniteSet(S), Cardinality(S) = 2
    PROVE  \E a, b \in S : a # b /\ S = {a, b}
<1>1. S # {} BY FS_EmptySet
<1>2. PICK a \in S : TRUE BY <1>1
<1>3. IsFiniteSet(S \ {a}) /\ Cardinality(S \ {a}) = 1 BY <1>2, FS_RemoveElement
<1>4. PICK b : S \ {a} = {b} BY <1>3, FS_Singleton
<1> QED BY <1>2, <1>4

\* What hamming_correct_256 makes of a block and a code that differ in up to two
\* bits from block w and its code: right again if it is one bit or none, right
\* or reported if it is two.
LEMMA Judged ==
    ASSUME NEW w \in SUBSET Bits, NEW x \in SUBSET Bits, NEW s \in SUBSET CodeBits,
           IsFiniteSet(SymDiff(x, w)), IsFiniteSet(SymDiff(s, Compute(w))),
           Cardinality(SymDiff(x, w)) + Cardinality(SymDiff(s, Compute(w))) <= 2
    PROVE  LET n == Cardinality(SymDiff(x, w)) + Cardinality(SymDiff(s, Compute(w)))
               same == Corrected(x, s, Compute(x)) = w
               v == Verdict(s, Compute(x))
           IN  /\ n = 0 => same /\ v = "valid"
               /\ n = 1 => same /\ v # "multi"
               /\ n = 2 => same \/ v = "multi"
<1> DEFINE dx == SymDiff(x, w)
           ds == SymDiff(s, Compute(w))
<1>1. Cardinality(dx) \in Nat /\ Cardinality(ds) \in Nat BY FS_CardinalityType
<1>2. IsFiniteSet(w) BY BitsFinite, FS_Subset
<1>3. CASE Cardinality(dx) = 0
  <2>1. dx = {} BY <1>3, FS_EmptySet
  <2>2. x = w BY <2>1 DEF SymDiff
  <2> QED BY <1>1, <1>3, <2>2, WrongCode
<1>4. CASE Cardinality(dx) = 1
  <2>1. PICK b : dx = {b} BY <1>4, FS_Singleton
  <2>2. b \in Bits /\ x = Flipped(w, b) BY <2>1 DEF SymDiff, Flipped
  <2>3. CASE Cardinality(ds) = 0
    <3>1. ds = {} BY <2>3, FS_EmptySet
    <3>2. s = Compute(w) BY <3>1, CodeType DEF SymDiff
    <3>3. Verdict(s, Compute(x)) = "single" /\ Corrected(x, s, Compute(x)) = w
      BY <1>2, <2>2, <3>2, OneErrorCorrected
    <3> QED BY <3>3, <1>1, <1>4, <2>3
  <2>4. CASE Cardinality(ds) = 1
    <3>1. PICK g : ds = {g} BY <2>4, FS_Singleton
    <3>2. g \in CodeBits /\ s = SymDiff(Compute(w), {g}) BY <3>1, CodeType DEF SymDiff
    <3>3. Verdict(s, Compute(x)) = "multi" BY <2>2, <3>2, BlockAndCode
    <3> QED BY <3>3, <1>1, <1>4, <2>4
  <2> QED BY <1>1, <1>4, <2>3, <2>4
<1>5. CASE Cardinality(dx) = 2
  <2>1. PICK b, c \in dx : b # c /\ dx = {b, c} BY <1>5, DiffOfTwo
  <2>2. b \in Bits /\ c \in Bits BY DEF SymDiff
  <2>3. x = Flipped(Flipped(w, b), c) BY <2>1 DEF SymDiff, Flipped
  <2>4. ds = {} BY <1>1, <1>5, FS_EmptySet
  <2>5. s = Compute(w) BY <2>4, CodeType DEF SymDiff
  <2>6. Verdict(s, Compute(x)) = "multi"
    BY <1>2, <2>1, <2>2, <2>3, <2>5, TwoErrorsReported
  <2> QED BY <2>6, <1>1, <1>5
<1> QED BY <1>1, <1>3, <1>4, <1>5

-----------------------------------------------------------------------------
(* The inductive invariant: what is known of the chip before each cycle *)

StartCols == {s * 512 : s \in Sectors} \union Columns

\* A page's cells hold bits of their width.
PageOK(x) == x = [c \in Columns |-> x[c]] /\ \A c \in Columns : x[c] \subseteq Ones(c)

ChipOK ==
    /\ chip = [mode |-> chip.mode, busy |-> chip.busy, col |-> chip.col, row |-> chip.row,
               reg |-> chip.reg, status |-> chip.status]
    /\ chip.mode \in Modes /\ chip.busy \in BOOLEAN
    /\ chip.col \in StartCols /\ chip.row \in Pages
    /\ chip.status \in {"ok", "fail"}
    /\ PageOK(chip.reg)
    /\ chip.busy => chip.mode \in Works

ArrayOK == array = [p \in Pages |-> array[p]] /\ \A p \in Pages : PageOK(array[p])

WantOK(w) ==
    /\ w = [p \in Pages |-> w[p]]
    /\ \A p \in Pages :
           /\ w[p] = [i \in Blocks |-> w[p][i]]
           /\ \A i \in Blocks : w[p][i] = Unknown \/ w[p][i] \subseteq Bits

TypeInv ==
    /\ ChipOK /\ ArrayOK /\ WantOK(want)
    /\ flips \subseteq Weak /\ IsFiniteSet(flips)
    /\ bad \subseteq Pages
    /\ sel \in BOOLEAN

\* The bits that have changed in a cell
Changed(p, c) == {f[3] : f \in {g \in flips : g[1] = p /\ g[2] = c}}

\* The memory is what the user is told, w, up to bits that have changed.
Told(w) ==
    \A p \in Pages, i \in Blocks :
        w[p][i] # Unknown =>
            /\ SymDiff(array[p][BlockCol(i)], w[p][i]) \subseteq Changed(p, BlockCol(i))
            /\ SymDiff(array[p][CodeCol(i)], Compute(w[p][i])) \subseteq Changed(p, CodeCol(i))

\* The driver is about to do cycle k of P.
At(P, k) == todo = SubSeq(P, k, Len(P))

ResetStage(k) ==
    /\ (sel <=> k > 1)
    /\ k # 3 => ~chip.busy
    /\ k = 3 /\ chip.busy => chip.mode = "RESET"

IdStage(k) == ~chip.busy /\ (sel <=> k > 1)

\* The page is being loaded (nand_load_page), or is in the chip's register.
LoadStage(p, k) ==
    /\ (sel <=> k > 1)
    /\ k # 6 => ~chip.busy
    /\ k \in 3 .. 5 => chip.mode = "READ"
    /\ k = 5 => chip.row = p
    /\ k \in 6 .. 7 => /\ chip.mode = "READ_CONFIRM"
                       /\ IF chip.busy THEN chip.row = p ELSE chip.reg = array[p]

PageStage(p, k) ==
    /\ k <= 7 => LoadStage(p, k)
    /\ k > 7 => ~chip.busy /\ (sel <=> k = 8) /\ buf = array[p]

CellStage(p, c, k) ==
    /\ k <= 7 => LoadStage(p, k)
    /\ k > 7 => ~chip.busy /\ (sel <=> k < 13)
    /\ k \in 8 .. 9 => chip.mode = "RND_READ"
    /\ k \in 9 .. 11 => chip.col = c
    /\ k \in 10 .. 11 => chip.mode = "RND_READ_CONFIRM"
    /\ k \in 8 .. 11 => chip.reg = array[p]
    /\ k > 11 => cell = array[p][c]

\* From the end of the operation until its status is read, the memory is what
\* the user is going to be told.
EraseStage(b, k) ==
    /\ (sel <=> k > 1)
    /\ k # 5 => ~chip.busy
    /\ k \in 3 .. 4 => chip.mode = "BLOCK_ERASE"
    /\ k \in 4 .. 5 => chip.row = b * PagesPerBlock
    /\ k = 5 => chip.mode = "BLOCK_ERASE_CONFIRM"
    /\ k = 7 => chip.mode = "READ_STATUS"
    /\ IF k \in 6 .. 7 \/ (k = 5 /\ ~chip.busy) THEN Told(Wanted(chip.status)) ELSE Told(want)

\* What is in the register when a sector is programmed
SectorData(s, d) ==
    [k \in Columns |->
        CASE k = BlockCol(2 * s)     -> d[1]
          [] k = BlockCol(2 * s + 1) -> d[2]
          [] k = CodeCol(2 * s)      -> Compute(d[1])
          [] k = CodeCol(2 * s + 1)  -> Compute(d[2])
          [] OTHER -> Ones(k)]

FillStage(p, s, d, k) ==
    /\ (sel <=> k > 1)
    /\ k # 10 => ~chip.busy
    /\ k \in 3 .. 5 => chip.mode = "PROGRAM_PAGE" /\ chip.reg = Erased
    /\ k \in 4 .. 5 => chip.col = s * 512
    /\ k \in 5 .. 10 => chip.row = p
    /\ k = 6 => chip.mode = "PROGRAM_PAGE"
    /\ k \in 6 .. 8 => chip.reg = Stored(Erased, s * 512, d)
    /\ k \in 7 .. 9 => chip.mode = "RANDOM_DATA_INPUT"
    /\ k = 8 => chip.col = SectorCodeCol(s)
    /\ k \in 9 .. 10 => chip.reg = SectorData(s, d)
    /\ k = 10 => chip.mode = "PROGRAM_PAGE_CONFIRM"
    /\ k = 12 => chip.mode = "READ_STATUS"
    /\ IF k \in 11 .. 12 \/ (k = 10 /\ ~chip.busy)
           THEN Told(Wanted(chip.status)) ELSE Told(want)

\* The cycle of each command that comes next, and what is known before it
Resting ==
    /\ todo = <<>> /\ ~sel /\ ~chip.busy
    /\ Told(want)
    /\ PageExact /\ RawExact

Resetting ==
    /\ cmd.op = "reset"
    /\ \E k \in 1 .. 4 : At(NandReset, k) /\ ResetStage(k)
    /\ Told(want)

Identifying ==
    /\ cmd.op = "readid"
    /\ \E k \in 1 .. 7 : At(NandReadId, k) /\ IdStage(k)
    /\ Told(want)

ReadingPage ==
    /\ cmd.op = "readpage" /\ CommandOK(cmd)
    /\ \E k \in 1 .. 9 : At(NandReadPage(cmd.page), k) /\ PageStage(cmd.page, k)
    /\ Told(want)

Reading ==
    /\ cmd.op = "read" /\ CommandOK(cmd)
    /\ \E k \in 1 .. 12 : At(NandRead(cmd.page, cmd.col), k) /\ CellStage(cmd.page, cmd.col, k)
    /\ Told(want)

\* Of the pages before the one being read, the marked ones are counted.
Scanning ==
    /\ cmd.op = "bbscan"
    /\ \E n \in Pages :
           /\ \E k \in 1 .. 13 : At(ScanPage(n), k) /\ CellStage(n, MarkCol, k)
           /\ bad = {p \in 0 .. n - 1 : array[p][MarkCol] # {1}}
    /\ Told(want)

Erasing ==
    /\ cmd.op = "eraseblock" /\ CommandOK(cmd)
    /\ cmd.block \in Protected => cmd.yes
    /\ \E k \in 1 .. 8 : At(NandErase(cmd.block), k) /\ EraseStage(cmd.block, k)

Filling ==
    /\ cmd.op = "fillsect" /\ CommandOK(cmd)
    /\ \E k \in 1 .. 13 :
           /\ At(NandWriteSector(cmd.page, cmd.sect, cmd.data), k)
           /\ FillStage(cmd.page, cmd.sect, cmd.data, k)

Running ==
    \/ Resting \/ Resetting \/ Identifying \/ ReadingPage \/ Reading \/ Scanning
    \/ Erasing \/ Filling

IInv == TypeInv /\ Running

-----------------------------------------------------------------------------
(* The layout of a page *)

LEMMA Layout ==
    /\ \A i \in Blocks :
           /\ BlockCol(i) \in Columns /\ BlockCol(i) < MarkCol
           /\ BlockCol(i) \div 256 = i
           /\ CodeCol(i) \in Columns /\ CodeCol(i) > MarkCol
    /\ \A i, j \in Blocks : /\ BlockCol(i) = BlockCol(j) => i = j
                            /\ CodeCol(i) = CodeCol(j) => i = j
                            /\ BlockCol(i) # CodeCol(j)
    /\ MarkCol \in Columns
    /\ \A c \in Columns : c < MarkCol => \E i \in Blocks : c = BlockCol(i)
BY DEF Blocks, BlockCol, CodeCol, MarkCol, PAGE_SIZE, Columns

LEMMA CellWidths ==
    /\ \A i \in Blocks : Ones(BlockCol(i)) = Bits /\ Ones(CodeCol(i)) = CodeBits
    /\ Ones(MarkCol) = {1}
<1>1. \A i \in Blocks : BlockCol(i) < MarkCol /\ ~(CodeCol(i) < MarkCol) /\ CodeCol(i) # MarkCol
  BY DEF Blocks, BlockCol, CodeCol, MarkCol, PAGE_SIZE
<1>2. ~(MarkCol < MarkCol) BY DEF MarkCol, PAGE_SIZE
<1> QED BY <1>1, <1>2 DEF Ones

LEMMA SectorLayout ==
    ASSUME NEW s \in Sectors
    PROVE  /\ 2 * s \in Blocks /\ 2 * s + 1 \in Blocks /\ 2 * s # 2 * s + 1
           /\ \A i \in Blocks : i \div 2 = s <=> i \in {2 * s, 2 * s + 1}
           /\ (2 * s) % 2 = 0 /\ (2 * s + 1) % 2 = 1
           /\ s * 512 \in StartCols /\ SectorCodeCol(s) \in StartCols
<1>1. s \in {0, 1, 2, 3} BY DEF Sectors
<1>2. SectorCodeCol(s) = CodeCol(2 * s) BY <1>1 DEF SectorCodeCol, CodeCol, PAGE_SIZE
<1>3. 2 * s \in Blocks /\ 2 * s + 1 \in Blocks BY <1>1 DEF Blocks
<1>4. \A i \in Blocks : i \div 2 = s <=> i \in {2 * s, 2 * s + 1}
  BY <1>1 DEF Blocks
<1>5. (2 * s) % 2 = 0 /\ (2 * s + 1) % 2 = 1 BY <1>1
<1>6. SectorCodeCol(s) \in StartCols BY <1>2, <1>3, Layout DEF StartCols
<1>7. s * 512 \in StartCols BY DEF StartCols
<1> QED BY <1>1, <1>3, <1>4, <1>5, <1>6, <1>7

\* Two cells put at the start of a sector are its two blocks.
LEMMA BlocksStored ==
    ASSUME NEW s \in Sectors, NEW x, NEW d, d = <<d[1], d[2]>>
    PROVE  Stored(x, s * 512, d) =
               [k \in Columns |-> IF k = BlockCol(2 * s) THEN d[1]
                                  ELSE IF k = BlockCol(2 * s + 1) THEN d[2] ELSE x[k]]
<1>1. s \in {0, 1, 2, 3} BY DEF Sectors
<1>2. s * 512 < MarkCol BY <1>1 DEF MarkCol, PAGE_SIZE
<1>3. Width(s * 512) = 256 BY <1>2 DEF Width
<1>4. Len(d) = 2 OBVIOUS
<1>5. ASSUME NEW k \in Columns
      PROVE  /\ k = BlockCol(2 * s) =>
                    k >= s * 512 /\ (k - s * 512) % 256 = 0 /\ (k - s * 512) \div 256 = 0
             /\ k = BlockCol(2 * s + 1) =>
                    k >= s * 512 /\ (k - s * 512) % 256 = 0 /\ (k - s * 512) \div 256 = 1
             /\ k \notin {BlockCol(2 * s), BlockCol(2 * s + 1)} =>
                    ~(k >= s * 512 /\ (k - s * 512) % 256 = 0 /\ (k - s * 512) \div 256 < 2)
  <2>1. k \in {0, 256, 512, 768, 1024, 1280, 1536, 1792, 2048} \/ (k \in Nat /\ k > 2048)
    BY DEF Columns, Blocks, BlockCol, CodeCol, MarkCol, PAGE_SIZE
  <2> QED BY <1>1, <2>1 DEF BlockCol
<1>6. ASSUME NEW k \in Columns
      PROVE  (IF k >= s * 512 /\ (k - s * 512) % 256 = 0 /\ (k - s * 512) \div 256 < 2
                  THEN d[(k - s * 512) \div 256 + 1] ELSE x[k])
             = (IF k = BlockCol(2 * s) THEN d[1]
                ELSE IF k = BlockCol(2 * s + 1) THEN d[2] ELSE x[k])
  BY <1>5
<1> QED BY <1>3, <1>4, <1>6 DEF Stored

\* Two codes put at the codes of a sector are those of its two blocks.
LEMMA CodesStored ==
    ASSUME NEW s \in Sectors, NEW x, NEW d, d = <<d[1], d[2]>>
    PROVE  Stored(x, SectorCodeCol(s), d) =
               [k \in Columns |-> IF k = CodeCol(2 * s) THEN d[1]
                                  ELSE IF k = CodeCol(2 * s + 1) THEN d[2] ELSE x[k]]
<1> DEFINE c == SectorCodeCol(s)
<1>1. s \in {0, 1, 2, 3} BY DEF Sectors
<1>2. c \in Nat /\ c > MarkCol /\ c = 2088 + s * 6
  BY <1>1 DEF MarkCol, PAGE_SIZE, SectorCodeCol
<1>3. Width(c) = 3 BY <1>2 DEF Width, MarkCol, PAGE_SIZE
<1>4. Len(d) = 2 OBVIOUS
<1>5. ASSUME NEW k \in Columns
      PROVE  /\ k = CodeCol(2 * s) => k >= c /\ (k - c) % 3 = 0 /\ (k - c) \div 3 = 0
             /\ k = CodeCol(2 * s + 1) => k >= c /\ (k - c) % 3 = 0 /\ (k - c) \div 3 = 1
             /\ k \notin {CodeCol(2 * s), CodeCol(2 * s + 1)} =>
                    ~(k >= c /\ (k - c) % 3 = 0 /\ (k - c) \div 3 < 2)
  <2>1. k \in {2088, 2091, 2094, 2097, 2100, 2103, 2106, 2109} \/ (k \in Nat /\ k <= 2048)
    BY DEF Columns, Blocks, BlockCol, CodeCol, MarkCol, PAGE_SIZE
  <2> QED BY <1>1, <1>2, <2>1 DEF CodeCol, PAGE_SIZE
<1> HIDE DEF c
<1>6. ASSUME NEW k \in Columns
      PROVE  (IF k >= c /\ (k - c) % 3 = 0 /\ (k - c) \div 3 < 2
                  THEN d[(k - c) \div 3 + 1] ELSE x[k])
             = (IF k = CodeCol(2 * s) THEN d[1]
                ELSE IF k = CodeCol(2 * s + 1) THEN d[2] ELSE x[k])
  BY <1>5
<1> QED BY <1>3, <1>4, <1>6 DEF Stored, c

\* What nand_write_sector has put into the register before it confirms
LEMMA SectorStored ==
    ASSUME NEW s \in Sectors, NEW d, d = <<d[1], d[2]>>
    PROVE  Stored(Stored(Erased, s * 512, d), SectorCodeCol(s),
                  <<Compute(d[1]), Compute(d[2])>>)
           = SectorData(s, d)
<1> DEFINE x == Stored(Erased, s * 512, d)
           e == <<Compute(d[1]), Compute(d[2])>>
<1>1. Stored(x, SectorCodeCol(s), e) =
          [k \in Columns |-> IF k = CodeCol(2 * s) THEN e[1]
                             ELSE IF k = CodeCol(2 * s + 1) THEN e[2] ELSE x[k]]
  <2>1. e = <<e[1], e[2]>> OBVIOUS
  <2> HIDE DEF x, e
  <2> QED BY <2>1, CodesStored
<1>2. \A k \in Columns : x[k] = IF k = BlockCol(2 * s) THEN d[1]
                                ELSE IF k = BlockCol(2 * s + 1) THEN d[2] ELSE Ones(k)
  <2>1. x = [k \in Columns |-> IF k = BlockCol(2 * s) THEN d[1]
                               ELSE IF k = BlockCol(2 * s + 1) THEN d[2] ELSE Erased[k]]
    BY BlocksStored
  <2>2. \A k \in Columns : Erased[k] = Ones(k) BY DEF Erased
  <2> QED BY <2>1, <2>2
<1>3. e[1] = Compute(d[1]) /\ e[2] = Compute(d[2]) OBVIOUS
<1>4. 2 * s \in Blocks /\ 2 * s + 1 \in Blocks /\ 2 * s # 2 * s + 1 BY SectorLayout
<1>5. \A i, j \in {2 * s, 2 * s + 1} : BlockCol(i) # CodeCol(j) BY <1>4, Layout
<1>6. BlockCol(2 * s) # BlockCol(2 * s + 1) /\ CodeCol(2 * s) # CodeCol(2 * s + 1)
  BY <1>4, Layout
<1> HIDE DEF x, e
<1>7. ASSUME NEW k \in Columns
      PROVE  (IF k = CodeCol(2 * s) THEN e[1]
              ELSE IF k = CodeCol(2 * s + 1) THEN e[2] ELSE x[k]) = SectorData(s, d)[k]
  <2>1. SectorData(s, d)[k] =
            CASE k = BlockCol(2 * s)     -> d[1]
              [] k = BlockCol(2 * s + 1) -> d[2]
              [] k = CodeCol(2 * s)      -> Compute(d[1])
              [] k = CodeCol(2 * s + 1)  -> Compute(d[2])
              [] OTHER -> Ones(k)
    BY DEF SectorData
  <2> QED BY <1>2, <1>3, <1>5, <1>6, <2>1
<1> QED BY <1>1, <1>7 DEF SectorData, x, e

LEMMA ErasedOK == PageOK(Erased)
BY DEF PageOK, Erased

LEMMA SectorOK ==
    ASSUME NEW s \in Sectors, NEW d, d[1] \in SUBSET Bits, d[2] \in SUBSET Bits
    PROVE  PageOK(SectorData(s, d))
<1>1. 2 * s \in Blocks /\ 2 * s + 1 \in Blocks BY SectorLayout
<1>2. /\ Ones(BlockCol(2 * s)) = Bits /\ Ones(BlockCol(2 * s + 1)) = Bits
      /\ Ones(CodeCol(2 * s)) = CodeBits /\ Ones(CodeCol(2 * s + 1)) = CodeBits
  BY <1>1, CellWidths
<1>3. Compute(d[1]) \subseteq CodeBits /\ Compute(d[2]) \subseteq CodeBits BY CodeType
<1> QED BY <1>2, <1>3 DEF PageOK, SectorData

LEMMA BlocksOK ==
    ASSUME NEW s \in Sectors, NEW x, PageOK(x), NEW d, d = <<d[1], d[2]>>,
           d[1] \in SUBSET Bits, d[2] \in SUBSET Bits
    PROVE  PageOK(Stored(x, s * 512, d))
<1>1. 2 * s \in Blocks /\ 2 * s + 1 \in Blocks BY SectorLayout
<1>2. Ones(BlockCol(2 * s)) = Bits /\ Ones(BlockCol(2 * s + 1)) = Bits BY <1>1, CellWidths
<1>3. Stored(x, s * 512, d) =
          [k \in Columns |-> IF k = BlockCol(2 * s) THEN d[1]
                             ELSE IF k = BlockCol(2 * s + 1) THEN d[2] ELSE x[k]]
  BY BlocksStored
<1> QED BY <1>2, <1>3 DEF PageOK

\* An empty cell fits anywhere.
LEMMA EmptyStored ==
    ASSUME NEW x, PageOK(x), NEW c \in StartCols
    PROVE  PageOK(Stored(x, c, <<{}>>))
<1>1. c \in Int BY DEF StartCols, Sectors, Columns, Blocks, BlockCol, CodeCol, MarkCol, PAGE_SIZE
<1>2. Width(c) \in {3, 256} BY DEF Width
<1>3. \A k \in Columns : k \in Int BY DEF Columns, Blocks, BlockCol, CodeCol, MarkCol, PAGE_SIZE
<1>4. Len(<<{}>>) = 1 OBVIOUS
<1>5. ASSUME NEW k \in Columns, k >= c, (k - c) \div Width(c) < 1
      PROVE  (k - c) \div Width(c) + 1 = 1
  <2>1. k - c \in Nat BY <1>1, <1>3, <1>5
  <2>2. (k - c) \div Width(c) = 0
    <3>1. CASE Width(c) = 3 BY <1>5, <2>1, <3>1
    <3>2. CASE Width(c) = 256 BY <1>5, <2>1, <3>2
    <3> QED BY <1>2, <3>1, <3>2
  <2> QED BY <2>2
<1>6. \A k \in Columns :
          Stored(x, c, <<{}>>)[k] = {} \/ Stored(x, c, <<{}>>)[k] = x[k]
  <2> TAKE k \in Columns
  <2>1. Stored(x, c, <<{}>>)[k] =
            IF k >= c /\ (k - c) % Width(c) = 0 /\ (k - c) \div Width(c) < 1
                THEN <<{}>>[(k - c) \div Width(c) + 1] ELSE x[k]
    BY <1>4 DEF Stored
  <2>2. <<{}>>[1] = {} OBVIOUS
  <2> QED BY <1>5, <2>1, <2>2
<1>7. \A k \in Columns : Stored(x, c, <<{}>>)[k] \subseteq Ones(k) BY <1>6 DEF PageOK
<1>8. Stored(x, c, <<{}>>) = [k \in Columns |-> Stored(x, c, <<{}>>)[k]] BY DEF Stored
<1> QED BY <1>7, <1>8 DEF PageOK

-----------------------------------------------------------------------------
(* Sequences of cycles *)

IsSeq(P) == P \in Seq({P[i] : i \in 1 .. Len(P)})

LEMMA NextCycle ==
    ASSUME NEW P, IsSeq(P), NEW k \in 1 .. Len(P), At(P, k)
    PROVE  todo # <<>> /\ Head(todo) = P[k] /\ Tail(todo) = SubSeq(P, k + 1, Len(P))
<1> DEFINE S == {P[n] : n \in 1 .. Len(P)}
<1> P \in Seq(S) BY DEF IsSeq
<1> HIDE DEF S
<1>1. Len(P) \in Nat OBVIOUS
<1>2. todo = SubSeq(P, k, Len(P)) BY DEF At
<1>3. todo \in Seq(S) /\ Len(todo) = Len(P) - k + 1 BY <1>1, <1>2
<1>4. \A i \in 1 .. Len(todo) : todo[i] = P[k + i - 1] BY <1>1, <1>2, <1>3
<1>5. todo # <<>> /\ Head(todo) = P[k] BY <1>1, <1>3, <1>4
<1>6. Tail(todo) \in Seq(S) /\ Len(Tail(todo)) = Len(P) - k BY <1>1, <1>3, <1>5
<1>7. SubSeq(P, k + 1, Len(P)) \in Seq(S) /\ Len(SubSeq(P, k + 1, Len(P))) = Len(P) - k
  BY <1>1
<1>8. \A i \in 1 .. Len(P) - k : Tail(todo)[i] = P[k + i] BY <1>1, <1>3, <1>4, <1>5
<1>9. \A i \in 1 .. Len(P) - k : SubSeq(P, k + 1, Len(P))[i] = P[k + i] BY <1>1
<1>10. Tail(todo) = SubSeq(P, k + 1, Len(P))
  <2> DEFINE s == Tail(todo)
             u == SubSeq(P, k + 1, Len(P))
  <2>1. \A i \in 1 .. Len(s) : s[i] = u[i] BY <1>6, <1>8, <1>9
  <2> HIDE DEF s, u
  <2>2. s \in Seq(S) /\ u \in Seq(S) /\ Len(s) = Len(u) BY <1>6, <1>7 DEF s, u
  <2>3. s = u BY <2>1, <2>2, SeqEqual
  <2> QED BY <2>3 DEF s, u
<1> QED BY <1>5, <1>10

LEMMA FirstCycle == ASSUME NEW P, IsSeq(P) PROVE SubSeq(P, 1, Len(P)) = P
BY DEF IsSeq

LEMMA LastCycle == ASSUME NEW P, IsSeq(P) PROVE SubSeq(P, Len(P) + 1, Len(P)) = <<>>
BY DEF IsSeq

LEMMA ResetCycles ==
    /\ IsSeq(NandReset) /\ Len(NandReset) = 4
    /\ NandReset[1] = Select /\ NandReset[2] = Cmd("RESET")
    /\ NandReset[3] = Ready /\ NandReset[4] = Deselect
BY DEF NandReset, IsSeq

LEMMA IdCycles ==
    /\ IsSeq(NandReadId) /\ Len(NandReadId) = 7
    /\ NandReadId[1] = Select /\ NandReadId[2] = Input(<<{}>>)
    /\ NandReadId[3] = Cmd("READ_ID") /\ NandReadId[4] = Addr(Col(0))
    /\ NandReadId[5] = Ready /\ NandReadId[6] = Output("id") /\ NandReadId[7] = Deselect
BY DEF NandReadId, IsSeq

LEMMA Joined ==
    ASSUME NEW S, NEW s \in Seq(S), NEW u \in Seq(S), NEW P \in Seq(S),
           Len(P) = Len(s) + Len(u),
           \A i \in 1 .. Len(s) : P[i] = s[i],
           \A i \in 1 .. Len(u) : P[Len(s) + i] = u[i]
    PROVE  s \o u = P
<1>1. Len(P) \in Nat /\ Len(s) \in Nat /\ Len(u) \in Nat OBVIOUS
<1>2. s \o u \in Seq(S) /\ Len(s \o u) = Len(P) BY ConcatProperties
<1>3. ASSUME NEW i \in 1 .. Len(P) PROVE (s \o u)[i] = P[i]
  <2>1. CASE i \in 1 .. Len(s) BY <1>1, <2>1
  <2>2. CASE i \notin 1 .. Len(s)
    <3> DEFINE j == i - Len(s)
    <3>1. j \in 1 .. Len(u) /\ i = Len(s) + j BY <1>1, <2>2
    <3>2. (s \o u)[i] = u[j] BY <1>1, <2>2, <3>1
    <3> HIDE DEF j
    <3>3. P[Len(s) + j] = u[j] BY <3>1
    <3> QED BY <3>1, <3>2, <3>3
  <2> QED BY <2>1, <2>2
<1> QED BY <1>2, <1>3, SeqEqual

\* nand_load_page, with the selection before it
Loads(P, p) ==
    /\ P[1] = Select /\ P[2] = Cmd("READ") /\ P[3] = Addr(Col(0))
    /\ P[4] = Addr(Row(p)) /\ P[5] = Cmd("READ_CONFIRM") /\ P[6] = Ready

LEMMA PageCycles ==
    ASSUME NEW p
    PROVE  LET P == NandReadPage(p)
           IN  /\ IsSeq(P) /\ Len(P) = 9
               /\ Loads(P, p)
               /\ P[7] = Output("page") /\ P[8] = Deselect /\ P[9] = [k |-> "validate"]
<1>1. NandReadPage(p) =
          <<Select, Cmd("READ"), Addr(Col(0)), Addr(Row(p)), Cmd("READ_CONFIRM"), Ready,
            Output("page"), Deselect, [k |-> "validate"]>>
  <2> DEFINE P == <<Select, Cmd("READ"), Addr(Col(0)), Addr(Row(p)),
                Cmd("READ_CONFIRM"), Ready, Output("page"), Deselect,
                [k |-> "validate"]>>
             S == {P[n] : n \in 1 .. 9}
             A1 == <<Select>>
             A2 == <<Cmd("READ"), Addr(Col(0)), Addr(Row(p)),
                     Cmd("READ_CONFIRM"), Ready>>
             A3 == <<Output("page"), Deselect, [k |-> "validate"]>>
             B == <<Select, Cmd("READ"), Addr(Col(0)), Addr(Row(p)),
                    Cmd("READ_CONFIRM"), Ready>>
  <2>1. P \in Seq(S) /\ A1 \in Seq(S) /\ A2 \in Seq(S) /\ A3 \in Seq(S) /\ B \in Seq(S)
    OBVIOUS
  <2>2. Len(B) = Len(A1) + Len(A2) OBVIOUS
  <2>3. /\ \A i \in 1 .. Len(A1) : B[i] = A1[i]
        /\ \A i \in 1 .. Len(A2) : B[Len(A1) + i] = A2[i]
    OBVIOUS
  <2>4. Len(P) = Len(B) + Len(A3) OBVIOUS
  <2>5. /\ \A i \in 1 .. Len(B) : P[i] = B[i]
        /\ \A i \in 1 .. Len(A3) : P[Len(B) + i] = A3[i]
    OBVIOUS
  <2> HIDE DEF P, S, A1, A2, A3, B
  <2>6. A1 \o A2 = B BY <2>1, <2>2, <2>3, Joined
  <2>7. B \o A3 = P BY <2>1, <2>4, <2>5, Joined
  <2> QED BY <2>6, <2>7 DEF P, A1, A2, A3, B, NandReadPage, LoadPage
<1> QED BY <1>1 DEF IsSeq, Loads

LEMMA CellIs ==
    ASSUME NEW p, NEW c
    PROVE  NandRead(p, c) =
          <<Select, Cmd("READ"), Addr(Col(0)), Addr(Row(p)), Cmd("READ_CONFIRM"), Ready,
            Cmd("RND_READ"), Addr(Col(c)), Cmd("RND_READ_CONFIRM"), Ready,
            Output("cell"), Deselect>>
<1> DEFINE P == <<Select, Cmd("READ"), Addr(Col(0)), Addr(Row(p)),
              Cmd("READ_CONFIRM"), Ready, Cmd("RND_READ"), Addr(Col(c)),
              Cmd("RND_READ_CONFIRM"), Ready, Output("cell"), Deselect>>
           S == {P[n] : n \in 1 .. 12}
           A1 == <<Select>>
           A2 == <<Cmd("READ"), Addr(Col(0)), Addr(Row(p)),
                   Cmd("READ_CONFIRM"), Ready>>
           A3 == <<Cmd("RND_READ"), Addr(Col(c)), Cmd("RND_READ_CONFIRM"),
                   Ready, Output("cell"), Deselect>>
           B == <<Select, Cmd("READ"), Addr(Col(0)), Addr(Row(p)),
                  Cmd("READ_CONFIRM"), Ready>>
<1>1. P \in Seq(S) /\ A1 \in Seq(S) /\ A2 \in Seq(S) /\ A3 \in Seq(S) /\ B \in Seq(S)
  OBVIOUS
<1>2. Len(B) = Len(A1) + Len(A2) OBVIOUS
<1>3. /\ \A i \in 1 .. Len(A1) : B[i] = A1[i]
      /\ \A i \in 1 .. Len(A2) : B[Len(A1) + i] = A2[i]
  OBVIOUS
<1>4. Len(P) = Len(B) + Len(A3) OBVIOUS
<1>5. /\ \A i \in 1 .. Len(B) : P[i] = B[i]
      /\ \A i \in 1 .. Len(A3) : P[Len(B) + i] = A3[i]
  OBVIOUS
<1> HIDE DEF P, S, A1, A2, A3, B
<1>6. A1 \o A2 = B BY <1>1, <1>2, <1>3, Joined
<1>7. B \o A3 = P BY <1>1, <1>4, <1>5, Joined
<1> QED BY <1>6, <1>7 DEF P, A1, A2, A3, B, NandRead, LoadPage

LEMMA CellCycles ==
    ASSUME NEW p, NEW c
    PROVE  LET P == NandRead(p, c)
           IN  /\ IsSeq(P) /\ Len(P) = 12
               /\ Loads(P, p)
               /\ P[7] = Cmd("RND_READ") /\ P[8] = Addr(Col(c))
               /\ P[9] = Cmd("RND_READ_CONFIRM") /\ P[10] = Ready
               /\ P[11] = Output("cell") /\ P[12] = Deselect
<1>1. NandRead(p, c) =
          <<Select, Cmd("READ"), Addr(Col(0)), Addr(Row(p)), Cmd("READ_CONFIRM"), Ready,
            Cmd("RND_READ"), Addr(Col(c)), Cmd("RND_READ_CONFIRM"), Ready,
            Output("cell"), Deselect>>
  BY CellIs
<1> QED BY <1>1 DEF IsSeq, Loads

LEMMA ScanCycles ==
    ASSUME NEW p
    PROVE  LET P == ScanPage(p)
           IN  /\ IsSeq(P) /\ Len(P) = 13
               /\ Loads(P, p)
               /\ P[7] = Cmd("RND_READ") /\ P[8] = Addr(Col(MarkCol))
               /\ P[9] = Cmd("RND_READ_CONFIRM") /\ P[10] = Ready
               /\ P[11] = Output("cell") /\ P[12] = Deselect
               /\ P[13] = [k |-> "count", v |-> p]
<1>1. ScanPage(p) =
          <<Select, Cmd("READ"), Addr(Col(0)), Addr(Row(p)),
            Cmd("READ_CONFIRM"), Ready, Cmd("RND_READ"), Addr(Col(MarkCol)),
            Cmd("RND_READ_CONFIRM"), Ready, Output("cell"), Deselect,
            [k |-> "count", v |-> p]>>
  <2> DEFINE P == <<Select, Cmd("READ"), Addr(Col(0)), Addr(Row(p)),
                Cmd("READ_CONFIRM"), Ready, Cmd("RND_READ"),
                Addr(Col(MarkCol)), Cmd("RND_READ_CONFIRM"), Ready,
                Output("cell"), Deselect, [k |-> "count", v |-> p]>>
             S == {P[n] : n \in 1 .. 13}
             A1 == <<Select, Cmd("READ"), Addr(Col(0)), Addr(Row(p)),
                     Cmd("READ_CONFIRM"), Ready, Cmd("RND_READ"),
                     Addr(Col(MarkCol)), Cmd("RND_READ_CONFIRM"), Ready,
                     Output("cell"), Deselect>>
             A2 == <<[k |-> "count", v |-> p]>>
  <2>1. P \in Seq(S) /\ A1 \in Seq(S) /\ A2 \in Seq(S)
    OBVIOUS
  <2>2. Len(P) = Len(A1) + Len(A2) OBVIOUS
  <2>3. /\ \A i \in 1 .. Len(A1) : P[i] = A1[i]
        /\ \A i \in 1 .. Len(A2) : P[Len(A1) + i] = A2[i]
    OBVIOUS
  <2> HIDE DEF P, S, A1, A2
  <2>6. A1 \o A2 = P BY <2>1, <2>2, <2>3, Joined
  <2>7. NandRead(p, MarkCol) = A1 BY CellIs DEF A1
  <2> QED BY <2>6, <2>7 DEF P, A2, ScanPage
<1> QED BY <1>1 DEF IsSeq, Loads

LEMMA EraseCycles ==
    ASSUME NEW b
    PROVE  LET P == NandErase(b)
           IN  /\ IsSeq(P) /\ Len(P) = 8
               /\ P[1] = Select /\ P[2] = Cmd("BLOCK_ERASE")
               /\ P[3] = Addr(Row(b * PagesPerBlock)) /\ P[4] = Cmd("BLOCK_ERASE_CONFIRM")
               /\ P[5] = Ready /\ P[6] = Cmd("READ_STATUS") /\ P[7] = Output("status")
               /\ P[8] = Deselect
<1>1. NandErase(b) =
          <<Select, Cmd("BLOCK_ERASE"), Addr(Row(b * PagesPerBlock)),
            Cmd("BLOCK_ERASE_CONFIRM"), Ready, Cmd("READ_STATUS"), Output("status"),
            Deselect>>
  <2> DEFINE P == <<Select, Cmd("BLOCK_ERASE"), Addr(Row(b * PagesPerBlock)),
                Cmd("BLOCK_ERASE_CONFIRM"), Ready, Cmd("READ_STATUS"),
                Output("status"), Deselect>>
             S == {P[n] : n \in 1 .. 8}
             A1 == <<Select, Cmd("BLOCK_ERASE"), Addr(Row(b * PagesPerBlock)),
                     Cmd("BLOCK_ERASE_CONFIRM"), Ready>>
             A2 == <<Cmd("READ_STATUS"), Output("status")>>
             A3 == <<Deselect>>
             B == <<Select, Cmd("BLOCK_ERASE"), Addr(Row(b * PagesPerBlock)),
                    Cmd("BLOCK_ERASE_CONFIRM"), Ready, Cmd("READ_STATUS"),
                    Output("status")>>
  <2>1. P \in Seq(S) /\ A1 \in Seq(S) /\ A2 \in Seq(S) /\ A3 \in Seq(S) /\ B \in Seq(S)
    OBVIOUS
  <2>2. Len(B) = Len(A1) + Len(A2) OBVIOUS
  <2>3. /\ \A i \in 1 .. Len(A1) : B[i] = A1[i]
        /\ \A i \in 1 .. Len(A2) : B[Len(A1) + i] = A2[i]
    OBVIOUS
  <2>4. Len(P) = Len(B) + Len(A3) OBVIOUS
  <2>5. /\ \A i \in 1 .. Len(B) : P[i] = B[i]
        /\ \A i \in 1 .. Len(A3) : P[Len(B) + i] = A3[i]
    OBVIOUS
  <2> HIDE DEF P, S, A1, A2, A3, B
  <2>6. A1 \o A2 = B BY <2>1, <2>2, <2>3, Joined
  <2>7. B \o A3 = P BY <2>1, <2>4, <2>5, Joined
  <2> QED BY <2>6, <2>7 DEF P, A1, A2, A3, B, NandErase, NandStatus
<1> QED BY <1>1 DEF IsSeq

LEMMA FillIs ==
    ASSUME NEW p, NEW s, NEW d
    PROVE  NandWriteSector(p, s, d) =
             <<Select, Cmd("PROGRAM_PAGE"), Addr(Col(s * 512)), Addr(Row(p)), Input(d),
               Cmd("RANDOM_DATA_INPUT"), Addr(Col(SectorCodeCol(s))),
               Input(<<Compute(d[1]), Compute(d[2])>>), Cmd("PROGRAM_PAGE_CONFIRM"), Ready,
               Cmd("READ_STATUS"), Output("status"), Deselect>>
<1> DEFINE P == <<Select, Cmd("PROGRAM_PAGE"), Addr(Col(s * 512)),
              Addr(Row(p)), Input(d), Cmd("RANDOM_DATA_INPUT"),
              Addr(Col(SectorCodeCol(s))),
              Input(<<Compute(d[1]), Compute(d[2])>>),
              Cmd("PROGRAM_PAGE_CONFIRM"), Ready, Cmd("READ_STATUS"),
              Output("status"), Deselect>>
           S == {P[n] : n \in 1 .. 13}
           A1 == <<Select, Cmd("PROGRAM_PAGE"), Addr(Col(s * 512)),
                   Addr(Row(p)), Input(d), Cmd("RANDOM_DATA_INPUT"),
                   Addr(Col(SectorCodeCol(s))),
                   Input(<<Compute(d[1]), Compute(d[2])>>),
                   Cmd("PROGRAM_PAGE_CONFIRM"), Ready>>
           A2 == <<Cmd("READ_STATUS"), Output("status")>>
           A3 == <<Deselect>>
           B == <<Select, Cmd("PROGRAM_PAGE"), Addr(Col(s * 512)),
                  Addr(Row(p)), Input(d), Cmd("RANDOM_DATA_INPUT"),
                  Addr(Col(SectorCodeCol(s))),
                  Input(<<Compute(d[1]), Compute(d[2])>>),
                  Cmd("PROGRAM_PAGE_CONFIRM"), Ready, Cmd("READ_STATUS"),
                  Output("status")>>
<1>1. P \in Seq(S) /\ A1 \in Seq(S) /\ A2 \in Seq(S) /\ A3 \in Seq(S) /\ B \in Seq(S)
  OBVIOUS
<1>2. Len(B) = Len(A1) + Len(A2) OBVIOUS
<1>3. /\ \A i \in 1 .. Len(A1) : B[i] = A1[i]
      /\ \A i \in 1 .. Len(A2) : B[Len(A1) + i] = A2[i]
  OBVIOUS
<1>4. Len(P) = Len(B) + Len(A3) OBVIOUS
<1>5. /\ \A i \in 1 .. Len(B) : P[i] = B[i]
      /\ \A i \in 1 .. Len(A3) : P[Len(B) + i] = A3[i]
  OBVIOUS
<1> HIDE DEF P, S, A1, A2, A3, B
<1>6. A1 \o A2 = B BY <1>1, <1>2, <1>3, Joined
<1>7. B \o A3 = P BY <1>1, <1>4, <1>5, Joined
<1> QED BY <1>6, <1>7 DEF P, A1, A2, A3, B, NandWriteSector, NandStatus

LEMMA FillCycles ==
    ASSUME NEW p, NEW s, NEW d
    PROVE  LET P == NandWriteSector(p, s, d)
           IN  /\ IsSeq(P) /\ Len(P) = 13
               /\ P[1] = Select /\ P[2] = Cmd("PROGRAM_PAGE") /\ P[3] = Addr(Col(s * 512))
               /\ P[4] = Addr(Row(p)) /\ P[5] = Input(d) /\ P[6] = Cmd("RANDOM_DATA_INPUT")
               /\ P[7] = Addr(Col(SectorCodeCol(s)))
               /\ P[8] = Input(<<Compute(d[1]), Compute(d[2])>>)
               /\ P[9] = Cmd("PROGRAM_PAGE_CONFIRM") /\ P[10] = Ready
               /\ P[11] = Cmd("READ_STATUS") /\ P[12] = Output("status")
               /\ P[13] = Deselect
<1>1. NandWriteSector(p, s, d) =
          <<Select, Cmd("PROGRAM_PAGE"), Addr(Col(s * 512)), Addr(Row(p)), Input(d),
            Cmd("RANDOM_DATA_INPUT"), Addr(Col(SectorCodeCol(s))),
            Input(<<Compute(d[1]), Compute(d[2])>>), Cmd("PROGRAM_PAGE_CONFIRM"), Ready,
            Cmd("READ_STATUS"), Output("status"), Deselect>>
  BY FillIs
<1> QED BY <1>1 DEF IsSeq

LEMMA FillLength ==
    ASSUME NEW p, NEW s, NEW d
    PROVE  IsSeq(NandWriteSector(p, s, d)) /\ Len(NandWriteSector(p, s, d)) = 13
<1>1. Len(NandWriteSector(p, s, d)) = 13 BY FillIs
<1>2. IsSeq(NandWriteSector(p, s, d)) BY FillCycles, Zenon
<1> QED BY <1>1, <1>2

-----------------------------------------------------------------------------
(* What a cycle does *)

LEMMA DoneSelect ==
    ASSUME DriverStep, Head(todo) = Select
    PROVE  todo' = Tail(todo) /\ sel' = TRUE /\ UNCHANGED <<driver, chip, array, want, flips>>
BY DEF DriverStep, DoSelect, DoWrite, DoReady, DoRead, DoValidate, DoCount, Take, Select

LEMMA DoneDeselect ==
    ASSUME DriverStep, Head(todo) = Deselect
    PROVE  todo' = Tail(todo) /\ sel' = FALSE /\ UNCHANGED <<driver, chip, array, want, flips>>
BY DEF DriverStep, DoSelect, DoWrite, DoReady, DoRead, DoValidate, DoCount, Take, Deselect

LEMMA DoneReady ==
    ASSUME DriverStep, Head(todo) = Ready
    PROVE  todo' = Tail(todo) /\ ~chip.busy /\ UNCHANGED <<driver, sel, chip, array, want, flips>>
BY DEF DriverStep, DoSelect, DoWrite, DoReady, DoRead, DoValidate, DoCount, Take, Ready

LEMMA DoneCmd ==
    ASSUME DriverStep, NEW c, Head(todo) = Cmd(c), sel, ~chip.busy
    PROVE  /\ todo' = Tail(todo) /\ chip' = ChipCmd(c)
           /\ UNCHANGED <<driver, sel, array, want, flips>>
<1>1. Head(todo).k = "cmd" /\ Arg = c BY DEF Cmd, Arg
<1>2. DoWrite BY <1>1 DEF DriverStep, DoSelect, DoReady, DoRead, DoValidate, DoCount, Take
<1>3. PICK k \in {"cmd", "addr", "input"} :
          /\ Take(k)
          /\ chip' = IF chip.busy \/ ~sel THEN chip
                     ELSE CASE k = "cmd" -> ChipCmd(Arg)
                            [] k = "addr" -> ChipAddr(Arg)
                            [] k = "input" -> ChipInput(Arg)
  BY <1>2 DEF DoWrite
<1>4. k = "cmd" BY <1>1, <1>3 DEF Take
<1>5. chip' = ChipCmd(c) BY <1>1, <1>3, <1>4
<1>6. todo' = Tail(todo) BY <1>3 DEF Take
<1> QED BY <1>2, <1>5, <1>6 DEF DoWrite

LEMMA DoneAddr ==
    ASSUME DriverStep, NEW a, Head(todo) = Addr(a), sel, ~chip.busy
    PROVE  /\ todo' = Tail(todo) /\ chip' = ChipAddr(a)
           /\ UNCHANGED <<driver, sel, array, want, flips>>
<1>1. Head(todo).k = "addr" /\ Arg = a BY DEF Addr, Arg
<1>2. DoWrite BY <1>1 DEF DriverStep, DoSelect, DoReady, DoRead, DoValidate, DoCount, Take
<1>3. PICK k \in {"cmd", "addr", "input"} :
          /\ Take(k)
          /\ chip' = IF chip.busy \/ ~sel THEN chip
                     ELSE CASE k = "cmd" -> ChipCmd(Arg)
                            [] k = "addr" -> ChipAddr(Arg)
                            [] k = "input" -> ChipInput(Arg)
  BY <1>2 DEF DoWrite
<1>4. k = "addr" BY <1>1, <1>3 DEF Take
<1>5. chip' = ChipAddr(a) BY <1>1, <1>3, <1>4
<1>6. todo' = Tail(todo) BY <1>3 DEF Take
<1> QED BY <1>2, <1>5, <1>6 DEF DoWrite

LEMMA DoneInput ==
    ASSUME DriverStep, NEW d, Head(todo) = Input(d), sel, ~chip.busy
    PROVE  /\ todo' = Tail(todo) /\ chip' = ChipInput(d)
           /\ UNCHANGED <<driver, sel, array, want, flips>>
<1>1. Head(todo).k = "input" /\ Arg = d BY DEF Input, Arg
<1>2. DoWrite BY <1>1 DEF DriverStep, DoSelect, DoReady, DoRead, DoValidate, DoCount, Take
<1>3. PICK k \in {"cmd", "addr", "input"} :
          /\ Take(k)
          /\ chip' = IF chip.busy \/ ~sel THEN chip
                     ELSE CASE k = "cmd" -> ChipCmd(Arg)
                            [] k = "addr" -> ChipAddr(Arg)
                            [] k = "input" -> ChipInput(Arg)
  BY <1>2 DEF DoWrite
<1>4. k = "input" BY <1>1, <1>3 DEF Take
<1>5. chip' = ChipInput(d) BY <1>1, <1>3, <1>4
<1>6. todo' = Tail(todo) BY <1>3 DEF Take
<1> QED BY <1>2, <1>5, <1>6 DEF DoWrite

LEMMA DoneOutput ==
    ASSUME DriverStep, NEW w, Head(todo) = Output(w)
    PROVE  /\ todo' = Tail(todo)
           /\ buf' = IF w = "page" THEN ChipPage ELSE buf
           /\ cell' = IF w = "cell" THEN ChipCell ELSE cell
           /\ want' = IF w = "status" THEN Wanted(ChipStatus) ELSE want
           /\ UNCHANGED <<cmd, verdicts, bad, given, sel, chip, array, flips>>
BY DEF DriverStep, DoSelect, DoWrite, DoReady, DoRead, DoValidate, DoCount, Take, Output, Arg

LEMMA DoneValidate ==
    ASSUME DriverStep, Head(todo) = [k |-> "validate"]
    PROVE  DoValidate
BY DEF DriverStep, DoSelect, DoWrite, DoReady, DoRead, DoCount, Take

LEMMA DoneCount ==
    ASSUME DriverStep, NEW p, Head(todo) = [k |-> "count", v |-> p]
    PROVE  /\ todo' = (IF p + 1 < NumPages THEN ScanPage(p + 1) ELSE <<>>)
           /\ bad' = (IF cell # {1} THEN bad \union {p} ELSE bad)
           /\ UNCHANGED <<cmd, buf, cell, verdicts, given, sel, chip, array, want, flips>>
BY DEF DriverStep, DoSelect, DoWrite, DoReady, DoRead, DoValidate, DoCount, Take, Arg

LEMMA StepSelect ==
    ASSUME ChipOK, DriverStep, Head(todo) = Select
    PROVE  /\ todo' = Tail(todo) /\ ChipOK' /\ sel' /\ sel' \in BOOLEAN
           /\ UNCHANGED <<driver, chip, array, want, flips>>
BY DoneSelect DEF ChipOK

LEMMA StepDeselect ==
    ASSUME ChipOK, DriverStep, Head(todo) = Deselect
    PROVE  /\ todo' = Tail(todo) /\ ChipOK' /\ ~sel' /\ sel' \in BOOLEAN
           /\ UNCHANGED <<driver, chip, array, want, flips>>
BY DoneDeselect DEF ChipOK

LEMMA StepReady ==
    ASSUME ChipOK, DriverStep, Head(todo) = Ready
    PROVE  /\ todo' = Tail(todo) /\ ChipOK' /\ ~chip.busy
           /\ UNCHANGED <<driver, sel, chip, array, want, flips>>
BY DoneReady DEF ChipOK

LEMMA StepCmd ==
    ASSUME ChipOK, DriverStep, NEW c \in Modes, Head(todo) = Cmd(c), sel, ~chip.busy,
           c \in Opens \union Follows(chip.mode)
    PROVE  /\ todo' = Tail(todo) /\ ChipOK'
           /\ chip'.mode = c /\ (chip'.busy <=> c \in Works)
           /\ chip'.col = chip.col /\ chip'.row = chip.row /\ chip'.status = chip.status
           /\ chip'.reg = IF c = "PROGRAM_PAGE" THEN Erased ELSE chip.reg
           /\ UNCHANGED <<driver, sel, array, want, flips>>
<1>1. chip' = ChipCmd(c) BY DoneCmd
<1>2. chip' = [mode |-> c, busy |-> c \in Works, col |-> chip.col, row |-> chip.row,
               reg |-> IF c = "PROGRAM_PAGE" THEN Erased ELSE chip.reg,
               status |-> chip.status]
  BY <1>1 DEF ChipOK, ChipCmd
<1>3. ChipOK' BY <1>2, ErasedOK DEF ChipOK
<1> QED BY <1>2, <1>3, DoneCmd

LEMMA StepCol ==
    ASSUME ChipOK, DriverStep, NEW c \in StartCols, Head(todo) = Addr(Col(c)), sel, ~chip.busy
    PROVE  /\ todo' = Tail(todo) /\ ChipOK'
           /\ chip'.mode = chip.mode /\ ~chip'.busy
           /\ chip'.col = c /\ chip'.row = chip.row /\ chip'.status = chip.status
           /\ chip'.reg = chip.reg
           /\ UNCHANGED <<driver, sel, array, want, flips>>
<1>1. chip' = ChipAddr(Col(c)) BY DoneAddr
<1>2. chip' = [mode |-> chip.mode, busy |-> chip.busy, col |-> c, row |-> chip.row,
               reg |-> chip.reg, status |-> chip.status]
  BY <1>1 DEF ChipOK, ChipAddr, Col
<1>3. ChipOK' BY <1>2 DEF ChipOK
<1> QED BY <1>2, <1>3, DoneAddr

LEMMA StepRow ==
    ASSUME ChipOK, DriverStep, NEW p \in Pages, Head(todo) = Addr(Row(p)), sel, ~chip.busy
    PROVE  /\ todo' = Tail(todo) /\ ChipOK'
           /\ chip'.mode = chip.mode /\ ~chip'.busy
           /\ chip'.col = chip.col /\ chip'.row = p /\ chip'.status = chip.status
           /\ chip'.reg = chip.reg
           /\ UNCHANGED <<driver, sel, array, want, flips>>
<1>1. chip' = ChipAddr(Row(p)) BY DoneAddr
<1>2. p % NumPages = p BY NandAssumption DEF Pages
<1>3. Row(p)[1] = "row" /\ Row(p)[2] = p BY DEF Row
<1>4. chip' = [mode |-> chip.mode, busy |-> chip.busy, col |-> chip.col, row |-> p,
               reg |-> chip.reg, status |-> chip.status]
  BY <1>1, <1>2, <1>3 DEF ChipOK, ChipAddr
<1>5. ChipOK' BY <1>4 DEF ChipOK
<1> QED BY <1>4, <1>5, DoneAddr

LEMMA StepInput ==
    ASSUME ChipOK, DriverStep, NEW d, Head(todo) = Input(d), sel, ~chip.busy,
           PageOK(Stored(chip.reg, chip.col, d))
    PROVE  /\ todo' = Tail(todo) /\ ChipOK'
           /\ chip'.mode = chip.mode /\ ~chip'.busy
           /\ chip'.col = chip.col /\ chip'.row = chip.row /\ chip'.status = chip.status
           /\ chip.mode \in Programming => chip'.reg = Stored(chip.reg, chip.col, d)
           /\ UNCHANGED <<driver, sel, array, want, flips>>
<1> DEFINE x == Stored(chip.reg, chip.col, d)
<1>1. chip' = ChipInput(d) BY DoneInput
<1>2. chip' = [mode |-> chip.mode, busy |-> chip.busy, col |-> chip.col, row |-> chip.row,
               reg |-> IF chip.mode \in Programming THEN x ELSE chip.reg,
               status |-> chip.status]
  BY <1>1 DEF ChipOK, ChipInput
<1> HIDE DEF x
<1>3. chip'.reg = (IF chip.mode \in Programming THEN x ELSE chip.reg) BY <1>2
<1>4. PageOK(chip'.reg) BY <1>3 DEF x, ChipOK
<1>5. ChipOK' BY <1>2, <1>4 DEF ChipOK
<1> QED BY <1>2, <1>3, <1>5, DoneInput DEF x

\* The commands are all different, and each is taken where the driver sends it.
LEMMA TheModes ==
    /\ {"RESET", "READ", "PROGRAM_PAGE", "BLOCK_ERASE", "READ_STATUS", "READ_ID"} = Opens
    /\ Follows("READ") = {"READ_CONFIRM"}
    /\ Follows("READ_CONFIRM") = {"RND_READ"}
    /\ Follows("RND_READ") = {"RND_READ_CONFIRM"}
    /\ Follows("PROGRAM_PAGE") = {"RANDOM_DATA_INPUT", "PROGRAM_PAGE_CONFIRM"}
    /\ Follows("RANDOM_DATA_INPUT") = {"RANDOM_DATA_INPUT", "PROGRAM_PAGE_CONFIRM"}
    /\ Follows("BLOCK_ERASE") = {"BLOCK_ERASE_CONFIRM"}
BY DEF Opens, Follows

LEMMA ModesAre ==
    {"RESET", "READ", "PROGRAM_PAGE", "BLOCK_ERASE", "READ_STATUS", "READ_ID", "READ_CONFIRM",
     "RND_READ", "RND_READ_CONFIRM", "RANDOM_DATA_INPUT", "PROGRAM_PAGE_CONFIRM",
     "BLOCK_ERASE_CONFIRM", "idle"} \subseteq Modes
<1>1. Opens \subseteq Modes BY DEF Modes
<1>2. \A m \in Opens : Follows(m) \subseteq Modes BY DEF Modes
<1>3. {"READ", "PROGRAM_PAGE", "BLOCK_ERASE"} \subseteq Opens BY DEF Opens
<1>4. /\ Follows("READ") \subseteq Modes /\ Follows("PROGRAM_PAGE") \subseteq Modes
      /\ Follows("BLOCK_ERASE") \subseteq Modes
  BY <1>2, <1>3
<1>5. {"RND_READ", "RND_READ_CONFIRM", Idle} \subseteq Modes BY DEF Modes
<1>6. Idle = "idle" BY DEF Idle
<1> QED BY <1>1, <1>4, <1>5, <1>6, TheModes

LEMMA WorkModes ==
    /\ {"RESET", "READ_CONFIRM", "PROGRAM_PAGE_CONFIRM", "BLOCK_ERASE_CONFIRM"} = Works
    /\ {"PROGRAM_PAGE", "RANDOM_DATA_INPUT"} = Programming
    /\ {"READ_CONFIRM", "RND_READ_CONFIRM"} = Loaded
BY DEF Works, Programming, Loaded

LEMMA TypeKept ==
    ASSUME TypeInv, ChipOK', sel' \in BOOLEAN, UNCHANGED <<array, want, flips, bad>>
    PROVE  TypeInv'
<1>1. ArrayOK' /\ WantOK(want)' BY DEF TypeInv, ArrayOK, WantOK
<1> QED BY <1>1 DEF TypeInv

-----------------------------------------------------------------------------
(* The invariant is kept: a cycle of the driver *)

LEMMA LoadStep ==
    ASSUME TypeInv, DriverStep, NEW P, IsSeq(P), 6 <= Len(P), NEW p \in Pages, Loads(P, p),
           NEW k \in 1 .. 6, At(P, k), LoadStage(p, k)
    PROVE  /\ At(P, k + 1)' /\ LoadStage(p, k + 1)' /\ TypeInv'
           /\ UNCHANGED <<driver, array, want, flips>>
<1>1. ChipOK /\ sel \in BOOLEAN BY DEF TypeInv
<1>2. Len(P) \in Nat BY DEF IsSeq
<1>3. Head(todo) = P[k] /\ Tail(todo) = SubSeq(P, k + 1, Len(P))
  BY <1>2, NextCycle
<1>4. SUFFICES /\ todo' = Tail(todo) /\ LoadStage(p, k + 1)' /\ ChipOK' /\ sel' \in BOOLEAN
               /\ UNCHANGED <<driver, array, want, flips>>
  BY <1>3, TypeKept DEF At, driver
<1>5. k \in {1, 2, 3, 4, 5, 6} OBVIOUS
<1>6. CASE k = 1
  <2>1. Head(todo) = Select BY <1>3, <1>6 DEF Loads
  <2> QED BY <1>1, <1>6, <2>1, StepSelect DEF LoadStage
<1>7. CASE k = 2
  <2>1. Head(todo) = Cmd("READ") /\ sel /\ ~chip.busy BY <1>1, <1>3, <1>7 DEF Loads, LoadStage
  <2>2. "READ" \in Modes /\ "READ" \in Opens /\ "READ" \notin Works
    BY ModesAre, TheModes, WorkModes
  <2>3. /\ todo' = Tail(todo) /\ ChipOK' /\ chip'.mode = "READ" /\ ~chip'.busy
        /\ UNCHANGED <<driver, sel, array, want, flips>>
    BY <1>1, <2>1, <2>2, StepCmd
  <2> QED BY <1>1, <1>7, <2>1, <2>3 DEF LoadStage
<1>8. CASE k = 3
  <2>1. Head(todo) = Addr(Col(0)) /\ sel /\ ~chip.busy BY <1>1, <1>3, <1>8 DEF Loads, LoadStage
  <2>2. 0 \in StartCols BY DEF StartCols, Sectors
  <2>3. /\ todo' = Tail(todo) /\ ChipOK' /\ chip'.mode = chip.mode /\ ~chip'.busy
        /\ UNCHANGED <<driver, sel, array, want, flips>>
    BY <1>1, <2>1, <2>2, StepCol
  <2> QED BY <1>1, <1>8, <2>1, <2>3 DEF LoadStage
<1>9. CASE k = 4
  <2>1. Head(todo) = Addr(Row(p)) /\ sel /\ ~chip.busy BY <1>1, <1>3, <1>9 DEF Loads, LoadStage
  <2>2. /\ todo' = Tail(todo) /\ ChipOK' /\ chip'.mode = chip.mode /\ ~chip'.busy
        /\ chip'.row = p
        /\ UNCHANGED <<driver, sel, array, want, flips>>
    BY <1>1, <2>1, StepRow
  <2> QED BY <1>1, <1>9, <2>1, <2>2 DEF LoadStage
<1>10. CASE k = 5
  <2>1. /\ Head(todo) = Cmd("READ_CONFIRM") /\ sel /\ ~chip.busy
        /\ chip.mode = "READ" /\ chip.row = p
    BY <1>1, <1>3, <1>10 DEF Loads, LoadStage
  <2>2. "READ_CONFIRM" \in Modes /\ "READ_CONFIRM" \in Follows("READ") /\ "READ_CONFIRM" \in Works
    BY ModesAre, TheModes, WorkModes
  <2>3. /\ todo' = Tail(todo) /\ ChipOK' /\ chip'.mode = "READ_CONFIRM" /\ chip'.busy
        /\ chip'.row = p
        /\ UNCHANGED <<driver, sel, array, want, flips>>
    BY <1>1, <2>1, <2>2, StepCmd
  <2> QED BY <1>1, <1>10, <2>1, <2>3 DEF LoadStage
<1>11. CASE k = 6
  <2>1. Head(todo) = Ready BY <1>3, <1>11 DEF Loads
  <2> QED BY <1>1, <1>11, <2>1, StepReady DEF LoadStage
<1> QED BY <1>5, <1>6, <1>7, <1>8, <1>9, <1>10, <1>11

LEMMA ToldKept ==
    ASSUME Told(want), UNCHANGED <<array, want, flips>>
    PROVE  Told(want)'
BY DEF Told, Changed

\* What the commands that read have to show does not concern the others.
LEMMA NotReading ==
    ASSUME cmd'.op \notin {"read", "readpage", "bbscan"}
    PROVE  PageExact' /\ RawExact'
BY DEF PageExact, RawExact, Finished

LEMMA ResetStep ==
    ASSUME TypeInv, Resetting, DriverStep
    PROVE  TypeInv' /\ Running'
<1>1. ChipOK /\ sel \in BOOLEAN BY DEF TypeInv
<1>2. PICK k \in 1 .. 4 : At(NandReset, k) /\ ResetStage(k) BY DEF Resetting
<1>3. Head(todo) = NandReset[k] /\ Tail(todo) = SubSeq(NandReset, k + 1, Len(NandReset))
  BY <1>2, NextCycle, ResetCycles
<1>4. SUFFICES /\ todo' = Tail(todo) /\ ChipOK' /\ sel' \in BOOLEAN
               /\ UNCHANGED <<driver, array, want, flips>>
               /\ k < 4 => ResetStage(k + 1)'
               /\ k = 4 => ~sel' /\ ~chip'.busy
  <2> SUFFICES ASSUME todo' = Tail(todo), ChipOK', sel' \in BOOLEAN,
                      UNCHANGED <<driver, array, want, flips>>,
                      k < 4 => ResetStage(k + 1)',
                      k = 4 => ~sel' /\ ~chip'.busy
               PROVE  TypeInv' /\ Running'
    OBVIOUS
  <2>1. TypeInv' BY TypeKept DEF driver
  <2>2. Told(want)' /\ cmd' = cmd BY ToldKept DEF Resetting, driver
  <2>3. CASE k < 4
    <3>1. k + 1 \in 1 .. 4 /\ At(NandReset, k + 1)' BY <1>3, <2>3 DEF At
    <3>2. Resetting' BY <2>2, <2>3, <3>1 DEF Resetting
    <3> QED BY <2>1, <3>2 DEF Running
  <2>4. CASE k = 4
    <3>1. todo' = <<>> BY <1>3, <2>4, LastCycle, ResetCycles
    <3>2. PageExact' /\ RawExact' BY <2>2, NotReading DEF Resetting
    <3>3. Resting' BY <2>2, <2>4, <3>1, <3>2 DEF Resting
    <3> QED BY <2>1, <3>3 DEF Running
  <2> QED BY <2>3, <2>4
<1>5. CASE k = 1
  <2>1. Head(todo) = Select BY <1>3, <1>5, ResetCycles
  <2> QED BY <1>1, <1>2, <1>5, <2>1, StepSelect DEF ResetStage
<1>6. CASE k = 2
  <2>1. Head(todo) = Cmd("RESET") /\ sel /\ ~chip.busy
    BY <1>2, <1>3, <1>6, ResetCycles DEF ResetStage
  <2>2. "RESET" \in Modes /\ "RESET" \in Opens BY ModesAre, TheModes
  <2>3. /\ todo' = Tail(todo) /\ ChipOK' /\ chip'.mode = "RESET"
        /\ UNCHANGED <<driver, sel, array, want, flips>>
    BY <1>1, <2>1, <2>2, StepCmd
  <2> QED BY <1>1, <1>6, <2>1, <2>3 DEF ResetStage
<1>7. CASE k = 3
  <2>1. Head(todo) = Ready BY <1>3, <1>7, ResetCycles
  <2> QED BY <1>1, <1>2, <1>7, <2>1, StepReady DEF ResetStage
<1>8. CASE k = 4
  <2>1. Head(todo) = Deselect BY <1>3, <1>8, ResetCycles
  <2>2. ~chip.busy BY <1>2, <1>8 DEF ResetStage
  <2> QED BY <1>1, <1>8, <2>1, <2>2, StepDeselect
<1> QED BY <1>5, <1>6, <1>7, <1>8

LEMMA IdStep ==
    ASSUME TypeInv, Identifying, DriverStep
    PROVE  TypeInv' /\ Running'
<1>1. ChipOK /\ sel \in BOOLEAN BY DEF TypeInv
<1>2. PICK k \in 1 .. 7 : At(NandReadId, k) /\ IdStage(k) BY DEF Identifying
<1>3. Head(todo) = NandReadId[k] /\ Tail(todo) = SubSeq(NandReadId, k + 1, Len(NandReadId))
  BY <1>2, NextCycle, IdCycles
<1>4. SUFFICES /\ todo' = Tail(todo) /\ ChipOK' /\ sel' \in BOOLEAN /\ ~chip'.busy
               /\ UNCHANGED <<cmd, bad, array, want, flips>>
               /\ k < 7 => sel'
               /\ k = 7 => ~sel'
  <2> SUFFICES ASSUME todo' = Tail(todo), ChipOK', sel' \in BOOLEAN, ~chip'.busy,
                      UNCHANGED <<cmd, bad, array, want, flips>>,
                      k < 7 => sel',
                      k = 7 => ~sel'
               PROVE  TypeInv' /\ Running'
    OBVIOUS
  <2>1. TypeInv' BY TypeKept
  <2>2. Told(want)' BY ToldKept DEF Identifying
  <2>3. CASE k < 7
    <3>1. k + 1 \in 1 .. 7 /\ At(NandReadId, k + 1)' BY <1>3, <2>3 DEF At
    <3>2. IdStage(k + 1)' BY <2>3 DEF IdStage
    <3>3. Identifying' BY <2>2, <3>1, <3>2 DEF Identifying
    <3> QED BY <2>1, <3>3 DEF Running
  <2>4. CASE k = 7
    <3>1. todo' = <<>> BY <1>3, <2>4, LastCycle, IdCycles
    <3>2. PageExact' /\ RawExact' BY NotReading DEF Identifying
    <3>3. Resting' BY <2>2, <2>4, <3>1, <3>2 DEF Resting
    <3> QED BY <2>1, <3>3 DEF Running
  <2> QED BY <2>3, <2>4
<1>5. k \in {1, 2, 3, 4, 5, 6, 7} OBVIOUS
<1>6. ~chip.busy /\ (k > 1 => sel) BY <1>2 DEF IdStage
<1>7. CASE k = 1
  <2>1. Head(todo) = Select BY <1>3, <1>7, IdCycles
  <2> QED BY <1>1, <1>6, <1>7, <2>1, StepSelect DEF driver
<1>8. CASE k = 2
  <2>1. Head(todo) = Input(<<{}>>) BY <1>3, <1>8, IdCycles
  <2>2. PageOK(Stored(chip.reg, chip.col, <<{}>>)) BY <1>1, EmptyStored DEF ChipOK
  <2>3. sel /\ ~chip.busy BY <1>6, <1>8
  <2>4. /\ todo' = Tail(todo) /\ ChipOK' /\ ~chip'.busy
        /\ UNCHANGED <<driver, sel, array, want, flips>>
    BY <1>1, <2>1, <2>2, <2>3, StepInput
  <2> QED BY <1>1, <1>8, <2>3, <2>4 DEF driver
<1>9. CASE k = 3
  <2>1. Head(todo) = Cmd("READ_ID") BY <1>3, <1>9, IdCycles
  <2>2. "READ_ID" \in Modes /\ "READ_ID" \in Opens /\ "READ_ID" \notin Works
    BY ModesAre, TheModes, WorkModes
  <2>3. sel /\ ~chip.busy BY <1>6, <1>9
  <2>4. /\ todo' = Tail(todo) /\ ChipOK' /\ ~chip'.busy
        /\ UNCHANGED <<driver, sel, array, want, flips>>
    BY <1>1, <2>1, <2>2, <2>3, StepCmd
  <2> QED BY <1>1, <1>9, <2>3, <2>4 DEF driver
<1>10. CASE k = 4
  <2>1. Head(todo) = Addr(Col(0)) BY <1>3, <1>10, IdCycles
  <2>2. 0 \in StartCols BY DEF StartCols, Sectors
  <2>3. sel /\ ~chip.busy BY <1>6, <1>10
  <2>4. /\ todo' = Tail(todo) /\ ChipOK' /\ ~chip'.busy
        /\ UNCHANGED <<driver, sel, array, want, flips>>
    BY <1>1, <2>1, <2>2, <2>3, StepCol
  <2> QED BY <1>1, <1>10, <2>3, <2>4 DEF driver
<1>11. CASE k = 5
  <2>1. Head(todo) = Ready BY <1>3, <1>11, IdCycles
  <2> QED BY <1>1, <1>6, <1>11, <2>1, StepReady DEF driver
<1>12. CASE k = 6
  <2>1. Head(todo) = Output("id") BY <1>3, <1>12, IdCycles
  <2>2. /\ todo' = Tail(todo) /\ want' = want
        /\ UNCHANGED <<cmd, bad, sel, chip, array, flips>>
    BY <2>1, DoneOutput
  <2>3. ChipOK' BY <1>1, <2>2 DEF ChipOK
  <2> QED BY <1>1, <1>6, <1>12, <2>2, <2>3
<1>13. CASE k = 7
  <2>1. Head(todo) = Deselect BY <1>3, <1>13, IdCycles
  <2> QED BY <1>1, <1>6, <1>13, <2>1, StepDeselect DEF driver
<1> QED BY <1>5, <1>7, <1>8, <1>9, <1>10, <1>11, <1>12, <1>13

\* As many bits of a cell have changed as changes were counted.
LEMMA ChangedCount ==
    ASSUME flips \subseteq Weak, IsFiniteSet(flips), NEW p, NEW c
    PROVE  LET G == {g \in flips : g[1] = p /\ g[2] = c}
           IN  /\ IsFiniteSet(G) /\ IsFiniteSet(Changed(p, c))
               /\ Cardinality(Changed(p, c)) = Cardinality(G)
<1> DEFINE G == {g \in flips : g[1] = p /\ g[2] = c}
           f == [g \in G |-> g[3]]
<1>1. IsFiniteSet(G) BY FS_Subset
<1>2. \A g \in G : g = <<p, c, g[3]>> BY NandAssumption
<1>3. \A g, h \in G : f[g] = f[h] => g = h BY <1>2
<1>4. \A g \in G : f[g] \in Changed(p, c) BY DEF Changed
<1>5. \A b \in Changed(p, c) : \E g \in G : f[g] = b BY DEF Changed
<1>6. f \in [G -> Changed(p, c)] BY <1>4
<1> HIDE DEF f, G
<1>7. f \in Bijection(G, Changed(p, c))
  BY <1>3, <1>5, <1>6 DEF Bijection, Injection, Surjection, IsInjective
<1>8. ExistsBijection(G, Changed(p, c)) BY <1>7 DEF ExistsBijection
<1>9. IsFiniteSet(Changed(p, c)) /\ Cardinality(Changed(p, c)) = Cardinality(G)
  BY <1>1, <1>8, FS_Bijection
<1> QED BY <1>1, <1>9 DEF G

LEMMA FaultsCount ==
    ASSUME flips \subseteq Weak, IsFiniteSet(flips), NEW p, NEW i \in Blocks
    PROVE  LET D == Changed(p, BlockCol(i))
               C == Changed(p, CodeCol(i))
           IN  /\ IsFiniteSet(D) /\ IsFiniteSet(C)
               /\ Cardinality(D) \in Nat /\ Cardinality(C) \in Nat
               /\ Faults(p, i) = Cardinality(D) + Cardinality(C)
<1> DEFINE GD == {g \in flips : g[1] = p /\ g[2] = BlockCol(i)}
           GC == {g \in flips : g[1] = p /\ g[2] = CodeCol(i)}
<1>1. /\ IsFiniteSet(GD) /\ IsFiniteSet(Changed(p, BlockCol(i)))
      /\ Cardinality(Changed(p, BlockCol(i))) = Cardinality(GD)
  BY ChangedCount
<1>2. /\ IsFiniteSet(GC) /\ IsFiniteSet(Changed(p, CodeCol(i)))
      /\ Cardinality(Changed(p, CodeCol(i))) = Cardinality(GC)
  BY ChangedCount
<1>3. GD \intersect GC = {} BY Layout
<1>4. {f \in flips : f[1] = p /\ f[2] \in {BlockCol(i), CodeCol(i)}} = GD \union GC
  OBVIOUS
<1> HIDE DEF GD, GC
<1>5. Cardinality(GD) \in Nat /\ Cardinality(GC) \in Nat BY <1>1, <1>2, FS_CardinalityType
<1>6. Cardinality(GD \union GC) = Cardinality(GD) + Cardinality(GC)
  <2>1. Cardinality(GD \union GC)
            = Cardinality(GD) + Cardinality(GC) - Cardinality(GD \intersect GC)
    BY <1>1, <1>2, FS_Union
  <2>2. Cardinality(GD \intersect GC) = 0 BY <1>3, FS_EmptySet
  <2> QED BY <2>1, <2>2, <1>5
<1> QED BY <1>1, <1>2, <1>4, <1>5, <1>6 DEF Faults

\* What nand_read_page makes of a block whose bits have changed as counted
LEMMA BlockJudged ==
    ASSUME TypeInv, Told(want), NEW p \in Pages, NEW i \in Blocks, want[p][i] # Unknown
    PROVE  LET w == want[p][i]
               x == array[p][BlockCol(i)]
               s == array[p][CodeCol(i)]
               n == Faults(p, i)
               same == Corrected(x, s, Compute(x)) = w
               v == Verdict(s, Compute(x))
           IN  /\ n = 0 => same /\ v = "valid"
               /\ n = 1 => same /\ v # "multi"
               /\ n = 2 => same \/ v = "multi"
<1> DEFINE w == want[p][i]
           x == array[p][BlockCol(i)]
           s == array[p][CodeCol(i)]
           n == Faults(p, i)
           D == Changed(p, BlockCol(i))
           C == Changed(p, CodeCol(i))
<1>1. w \in SUBSET Bits BY DEF TypeInv, WantOK
<1>2. x \in SUBSET Bits /\ s \in SUBSET CodeBits
  <2>1. BlockCol(i) \in Columns /\ CodeCol(i) \in Columns BY Layout
  <2>2. x \subseteq Ones(BlockCol(i)) /\ s \subseteq Ones(CodeCol(i))
    BY <2>1 DEF TypeInv, ArrayOK, PageOK
  <2> QED BY <2>2, CellWidths
<1>3. SymDiff(x, w) \subseteq D /\ SymDiff(s, Compute(w)) \subseteq C BY DEF Told
<1>4. /\ IsFiniteSet(D) /\ IsFiniteSet(C)
      /\ Cardinality(D) \in Nat /\ Cardinality(C) \in Nat
      /\ n = Cardinality(D) + Cardinality(C)
  BY FaultsCount DEF TypeInv
<1> HIDE DEF w, x, s, n, D, C
<1> DEFINE a == Cardinality(SymDiff(x, w))
           b == Cardinality(SymDiff(s, Compute(w)))
<1>5. /\ IsFiniteSet(SymDiff(x, w)) /\ IsFiniteSet(SymDiff(s, Compute(w)))
      /\ a <= Cardinality(D) /\ b <= Cardinality(C)
  BY <1>3, <1>4, FS_Subset
<1>6. a \in Nat /\ b \in Nat BY <1>5, FS_CardinalityType
<1>7. ASSUME a + b <= 2
      PROVE  /\ a + b = 0 => Corrected(x, s, Compute(x)) = w /\ Verdict(s, Compute(x)) = "valid"
             /\ a + b = 1 => Corrected(x, s, Compute(x)) = w /\ Verdict(s, Compute(x)) # "multi"
             /\ a + b = 2 => Corrected(x, s, Compute(x)) = w \/ Verdict(s, Compute(x)) = "multi"
  BY <1>1, <1>2, <1>5, <1>7, Judged
<1> HIDE DEF a, b
<1>8. a + b <= n /\ a + b \in Nat BY <1>4, <1>5, <1>6
<1>9. n \in Nat BY <1>4
<1>10. n <= 2 => \/ a + b = 0
                 \/ a + b = 1 /\ n # 0
                 \/ a + b = 2 /\ n # 0 /\ n # 1
  BY <1>8, <1>9
<1>11. /\ n = 0 => Corrected(x, s, Compute(x)) = w /\ Verdict(s, Compute(x)) = "valid"
       /\ n = 1 => Corrected(x, s, Compute(x)) = w /\ Verdict(s, Compute(x)) # "multi"
       /\ n = 2 => Corrected(x, s, Compute(x)) = w \/ Verdict(s, Compute(x)) = "multi"
  BY <1>7, <1>8, <1>9, <1>10
<1> QED BY <1>11 DEF w, x, s, n

LEMMA PageStep ==
    ASSUME TypeInv, ReadingPage, DriverStep
    PROVE  TypeInv' /\ Running'
<1>1. ChipOK /\ sel \in BOOLEAN /\ ArrayOK BY DEF TypeInv
<1>2. cmd.op = "readpage" /\ CommandOK(cmd) /\ Told(want) BY DEF ReadingPage
<1>3. PICK p \in Pages : p = cmd.page BY <1>2 DEF CommandOK
<1>4. PICK P : P = NandReadPage(p) OBVIOUS
<1>5. /\ IsSeq(P) /\ Len(P) = 9 /\ Loads(P, p)
      /\ P[7] = Output("page") /\ P[8] = Deselect /\ P[9] = [k |-> "validate"]
  BY <1>4, PageCycles
<1>6. PICK k \in 1 .. 9 : At(P, k) /\ PageStage(p, k) BY <1>3, <1>4 DEF ReadingPage
<1>7. Head(todo) = P[k] /\ Tail(todo) = SubSeq(P, k + 1, Len(P)) BY <1>5, <1>6, NextCycle
<1>8. ASSUME k < 9, TypeInv', UNCHANGED <<cmd, array, want, flips>>,
             At(P, k + 1)', PageStage(p, k + 1)'
      PROVE  TypeInv' /\ Running'
  <2>1. Told(want)' BY <1>2, <1>8, ToldKept
  <2>2. k + 1 \in 1 .. 9 BY <1>8
  <2>3. ReadingPage' BY <1>2, <1>3, <1>4, <1>8, <2>1, <2>2 DEF ReadingPage, CommandOK
  <2> QED BY <1>8, <2>3 DEF Running
<1>9. CASE k < 7
  <2>1. LoadStage(p, k) BY <1>6, <1>9 DEF PageStage
  <2>2. k \in 1 .. 6 /\ 6 <= Len(P) BY <1>5, <1>9
  <2>3. /\ At(P, k + 1)' /\ LoadStage(p, k + 1)' /\ TypeInv'
        /\ UNCHANGED <<driver, array, want, flips>>
    BY <1>5, <1>6, <2>1, <2>2, LoadStep
  <2>4. PageStage(p, k + 1)' BY <2>2, <2>3 DEF PageStage
  <2> QED BY <1>8, <1>9, <2>3, <2>4 DEF driver
<1>10. CASE k = 7
  <2>1. LoadStage(p, 7) BY <1>6, <1>10 DEF PageStage
  <2>2. sel /\ ~chip.busy /\ chip.mode = "READ_CONFIRM" /\ chip.reg = array[p]
    BY <1>1, <2>1 DEF LoadStage
  <2>3. /\ todo' = Tail(todo) /\ buf' = ChipPage /\ want' = want
        /\ UNCHANGED <<cmd, bad, sel, chip, array, flips>>
    BY <1>5, <1>7, <1>10, DoneOutput
  <2>4. buf' = array[p] BY <2>2, <2>3, WorkModes DEF ChipPage
  <2>5. At(P, 8)' BY <1>7, <1>10, <2>3 DEF At
  <2>6. PageStage(p, 8)' BY <2>2, <2>3, <2>4 DEF PageStage
  <2>7. ChipOK' BY <1>1, <2>3 DEF ChipOK
  <2>8. TypeInv' BY <1>1, <2>3, <2>7, TypeKept
  <2> QED BY <1>8, <1>10, <2>3, <2>5, <2>6, <2>8
<1>11. CASE k = 8
  <2>1. ~chip.busy /\ buf = array[p] BY <1>6, <1>11 DEF PageStage
  <2>2. /\ todo' = Tail(todo) /\ ChipOK' /\ ~sel' /\ sel' \in BOOLEAN
        /\ UNCHANGED <<driver, chip, array, want, flips>>
    BY <1>1, <1>5, <1>7, <1>11, StepDeselect
  <2>3. At(P, 9)' BY <1>7, <1>11, <2>2 DEF At
  <2>4. PageStage(p, 9)' BY <2>1, <2>2 DEF PageStage, driver
  <2>5. TypeInv' BY <2>2, TypeKept DEF driver
  <2> QED BY <1>8, <1>11, <2>2, <2>3, <2>4, <2>5 DEF driver
<1>12. CASE k = 9
  <2>1. ~chip.busy /\ ~sel /\ buf = array[p] BY <1>6, <1>12 DEF PageStage
  <2>2. DoValidate BY <1>5, <1>7, <1>12, DoneValidate
  <2>3. todo' = Tail(todo) /\ UNCHANGED <<cmd, cell, bad, given, sel, chip, array, want, flips>>
    BY <2>2 DEF DoValidate, Take
  <2>4. todo' = <<>> BY <1>5, <1>7, <1>12, <2>3, LastCycle
  <2>5. ChipOK' BY <1>1, <2>3 DEF ChipOK
  <2>6. TypeInv' BY <1>1, <2>3, <2>5, TypeKept
  <2>7. ASSUME NEW i \in Blocks
        PROVE  /\ verdicts'[i] = Verdict(array[p][CodeCol(i)], Compute(array[p][BlockCol(i)]))
               /\ buf'[BlockCol(i)] = Corrected(array[p][BlockCol(i)], array[p][CodeCol(i)],
                                                Compute(array[p][BlockCol(i)]))
    <3>1. /\ BlockCol(i) \in Columns /\ BlockCol(i) < MarkCol /\ BlockCol(i) \div 256 = i
      BY Layout
    <3>2. verdicts' = [j \in Blocks |->
                          Verdict(buf[CodeCol(j)], Compute(buf[BlockCol(j)]))]
      BY <2>2 DEF DoValidate
    <3>3. buf' = [c \in Columns |->
                     IF c < MarkCol
                         THEN Corrected(buf[c], buf[CodeCol(c \div 256)],
                                        Compute(buf[BlockCol(c \div 256)]))
                         ELSE buf[c]]
      BY <2>2 DEF DoValidate
    <3> QED BY <2>1, <3>1, <3>2, <3>3
  <2>8. PageExact'
    <3>1. ASSUME NEW i \in Blocks, want[p][i] # Unknown
          PROVE  LET n == Faults(p, i)
                     same == buf'[BlockCol(i)] = want[p][i]
                 IN  /\ n = 0 => same /\ verdicts'[i] = "valid"
                     /\ n = 1 => same /\ verdicts'[i] # "multi"
                     /\ n = 2 => same \/ verdicts'[i] = "multi"
      BY <1>2, <2>7, <3>1, BlockJudged
    <3> QED BY <1>3, <2>3, <3>1 DEF PageExact, Faults
  <2>9. RawExact' BY <1>2, <2>3 DEF RawExact, Finished
  <2>10. Told(want)' BY <1>2, <2>3, ToldKept
  <2>11. Resting' BY <2>1, <2>3, <2>4, <2>8, <2>9, <2>10 DEF Resting
  <2> QED BY <2>6, <2>11 DEF Running
<1> QED BY <1>9, <1>10, <1>11, <1>12

\* nand_read, from the column on
Seeks(P, c) ==
    /\ P[7] = Cmd("RND_READ") /\ P[8] = Addr(Col(c)) /\ P[9] = Cmd("RND_READ_CONFIRM")
    /\ P[10] = Ready /\ P[11] = Output("cell") /\ P[12] = Deselect

LEMMA CellStep ==
    ASSUME TypeInv, DriverStep, NEW P, IsSeq(P), 12 <= Len(P),
           NEW p \in Pages, NEW c \in Columns, Loads(P, p), Seeks(P, c),
           NEW k \in 1 .. 12, At(P, k), CellStage(p, c, k)
    PROVE  /\ At(P, k + 1)' /\ CellStage(p, c, k + 1)' /\ TypeInv'
           /\ UNCHANGED <<cmd, bad, array, want, flips>>
<1>1. ChipOK /\ sel \in BOOLEAN BY DEF TypeInv
<1>2. Len(P) \in Nat BY DEF IsSeq
<1>3. Head(todo) = P[k] /\ Tail(todo) = SubSeq(P, k + 1, Len(P)) BY <1>2, NextCycle
<1>4. ASSUME todo' = Tail(todo), CellStage(p, c, k + 1)', ChipOK', sel' \in BOOLEAN,
             UNCHANGED <<cmd, bad, array, want, flips>>
      PROVE  /\ At(P, k + 1)' /\ CellStage(p, c, k + 1)' /\ TypeInv'
             /\ UNCHANGED <<cmd, bad, array, want, flips>>
  BY <1>3, <1>4, TypeKept DEF At
<1>5. CASE k < 7
  <2>1. LoadStage(p, k) BY <1>5 DEF CellStage
  <2>2. k \in 1 .. 6 /\ 6 <= Len(P) BY <1>2, <1>5
  <2>3. /\ At(P, k + 1)' /\ LoadStage(p, k + 1)' /\ TypeInv'
        /\ UNCHANGED <<driver, array, want, flips>>
    BY <2>1, <2>2, LoadStep
  <2>4. CellStage(p, c, k + 1)' BY <2>2, <2>3 DEF CellStage
  <2> QED BY <2>3, <2>4 DEF driver
<1>6. CASE k = 7
  <2>1. LoadStage(p, 7) BY <1>6 DEF CellStage
  <2>2. sel /\ ~chip.busy /\ chip.mode = "READ_CONFIRM" /\ chip.reg = array[p]
    <3>1. sel /\ ~chip.busy BY <1>1, <2>1 DEF LoadStage
    <3> QED BY <2>1, <3>1 DEF LoadStage
  <2>3. Head(todo) = Cmd("RND_READ") BY <1>3, <1>6 DEF Seeks
  <2>4. "RND_READ" \in Modes /\ "RND_READ" \in Follows("READ_CONFIRM") /\ "RND_READ" \notin Works
    BY ModesAre, TheModes, WorkModes
  <2>5. /\ todo' = Tail(todo) /\ ChipOK' /\ chip'.mode = "RND_READ" /\ ~chip'.busy
        /\ chip'.reg = chip.reg
        /\ UNCHANGED <<driver, sel, array, want, flips>>
    BY <1>1, <2>2, <2>3, <2>4, StepCmd
  <2>6. CellStage(p, c, k + 1)' BY <1>1, <1>6, <2>2, <2>5 DEF CellStage
  <2> QED BY <1>1, <1>4, <2>5, <2>6 DEF driver
<1>7. CASE k = 8
  <2>1. sel /\ ~chip.busy /\ chip.mode = "RND_READ" /\ chip.reg = array[p]
    BY <1>1, <1>7 DEF CellStage
  <2>2. Head(todo) = Addr(Col(c)) /\ c \in StartCols BY <1>3, <1>7 DEF Seeks, StartCols
  <2>3. /\ todo' = Tail(todo) /\ ChipOK' /\ chip'.mode = chip.mode /\ ~chip'.busy
        /\ chip'.col = c /\ chip'.reg = chip.reg
        /\ UNCHANGED <<driver, sel, array, want, flips>>
    BY <1>1, <2>1, <2>2, StepCol
  <2>4. CellStage(p, c, k + 1)' BY <1>1, <1>7, <2>1, <2>3 DEF CellStage
  <2> QED BY <1>1, <1>4, <2>3, <2>4 DEF driver
<1>8. CASE k = 9
  <2>1. sel /\ ~chip.busy /\ chip.mode = "RND_READ" /\ chip.col = c /\ chip.reg = array[p]
    BY <1>1, <1>8 DEF CellStage
  <2>2. Head(todo) = Cmd("RND_READ_CONFIRM") BY <1>3, <1>8 DEF Seeks
  <2>3. /\ "RND_READ_CONFIRM" \in Modes /\ "RND_READ_CONFIRM" \in Follows("RND_READ")
        /\ "RND_READ_CONFIRM" \notin Works
    BY ModesAre, TheModes, WorkModes
  <2>4. /\ todo' = Tail(todo) /\ ChipOK' /\ chip'.mode = "RND_READ_CONFIRM" /\ ~chip'.busy
        /\ chip'.col = c /\ chip'.reg = chip.reg
        /\ UNCHANGED <<driver, sel, array, want, flips>>
    BY <1>1, <2>1, <2>2, <2>3, StepCmd
  <2>5. CellStage(p, c, k + 1)' BY <1>1, <1>8, <2>1, <2>4 DEF CellStage
  <2> QED BY <1>1, <1>4, <2>4, <2>5 DEF driver
<1>9. CASE k = 10
  <2>1. /\ sel /\ ~chip.busy /\ chip.mode = "RND_READ_CONFIRM"
        /\ chip.col = c /\ chip.reg = array[p]
    BY <1>1, <1>9 DEF CellStage
  <2>2. Head(todo) = Ready BY <1>3, <1>9 DEF Seeks
  <2>3. /\ todo' = Tail(todo) /\ ChipOK' /\ UNCHANGED <<driver, sel, chip, array, want, flips>>
    BY <1>1, <2>2, StepReady
  <2>4. CellStage(p, c, k + 1)' BY <1>1, <1>9, <2>1, <2>3 DEF CellStage
  <2> QED BY <1>1, <1>4, <2>3, <2>4 DEF driver
<1>10. CASE k = 11
  <2>1. /\ sel /\ ~chip.busy /\ chip.mode = "RND_READ_CONFIRM"
        /\ chip.col = c /\ chip.reg = array[p]
    BY <1>1, <1>10 DEF CellStage
  <2>2. Head(todo) = Output("cell") BY <1>3, <1>10 DEF Seeks
  <2>3. /\ todo' = Tail(todo) /\ cell' = ChipCell /\ want' = want
        /\ UNCHANGED <<cmd, bad, sel, chip, array, flips>>
    BY <2>2, DoneOutput
  <2>4. cell' = array[p][c] BY <2>1, <2>3, WorkModes DEF ChipCell
  <2>5. ChipOK' BY <1>1, <2>3 DEF ChipOK
  <2>6. CellStage(p, c, k + 1)' BY <1>1, <1>10, <2>1, <2>3, <2>4 DEF CellStage
  <2> QED BY <1>1, <1>4, <2>3, <2>5, <2>6
<1>11. CASE k = 12
  <2>1. ~chip.busy /\ cell = array[p][c] BY <1>11 DEF CellStage
  <2>2. Head(todo) = Deselect BY <1>3, <1>11 DEF Seeks
  <2>3. /\ todo' = Tail(todo) /\ ChipOK' /\ ~sel' /\ sel' \in BOOLEAN
        /\ UNCHANGED <<driver, chip, array, want, flips>>
    BY <1>1, <2>2, StepDeselect
  <2>4. CellStage(p, c, k + 1)' BY <1>11, <2>1, <2>3 DEF CellStage, driver
  <2> QED BY <1>4, <2>3, <2>4 DEF driver
<1> QED BY <1>5, <1>6, <1>7, <1>8, <1>9, <1>10, <1>11

LEMMA ReadStep ==
    ASSUME TypeInv, Reading, DriverStep
    PROVE  TypeInv' /\ Running'
<1>1. cmd.op = "read" /\ CommandOK(cmd) /\ Told(want) BY DEF Reading
<1>2. PICK p \in Pages : p = cmd.page BY <1>1 DEF CommandOK
<1>3. PICK c \in Columns : c = cmd.col BY <1>1 DEF CommandOK
<1>4. PICK P : P = NandRead(p, c) OBVIOUS
<1>5. IsSeq(P) /\ Len(P) = 12 /\ Loads(P, p) /\ Seeks(P, c) BY <1>4, CellCycles DEF Seeks
<1>6. PICK k \in 1 .. 12 : At(P, k) /\ CellStage(p, c, k) BY <1>2, <1>3, <1>4 DEF Reading
<1>7. 12 <= Len(P) BY <1>5
<1>8. /\ At(P, k + 1)' /\ CellStage(p, c, k + 1)' /\ TypeInv'
      /\ UNCHANGED <<cmd, bad, array, want, flips>>
  BY <1>5, <1>6, <1>7, CellStep
<1>9. Told(want)' BY <1>1, <1>8, ToldKept
<1>10. CASE k < 12
  <2>1. k + 1 \in 1 .. 12 BY <1>10
  <2>2. Reading' BY <1>1, <1>2, <1>3, <1>4, <1>8, <1>9, <2>1 DEF Reading, CommandOK
  <2> QED BY <1>8, <2>2 DEF Running
<1>11. CASE k = 12
  <2>1. ~chip'.busy /\ (sel' <=> FALSE) /\ cell' = array'[p][c]
    BY <1>8, <1>11 DEF CellStage
  <2>2. todo' = <<>> BY <1>5, <1>8, <1>11, LastCycle DEF At
  <2>3. PageExact' /\ RawExact'
    BY <1>1, <1>2, <1>3, <1>8, <2>1 DEF PageExact, RawExact, Finished
  <2>4. Resting' BY <1>9, <2>1, <2>2, <2>3 DEF Resting
  <2> QED BY <1>8, <2>4 DEF Running
<1> QED BY <1>10, <1>11

LEMMA ScanStep ==
    ASSUME TypeInv, Scanning, DriverStep
    PROVE  TypeInv' /\ Running'
<1>1. cmd.op = "bbscan" /\ Told(want) BY DEF Scanning
<1>2. PICK p \in Pages :
          /\ \E k \in 1 .. 13 : At(ScanPage(p), k) /\ CellStage(p, MarkCol, k)
          /\ bad = {q \in 0 .. p - 1 : array[q][MarkCol] # {1}}
  BY DEF Scanning
<1>3. PICK P : P = ScanPage(p) OBVIOUS
<1>4. /\ IsSeq(P) /\ Len(P) = 13 /\ Loads(P, p) /\ Seeks(P, MarkCol)
      /\ P[13] = [k |-> "count", v |-> p]
  BY <1>3, ScanCycles DEF Seeks
<1>5. PICK k \in 1 .. 13 : At(P, k) /\ CellStage(p, MarkCol, k) BY <1>2, <1>3
<1>6. MarkCol \in Columns BY Layout
<1>7. NumPages \in Nat /\ p \in Nat /\ p < NumPages BY NandAssumption DEF Pages
<1>8. CASE k < 13
  <2>1. k \in 1 .. 12 /\ 12 <= Len(P) /\ k + 1 \in 1 .. 13 BY <1>4, <1>8
  <2>2. /\ At(P, k + 1)' /\ CellStage(p, MarkCol, k + 1)' /\ TypeInv'
        /\ UNCHANGED <<cmd, bad, array, want, flips>>
    BY <1>4, <1>5, <1>6, <2>1, CellStep
  <2>3. Told(want)' BY <1>1, <2>2, ToldKept
  <2>4. Scanning' BY <1>1, <1>2, <1>3, <2>1, <2>2, <2>3 DEF Scanning
  <2> QED BY <2>2, <2>4 DEF Running
<1>9. CASE k = 13
  <2>1. ~chip.busy /\ ~sel /\ cell = array[p][MarkCol] BY <1>5, <1>9 DEF CellStage
  <2>2. Head(todo) = [k |-> "count", v |-> p] BY <1>4, <1>5, <1>9, NextCycle
  <2>3. /\ todo' = (IF p + 1 < NumPages THEN ScanPage(p + 1) ELSE <<>>)
        /\ bad' = (IF cell # {1} THEN bad \union {p} ELSE bad)
        /\ UNCHANGED <<cmd, buf, cell, verdicts, given, sel, chip, array, want, flips>>
    BY <2>2, DoneCount
  <2>4. Told(want)' BY <1>1, <2>3, ToldKept
  <2>5. bad' = {q \in 0 .. p : array[q][MarkCol] # {1}} BY <1>2, <1>7, <2>1, <2>3
  <2>6. TypeInv'
    <3>1. ChipOK' /\ ArrayOK' /\ WantOK(want)' BY <2>3 DEF TypeInv, ChipOK, ArrayOK, WantOK
    <3>2. bad' \subseteq Pages BY <2>3 DEF TypeInv
    <3> QED BY <2>3, <3>1, <3>2 DEF TypeInv
  <2>7. CASE p + 1 < NumPages
    <3>1. PICK n \in Pages : n = p + 1 BY <1>7, <2>7 DEF Pages
    <3>2. todo' = ScanPage(n) BY <2>3, <2>7, <3>1
    <3>3. At(ScanPage(n), 1)' BY <3>2, ScanCycles, FirstCycle DEF At
    <3>4. CellStage(n, MarkCol, 1)' BY <2>1, <2>3 DEF CellStage, LoadStage
    <3>5. bad' = {q \in 0 .. n - 1 : array'[q][MarkCol] # {1}} BY <1>7, <2>3, <2>5, <3>1
    <3>6. 1 \in 1 .. 13 OBVIOUS
    <3>7. Scanning' BY <1>1, <2>3, <2>4, <3>3, <3>4, <3>5, <3>6 DEF Scanning
    <3> QED BY <2>6, <3>7 DEF Running
  <2>8. CASE ~(p + 1 < NumPages)
    <3>1. 0 .. p = Pages BY <1>7, <2>8 DEF Pages
    <3>2. todo' = <<>> BY <2>3, <2>8
    <3>3. PageExact' /\ RawExact'
      BY <1>1, <2>3, <2>5, <3>1 DEF PageExact, RawExact, Finished
    <3>4. Resting' BY <2>1, <2>3, <2>4, <3>2, <3>3 DEF Resting
    <3> QED BY <2>6, <3>4 DEF Running
  <2> QED BY <2>7, <2>8
<1> QED BY <1>8, <1>9

LEMMA WantedOK ==
    ASSUME WantOK(want), CommandOK(cmd), cmd.op \in {"eraseblock", "fillsect"}, NEW st
    PROVE  WantOK(Wanted(st))
<1>1. CASE cmd.op = "eraseblock"
  <2>1. Wanted(st) = [p \in Pages |->
                         IF Block(p) # cmd.block THEN want[p]
                         ELSE [i \in Blocks |-> IF st = "ok" THEN Bits ELSE Unknown]]
    BY <1>1 DEF Wanted
  <2> QED BY <2>1 DEF WantOK
<1>2. CASE cmd.op = "fillsect"
  <2>1. PICK q \in Pages : q = cmd.page BY <1>2 DEF CommandOK
  <2>2. cmd.data[1] \in SUBSET Bits /\ cmd.data[2] \in SUBSET Bits BY <1>2 DEF CommandOK
  <2>3. \A i \in Blocks : (i % 2) + 1 \in {1, 2} BY DEF Blocks
  <2>4. Wanted(st) = [want EXCEPT ![q] =
                         [i \in Blocks |->
                             IF i \div 2 # cmd.sect THEN @[i]
                             ELSE IF st = "ok" /\ @[i] = Bits THEN cmd.data[(i % 2) + 1]
                             ELSE Unknown]]
    BY <1>2, <2>1 DEF Wanted
  <2>5. \A i \in Blocks : Wanted(st)[q][i] \in {want[q][i], cmd.data[(i % 2) + 1], Unknown}
    BY <2>1, <2>4 DEF WantOK
  <2>6. \A i \in Blocks : Wanted(st)[q][i] = Unknown \/ Wanted(st)[q][i] \subseteq Bits
    BY <2>1, <2>2, <2>3, <2>5 DEF WantOK
  <2>7. Wanted(st)[q] = [i \in Blocks |-> Wanted(st)[q][i]] BY <2>1, <2>4 DEF WantOK
  <2>8. \A p \in Pages : p # q => Wanted(st)[p] = want[p] BY <2>4 DEF WantOK
  <2>9. Wanted(st) = [p \in Pages |-> Wanted(st)[p]] BY <2>4 DEF WantOK
  <2> QED BY <2>6, <2>7, <2>8, <2>9 DEF WantOK
<1> QED BY <1>1, <1>2

LEMMA WantedKept ==
    ASSUME Told(Wanted(chip.status)), chip'.status = chip.status,
           UNCHANGED <<cmd, array, want, flips>>
    PROVE  Told(Wanted(chip.status))'
<1>1. Wanted(chip.status)' = Wanted(chip.status) BY DEF Wanted
<1> QED BY <1>1 DEF Told, Changed

\* Reading the status tells the user what it says.
LEMMA StatusStep ==
    ASSUME TypeInv, DriverStep, CommandOK(cmd), cmd.op \in {"eraseblock", "fillsect"},
           Head(todo) = Output("status"), sel, chip.mode = "READ_STATUS",
           Told(Wanted(chip.status))
    PROVE  /\ todo' = Tail(todo) /\ TypeInv' /\ Told(want)'
           /\ UNCHANGED <<cmd, sel, chip, array, flips>>
<1>1. /\ todo' = Tail(todo) /\ want' = Wanted(ChipStatus)
      /\ UNCHANGED <<cmd, bad, sel, chip, array, flips>>
  BY DoneOutput
<1>2. want' = Wanted(chip.status) BY <1>1 DEF ChipStatus
<1>3. WantOK(Wanted(chip.status)) BY WantedOK DEF TypeInv
<1>4. WantOK(want)' BY <1>2, <1>3 DEF WantOK
<1>5. ChipOK' /\ ArrayOK' BY <1>1 DEF TypeInv, ChipOK, ArrayOK
<1>6. TypeInv' BY <1>1, <1>4, <1>5 DEF TypeInv
<1>7. Told(want)' BY <1>1, <1>2 DEF Told, Changed
<1> QED BY <1>1, <1>6, <1>7

LEMMA EraseStep ==
    ASSUME TypeInv, Erasing, DriverStep
    PROVE  TypeInv' /\ Running'
<1>1. ChipOK /\ sel \in BOOLEAN /\ chip.busy \in BOOLEAN BY DEF TypeInv, ChipOK
<1>2. cmd.op = "eraseblock" /\ CommandOK(cmd) /\ (cmd.block \in Protected => cmd.yes)
  BY DEF Erasing
<1>3. PICK b \in Nat : b = cmd.block BY <1>2 DEF CommandOK
<1>4. PICK p \in Pages : p = b * PagesPerBlock BY <1>2, <1>3 DEF CommandOK
<1>5. PICK P : P = NandErase(b) OBVIOUS
<1>6. /\ IsSeq(P) /\ Len(P) = 8
      /\ P[1] = Select /\ P[2] = Cmd("BLOCK_ERASE")
      /\ P[3] = Addr(Row(p)) /\ P[4] = Cmd("BLOCK_ERASE_CONFIRM")
      /\ P[5] = Ready /\ P[6] = Cmd("READ_STATUS") /\ P[7] = Output("status")
      /\ P[8] = Deselect
  BY <1>4, <1>5, EraseCycles
<1>7. PICK k \in 1 .. 8 : At(P, k) /\ EraseStage(b, k) BY <1>3, <1>5 DEF Erasing
<1>8. Head(todo) = P[k] /\ Tail(todo) = SubSeq(P, k + 1, Len(P)) BY <1>6, <1>7, NextCycle
<1>9. ASSUME todo' = Tail(todo), cmd' = cmd, TypeInv',
             k < 8 => EraseStage(b, k + 1)',
             k = 8 => ~sel' /\ ~chip'.busy /\ Told(want)'
      PROVE  TypeInv' /\ Running'
  <2>1. CASE k < 8
    <3>1. k + 1 \in 1 .. 8 /\ At(P, k + 1)' BY <1>8, <1>9, <2>1 DEF At
    <3>2. Erasing' BY <1>2, <1>3, <1>5, <1>9, <2>1, <3>1 DEF Erasing, CommandOK
    <3> QED BY <1>9, <3>2 DEF Running
  <2>2. CASE k = 8
    <3>1. todo' = <<>> BY <1>6, <1>8, <1>9, <2>2, LastCycle
    <3>2. PageExact' /\ RawExact' BY <1>2, <1>9, NotReading
    <3>3. Resting' BY <1>9, <2>2, <3>1, <3>2 DEF Resting
    <3> QED BY <1>9, <3>3 DEF Running
  <2> QED BY <2>1, <2>2
<1>10. CASE k = 1
  <2>1. Head(todo) = Select BY <1>6, <1>8, <1>10
  <2>2. ~chip.busy /\ Told(want) BY <1>7, <1>10 DEF EraseStage
  <2>3. /\ todo' = Tail(todo) /\ ChipOK' /\ sel' /\ sel' \in BOOLEAN
        /\ UNCHANGED <<driver, chip, array, want, flips>>
    BY <1>1, <2>1, StepSelect
  <2>4. Told(want)' BY <2>2, <2>3, ToldKept
  <2>5. EraseStage(b, k + 1)' BY <1>10, <2>2, <2>3, <2>4 DEF EraseStage
  <2> QED BY <1>9, <1>10, <2>3, <2>5, TypeKept DEF driver
<1>11. CASE k = 2
  <2>1. Head(todo) = Cmd("BLOCK_ERASE") BY <1>6, <1>8, <1>11
  <2>2. sel /\ ~chip.busy /\ Told(want) BY <1>7, <1>11 DEF EraseStage
  <2>3. "BLOCK_ERASE" \in Modes /\ "BLOCK_ERASE" \in Opens /\ "BLOCK_ERASE" \notin Works
    BY ModesAre, TheModes, WorkModes
  <2>4. /\ todo' = Tail(todo) /\ ChipOK' /\ chip'.mode = "BLOCK_ERASE" /\ ~chip'.busy
        /\ UNCHANGED <<driver, sel, array, want, flips>>
    BY <1>1, <2>1, <2>2, <2>3, StepCmd
  <2>5. Told(want)' BY <2>2, <2>4, ToldKept
  <2>6. EraseStage(b, k + 1)' BY <1>11, <2>2, <2>4, <2>5 DEF EraseStage
  <2> QED BY <1>1, <1>9, <1>11, <2>4, <2>6, TypeKept DEF driver
<1>12. CASE k = 3
  <2>1. Head(todo) = Addr(Row(p)) BY <1>6, <1>8, <1>12
  <2>2. sel /\ ~chip.busy /\ chip.mode = "BLOCK_ERASE" /\ Told(want)
    BY <1>7, <1>12 DEF EraseStage
  <2>3. /\ todo' = Tail(todo) /\ ChipOK' /\ chip'.mode = chip.mode /\ ~chip'.busy
        /\ chip'.row = p
        /\ UNCHANGED <<driver, sel, array, want, flips>>
    BY <1>1, <2>1, <2>2, StepRow
  <2>4. Told(want)' BY <2>2, <2>3, ToldKept
  <2>5. EraseStage(b, k + 1)' BY <1>4, <1>12, <2>2, <2>3, <2>4 DEF EraseStage
  <2> QED BY <1>1, <1>9, <1>12, <2>3, <2>5, TypeKept DEF driver
<1>13. CASE k = 4
  <2>1. Head(todo) = Cmd("BLOCK_ERASE_CONFIRM") BY <1>6, <1>8, <1>13
  <2>2. sel /\ ~chip.busy /\ chip.mode = "BLOCK_ERASE" /\ chip.row = p /\ Told(want)
    BY <1>4, <1>7, <1>13 DEF EraseStage
  <2>3. /\ "BLOCK_ERASE_CONFIRM" \in Modes /\ "BLOCK_ERASE_CONFIRM" \in Follows("BLOCK_ERASE")
        /\ "BLOCK_ERASE_CONFIRM" \in Works /\ "BLOCK_ERASE_CONFIRM" # "PROGRAM_PAGE"
    BY ModesAre, TheModes, WorkModes
  <2>4. /\ todo' = Tail(todo) /\ ChipOK' /\ chip'.mode = "BLOCK_ERASE_CONFIRM" /\ chip'.busy
        /\ chip'.row = p
        /\ UNCHANGED <<driver, sel, array, want, flips>>
    BY <1>1, <2>1, <2>2, <2>3, StepCmd
  <2>5. Told(want)' BY <2>2, <2>4, ToldKept
  <2>6. EraseStage(b, k + 1)' BY <1>4, <1>13, <2>2, <2>4, <2>5 DEF EraseStage
  <2> QED BY <1>1, <1>9, <1>13, <2>4, <2>6, TypeKept DEF driver
<1>14. CASE k = 5
  <2>1. Head(todo) = Ready BY <1>6, <1>8, <1>14
  <2>2. /\ todo' = Tail(todo) /\ ChipOK' /\ ~chip.busy
        /\ UNCHANGED <<driver, sel, chip, array, want, flips>>
    BY <1>1, <2>1, StepReady
  <2>3. sel /\ Told(Wanted(chip.status)) BY <1>7, <1>14, <2>2 DEF EraseStage
  <2>4. Told(Wanted(chip.status))' BY <2>2, <2>3, WantedKept DEF driver
  <2>5. EraseStage(b, k + 1)' BY <1>14, <2>2, <2>3, <2>4 DEF EraseStage
  <2> QED BY <1>1, <1>9, <1>14, <2>2, <2>5, TypeKept DEF driver
<1>15. CASE k = 6
  <2>1. Head(todo) = Cmd("READ_STATUS") BY <1>6, <1>8, <1>15
  <2>2. sel /\ ~chip.busy /\ Told(Wanted(chip.status)) BY <1>7, <1>15 DEF EraseStage
  <2>3. "READ_STATUS" \in Modes /\ "READ_STATUS" \in Opens /\ "READ_STATUS" \notin Works
    BY ModesAre, TheModes, WorkModes
  <2>4. /\ todo' = Tail(todo) /\ ChipOK' /\ chip'.mode = "READ_STATUS" /\ ~chip'.busy
        /\ chip'.status = chip.status
        /\ UNCHANGED <<driver, sel, array, want, flips>>
    BY <1>1, <2>1, <2>2, <2>3, StepCmd
  <2>5. Told(Wanted(chip.status))' BY <2>2, <2>4, WantedKept DEF driver
  <2>6. EraseStage(b, k + 1)' BY <1>15, <2>2, <2>4, <2>5 DEF EraseStage
  <2> QED BY <1>1, <1>9, <1>15, <2>4, <2>6, TypeKept DEF driver
<1>16. CASE k = 7
  <2>1. Head(todo) = Output("status") BY <1>6, <1>8, <1>16
  <2>2. sel /\ ~chip.busy /\ chip.mode = "READ_STATUS" /\ Told(Wanted(chip.status))
    BY <1>7, <1>16 DEF EraseStage
  <2>3. /\ todo' = Tail(todo) /\ TypeInv' /\ Told(want)'
        /\ UNCHANGED <<cmd, sel, chip, array, flips>>
    BY <1>2, <2>1, <2>2, StatusStep
  <2>4. EraseStage(b, k + 1)' BY <1>16, <2>2, <2>3 DEF EraseStage
  <2> QED BY <1>9, <1>16, <2>3, <2>4
<1>17. CASE k = 8
  <2>1. Head(todo) = Deselect BY <1>6, <1>8, <1>17
  <2>2. ~chip.busy /\ Told(want) BY <1>7, <1>17 DEF EraseStage
  <2>3. /\ todo' = Tail(todo) /\ ChipOK' /\ ~sel' /\ sel' \in BOOLEAN
        /\ UNCHANGED <<driver, chip, array, want, flips>>
    BY <1>1, <2>1, StepDeselect
  <2>4. Told(want)' BY <2>2, <2>3, ToldKept
  <2> QED BY <1>9, <1>17, <2>2, <2>3, <2>4, TypeKept DEF driver
<1>18. k \in {1, 2, 3, 4, 5, 6, 7, 8} OBVIOUS
<1> QED BY <1>10, <1>11, <1>12, <1>13, <1>14, <1>15, <1>16, <1>17, <1>18

LEMMA FillStep ==
    ASSUME TypeInv, Filling, DriverStep
    PROVE  TypeInv' /\ Running'
<1>1. ChipOK /\ sel \in BOOLEAN /\ chip.busy \in BOOLEAN BY DEF TypeInv, ChipOK
<1>2. cmd.op = "fillsect" /\ CommandOK(cmd) BY DEF Filling
<1>3. PICK p \in Pages : p = cmd.page BY <1>2 DEF CommandOK
<1>4. PICK s \in Sectors : s = cmd.sect BY <1>2 DEF CommandOK
<1>5. PICK d : d = cmd.data OBVIOUS
<1>6. d = <<d[1], d[2]>> /\ d[1] \in SUBSET Bits /\ d[2] \in SUBSET Bits
  BY <1>2, <1>5 DEF CommandOK
<1>7. PICK P : P = NandWriteSector(p, s, d) OBVIOUS
<1>8. /\ IsSeq(P) /\ Len(P) = 13
      /\ P[1] = Select /\ P[2] = Cmd("PROGRAM_PAGE") /\ P[3] = Addr(Col(s * 512))
      /\ P[4] = Addr(Row(p)) /\ P[5] = Input(d) /\ P[6] = Cmd("RANDOM_DATA_INPUT")
      /\ P[7] = Addr(Col(SectorCodeCol(s)))
      /\ P[8] = Input(<<Compute(d[1]), Compute(d[2])>>)
      /\ P[9] = Cmd("PROGRAM_PAGE_CONFIRM") /\ P[10] = Ready
      /\ P[11] = Cmd("READ_STATUS") /\ P[12] = Output("status")
      /\ P[13] = Deselect
  BY <1>7, FillCycles
<1>9. PICK k \in 1 .. 13 : At(P, k) /\ FillStage(p, s, d, k)
  BY <1>3, <1>4, <1>5, <1>7 DEF Filling
<1>10. Head(todo) = P[k] /\ Tail(todo) = SubSeq(P, k + 1, Len(P))
  <2>1. IsSeq(P) /\ k \in 1 .. Len(P) /\ At(P, k) BY <1>8, <1>9
  <2> QED BY <2>1, NextCycle
<1>11. ASSUME todo' = Tail(todo), cmd' = cmd, TypeInv',
              k < 13 => FillStage(p, s, d, k + 1)',
              k = 13 => ~sel' /\ ~chip'.busy /\ Told(want)'
       PROVE  TypeInv' /\ Running'
  <2>1. CASE k < 13
    <3>1. k + 1 \in 1 .. 13 /\ At(P, k + 1)' BY <1>10, <1>11, <2>1 DEF At
    <3>2. Filling' BY <1>2, <1>3, <1>4, <1>5, <1>7, <1>11, <2>1, <3>1 DEF Filling, CommandOK
    <3> QED BY <1>11, <3>2 DEF Running
  <2>2. CASE k = 13
    <3>1. todo' = <<>> BY <1>8, <1>10, <1>11, <2>2, LastCycle
    <3>2. PageExact' /\ RawExact' BY <1>2, <1>11, NotReading
    <3>3. Resting' BY <1>11, <2>2, <3>1, <3>2 DEF Resting
    <3> QED BY <1>11, <3>3 DEF Running
  <2> QED BY <2>1, <2>2
<1>12. CASE k = 1
  <2>1. Head(todo) = Select BY <1>8, <1>10, <1>12
  <2>2. ~chip.busy /\ Told(want) BY <1>9, <1>12 DEF FillStage
  <2>3. /\ todo' = Tail(todo) /\ ChipOK' /\ sel' /\ sel' \in BOOLEAN
        /\ UNCHANGED <<driver, chip, array, want, flips>>
    BY <1>1, <2>1, StepSelect
  <2>4. Told(want)' BY <2>2, <2>3, ToldKept
  <2>5. FillStage(p, s, d, k + 1)' BY <1>12, <2>2, <2>3, <2>4 DEF FillStage
  <2> QED BY <1>11, <1>12, <2>3, <2>5, TypeKept DEF driver
<1>13. CASE k = 2
  <2>1. Head(todo) = Cmd("PROGRAM_PAGE") BY <1>8, <1>10, <1>13
  <2>2. sel /\ ~chip.busy /\ Told(want) BY <1>9, <1>13 DEF FillStage
  <2>3. "PROGRAM_PAGE" \in Modes /\ "PROGRAM_PAGE" \in Opens /\ "PROGRAM_PAGE" \notin Works
    BY ModesAre, TheModes, WorkModes
  <2>4. /\ todo' = Tail(todo) /\ ChipOK' /\ chip'.mode = "PROGRAM_PAGE" /\ ~chip'.busy
        /\ chip'.reg = Erased
        /\ UNCHANGED <<driver, sel, array, want, flips>>
    BY <1>1, <2>1, <2>2, <2>3, StepCmd
  <2>5. Told(want)' BY <2>2, <2>4, ToldKept
  <2>6. FillStage(p, s, d, k + 1)' BY <1>13, <2>2, <2>4, <2>5 DEF FillStage
  <2> QED BY <1>1, <1>11, <1>13, <2>4, <2>6, TypeKept DEF driver
<1>14. CASE k = 3
  <2>1. PICK c \in StartCols : c = s * 512 BY DEF StartCols
  <2>2. Head(todo) = Addr(Col(c)) BY <1>8, <1>10, <1>14, <2>1
  <2>3. sel /\ ~chip.busy BY <1>9, <1>14 DEF FillStage
  <2>4. sel /\ ~chip.busy /\ chip.mode = "PROGRAM_PAGE" /\ chip.reg = Erased /\ Told(want)
    BY <1>9, <1>14 DEF FillStage
  <2>5. /\ todo' = Tail(todo) /\ ChipOK' /\ chip'.mode = chip.mode /\ ~chip'.busy
        /\ chip'.col = c /\ chip'.reg = chip.reg
        /\ UNCHANGED <<driver, sel, array, want, flips>>
    BY <1>1, <2>2, <2>3, StepCol
  <2>6. Told(want)' BY <2>4, <2>5, ToldKept
  <2>7. FillStage(p, s, d, k + 1)' BY <1>14, <2>1, <2>4, <2>5, <2>6 DEF FillStage
  <2> QED BY <1>1, <1>11, <1>14, <2>5, <2>7, TypeKept DEF driver
<1>15. CASE k = 4
  <2>1. Head(todo) = Addr(Row(p)) BY <1>8, <1>10, <1>15
  <2>2. sel /\ ~chip.busy BY <1>9, <1>15 DEF FillStage
  <2>3. /\ sel /\ ~chip.busy /\ chip.mode = "PROGRAM_PAGE" /\ chip.reg = Erased
        /\ chip.col = s * 512 /\ Told(want)
    BY <1>9, <1>15 DEF FillStage
  <2>4. /\ todo' = Tail(todo) /\ ChipOK' /\ chip'.mode = chip.mode /\ ~chip'.busy
        /\ chip'.col = chip.col /\ chip'.row = p /\ chip'.reg = chip.reg
        /\ UNCHANGED <<driver, sel, array, want, flips>>
    BY <1>1, <2>2, <2>1, StepRow
  <2>5. Told(want)' BY <2>3, <2>4, ToldKept
  <2>6. FillStage(p, s, d, k + 1)' BY <1>15, <2>3, <2>4, <2>5 DEF FillStage
  <2> QED BY <1>1, <1>11, <1>15, <2>4, <2>6, TypeKept DEF driver
<1>16. CASE k = 5
  <2>1. Head(todo) = Input(d) BY <1>8, <1>10, <1>16
  <2>2. sel /\ ~chip.busy BY <1>9, <1>16 DEF FillStage
  <2>3. /\ sel /\ ~chip.busy /\ chip.mode = "PROGRAM_PAGE" /\ chip.reg = Erased
        /\ chip.col = s * 512 /\ chip.row = p /\ Told(want)
    BY <1>9, <1>16 DEF FillStage
  <2>4. PageOK(Stored(chip.reg, chip.col, d)) BY <1>6, <2>3, ErasedOK, BlocksOK
  <2>5. chip.mode \in Programming BY <2>3, WorkModes
  <2>6. /\ todo' = Tail(todo) /\ ChipOK' /\ chip'.mode = chip.mode /\ ~chip'.busy
        /\ chip'.row = chip.row /\ chip'.reg = Stored(chip.reg, chip.col, d)
        /\ UNCHANGED <<driver, sel, array, want, flips>>
    BY <1>1, <2>2, <2>1, <2>4, <2>5, StepInput
  <2>7. Told(want)' BY <2>3, <2>6, ToldKept
  <2>8. FillStage(p, s, d, k + 1)' BY <1>16, <2>3, <2>6, <2>7 DEF FillStage
  <2> QED BY <1>1, <1>11, <1>16, <2>6, <2>8, TypeKept DEF driver
<1>17. CASE k = 6
  <2>1. Head(todo) = Cmd("RANDOM_DATA_INPUT") BY <1>8, <1>10, <1>17
  <2>2. sel /\ ~chip.busy BY <1>9, <1>17 DEF FillStage
  <2>3. /\ sel /\ ~chip.busy /\ chip.mode = "PROGRAM_PAGE" /\ chip.row = p
        /\ chip.reg = Stored(Erased, s * 512, d) /\ Told(want)
    BY <1>9, <1>17 DEF FillStage
  <2>4. /\ "RANDOM_DATA_INPUT" \in Modes /\ "RANDOM_DATA_INPUT" \in Follows(chip.mode)
        /\ "RANDOM_DATA_INPUT" \notin Works /\ "RANDOM_DATA_INPUT" # "PROGRAM_PAGE"
    BY <2>3, ModesAre, TheModes, WorkModes
  <2>5. /\ todo' = Tail(todo) /\ ChipOK' /\ chip'.mode = "RANDOM_DATA_INPUT" /\ ~chip'.busy
        /\ chip'.row = chip.row /\ chip'.reg = chip.reg
        /\ UNCHANGED <<driver, sel, array, want, flips>>
    BY <1>1, <2>2, <2>1, <2>4, StepCmd
  <2>6. Told(want)' BY <2>3, <2>5, ToldKept
  <2>7. FillStage(p, s, d, k + 1)' BY <1>17, <2>3, <2>5, <2>6 DEF FillStage
  <2> QED BY <1>1, <1>11, <1>17, <2>5, <2>7, TypeKept DEF driver
<1>18. CASE k = 7
  <2>1. Head(todo) = Addr(Col(SectorCodeCol(s))) BY <1>8, <1>10, <1>18
  <2>2. SectorCodeCol(s) \in StartCols BY SectorLayout
  <2>3. sel /\ ~chip.busy BY <1>9, <1>18 DEF FillStage
  <2>4. /\ sel /\ ~chip.busy /\ chip.mode = "RANDOM_DATA_INPUT" /\ chip.row = p
        /\ chip.reg = Stored(Erased, s * 512, d) /\ Told(want)
    BY <1>9, <1>18 DEF FillStage
  <2>5. /\ todo' = Tail(todo) /\ ChipOK' /\ chip'.mode = chip.mode /\ ~chip'.busy
        /\ chip'.col = SectorCodeCol(s) /\ chip'.row = chip.row /\ chip'.reg = chip.reg
        /\ UNCHANGED <<driver, sel, array, want, flips>>
    BY <1>1, <2>3, <2>1, <2>2, StepCol
  <2>6. Told(want)' BY <2>4, <2>5, ToldKept
  <2>7. FillStage(p, s, d, k + 1)' BY <1>18, <2>4, <2>5, <2>6 DEF FillStage
  <2> QED BY <1>1, <1>11, <1>18, <2>5, <2>7, TypeKept DEF driver
<1>19. CASE k = 8
  <2>1. Head(todo) = Input(<<Compute(d[1]), Compute(d[2])>>) BY <1>8, <1>10, <1>19
  <2>2. sel /\ ~chip.busy BY <1>9, <1>19 DEF FillStage
  <2>3. /\ sel /\ ~chip.busy /\ chip.mode = "RANDOM_DATA_INPUT" /\ chip.row = p
        /\ chip.col = SectorCodeCol(s) /\ chip.reg = Stored(Erased, s * 512, d) /\ Told(want)
    BY <1>9, <1>19 DEF FillStage
  <2>4. Stored(chip.reg, chip.col, <<Compute(d[1]), Compute(d[2])>>) = SectorData(s, d)
    BY <1>6, <2>3, SectorStored
  <2>5. PageOK(Stored(chip.reg, chip.col, <<Compute(d[1]), Compute(d[2])>>))
    BY <1>6, <2>4, SectorOK
  <2>6. chip.mode \in Programming BY <2>3, WorkModes
  <2>7. /\ todo' = Tail(todo) /\ ChipOK' /\ chip'.mode = chip.mode /\ ~chip'.busy
        /\ chip'.row = chip.row
        /\ chip'.reg = Stored(chip.reg, chip.col, <<Compute(d[1]), Compute(d[2])>>)
        /\ UNCHANGED <<driver, sel, array, want, flips>>
    BY <1>1, <2>2, <2>1, <2>5, <2>6, StepInput
  <2>8. Told(want)' BY <2>3, <2>7, ToldKept
  <2>9. FillStage(p, s, d, k + 1)' BY <1>19, <2>3, <2>4, <2>7, <2>8 DEF FillStage
  <2> QED BY <1>1, <1>11, <1>19, <2>7, <2>9, TypeKept DEF driver
<1>20. CASE k = 9
  <2>1. Head(todo) = Cmd("PROGRAM_PAGE_CONFIRM") BY <1>8, <1>10, <1>20
  <2>2. /\ sel /\ ~chip.busy /\ chip.mode = "RANDOM_DATA_INPUT" /\ chip.row = p
        /\ chip.reg = SectorData(s, d) /\ Told(want)
    BY <1>9, <1>20 DEF FillStage
  <2>3. /\ "PROGRAM_PAGE_CONFIRM" \in Modes
        /\ "PROGRAM_PAGE_CONFIRM" \in Follows("RANDOM_DATA_INPUT")
        /\ "PROGRAM_PAGE_CONFIRM" \in Works /\ "PROGRAM_PAGE_CONFIRM" # "PROGRAM_PAGE"
    BY ModesAre, TheModes, WorkModes
  <2>4. /\ todo' = Tail(todo) /\ ChipOK' /\ chip'.mode = "PROGRAM_PAGE_CONFIRM" /\ chip'.busy
        /\ chip'.row = chip.row /\ chip'.reg = chip.reg
        /\ UNCHANGED <<driver, sel, array, want, flips>>
    BY <1>1, <2>1, <2>2, <2>3, StepCmd
  <2>5. Told(want)' BY <2>2, <2>4, ToldKept
  <2>6. FillStage(p, s, d, k + 1)' BY <1>20, <2>2, <2>4, <2>5 DEF FillStage
  <2> QED BY <1>1, <1>11, <1>20, <2>4, <2>6, TypeKept DEF driver
<1>21. CASE k = 10
  <2>1. Head(todo) = Ready BY <1>8, <1>10, <1>21
  <2>2. /\ todo' = Tail(todo) /\ ChipOK' /\ ~chip.busy
        /\ UNCHANGED <<driver, sel, chip, array, want, flips>>
    BY <1>1, <2>1, StepReady
  <2>3. sel /\ Told(Wanted(chip.status)) BY <1>9, <1>21, <2>2 DEF FillStage
  <2>4. Told(Wanted(chip.status))' BY <2>2, <2>3, WantedKept DEF driver
  <2>5. FillStage(p, s, d, k + 1)' BY <1>21, <2>2, <2>3, <2>4 DEF FillStage
  <2> QED BY <1>1, <1>11, <1>21, <2>2, <2>5, TypeKept DEF driver
<1>22. CASE k = 11
  <2>1. Head(todo) = Cmd("READ_STATUS") BY <1>8, <1>10, <1>22
  <2>2. sel /\ ~chip.busy /\ Told(Wanted(chip.status)) BY <1>9, <1>22 DEF FillStage
  <2>3. "READ_STATUS" \in Modes /\ "READ_STATUS" \in Opens /\ "READ_STATUS" \notin Works
    BY ModesAre, TheModes, WorkModes
  <2>4. /\ todo' = Tail(todo) /\ ChipOK' /\ chip'.mode = "READ_STATUS" /\ ~chip'.busy
        /\ chip'.status = chip.status
        /\ UNCHANGED <<driver, sel, array, want, flips>>
    BY <1>1, <2>1, <2>2, <2>3, StepCmd
  <2>5. Told(Wanted(chip.status))' BY <2>2, <2>4, WantedKept DEF driver
  <2>6. FillStage(p, s, d, k + 1)' BY <1>22, <2>2, <2>4, <2>5 DEF FillStage
  <2> QED BY <1>1, <1>11, <1>22, <2>4, <2>6, TypeKept DEF driver
<1>23. CASE k = 12
  <2>1. Head(todo) = Output("status") BY <1>8, <1>10, <1>23
  <2>2. sel /\ ~chip.busy /\ chip.mode = "READ_STATUS" /\ Told(Wanted(chip.status))
    BY <1>9, <1>23 DEF FillStage
  <2>3. /\ todo' = Tail(todo) /\ TypeInv' /\ Told(want)'
        /\ UNCHANGED <<cmd, sel, chip, array, flips>>
    BY <1>2, <2>1, <2>2, StatusStep
  <2>4. FillStage(p, s, d, k + 1)' BY <1>23, <2>2, <2>3 DEF FillStage
  <2> QED BY <1>11, <1>23, <2>3, <2>4
<1>24. CASE k = 13
  <2>1. Head(todo) = Deselect BY <1>8, <1>10, <1>24
  <2>2. ~chip.busy /\ Told(want) BY <1>9, <1>24 DEF FillStage
  <2>3. /\ todo' = Tail(todo) /\ ChipOK' /\ ~sel' /\ sel' \in BOOLEAN
        /\ UNCHANGED <<driver, chip, array, want, flips>>
    BY <1>1, <2>1, StepDeselect
  <2>4. Told(want)' BY <2>2, <2>3, ToldKept
  <2> QED BY <1>11, <1>24, <2>2, <2>3, <2>4, TypeKept DEF driver
<1>25. k \in {1, 2, 3, 4, 5, 6, 7, 8, 9, 10, 11, 12, 13} OBVIOUS
<1> QED BY <1>12, <1>13, <1>14, <1>15, <1>16, <1>17, <1>18, <1>19, <1>20, <1>21, <1>22,
           <1>23, <1>24, <1>25

-----------------------------------------------------------------------------
(* The invariant is kept: the chip finishes *)

LEMMA DoneType ==
    ASSUME TypeInv, ChipDone
    PROVE  /\ TypeInv' /\ ~chip'.busy
           /\ UNCHANGED <<driver, todo, sel, want>>
<1>1. UNCHANGED <<driver, todo, sel, want>> BY DEF ChipDone
<1>2. ChipOK /\ ArrayOK BY DEF TypeInv
<1>3. PICK p \in Pages : p = chip.row BY <1>2 DEF ChipOK
<1>4. PageOK(array[p]) /\ PageOK(chip.reg) BY <1>2, <1>3 DEF ArrayOK, ChipOK
<1>5. ChipOK' /\ ~chip'.busy
  <2>1. CASE chip.mode = "RESET" /\ chip' = [chip EXCEPT !.busy = FALSE, !.mode = Idle]
    <3>1. Idle \in Modes BY ModesAre DEF Idle
    <3>2. chip' = [mode |-> Idle, busy |-> FALSE, col |-> chip.col, row |-> chip.row,
                   reg |-> chip.reg, status |-> chip.status]
      BY <1>2, <2>1 DEF ChipOK
    <3> QED BY <1>2, <3>1, <3>2 DEF ChipOK
  <2>2. CASE chip' = [chip EXCEPT !.busy = FALSE, !.reg = array[chip.row]]
    <3>1. chip' = [mode |-> chip.mode, busy |-> FALSE, col |-> chip.col, row |-> chip.row,
                   reg |-> array[p], status |-> chip.status]
      BY <1>2, <1>3, <2>2 DEF ChipOK
    <3> QED BY <1>2, <1>4, <3>1 DEF ChipOK
  <2>3. CASE \E st \in {"ok", "fail"} : chip' = [chip EXCEPT !.busy = FALSE, !.status = st]
    <3>1. PICK st \in {"ok", "fail"} : chip' = [chip EXCEPT !.busy = FALSE, !.status = st]
      BY <2>3
    <3>2. chip' = [mode |-> chip.mode, busy |-> FALSE, col |-> chip.col, row |-> chip.row,
                   reg |-> chip.reg, status |-> st]
      BY <1>2, <3>1 DEF ChipOK
    <3> QED BY <1>2, <3>2 DEF ChipOK
  <2> QED BY <2>1, <2>2, <2>3 DEF ChipDone
<1>6. ArrayOK'
  <2>1. CASE array' = array BY <1>2, <2>1 DEF ArrayOK
  <2>2. CASE array' = Programmed(array)
    <3>1. array' = [array EXCEPT ![p] = [c \in Columns |-> @[c] \intersect chip.reg[c]]]
      BY <1>3, <2>2 DEF Programmed
    <3>2. array' = [q \in Pages |-> IF q = p THEN [c \in Columns |->
                                                      array[p][c] \intersect chip.reg[c]]
                                    ELSE array[q]]
      BY <1>2, <3>1 DEF ArrayOK
    <3>3. PageOK([c \in Columns |-> array[p][c] \intersect chip.reg[c]])
      BY <1>4 DEF PageOK
    <3> QED BY <1>2, <3>2, <3>3 DEF ArrayOK
  <2>3. CASE array' = BlockErased(array)
    BY <1>2, <2>3, ErasedOK DEF BlockErased, ArrayOK
  <2> QED BY <2>1, <2>2, <2>3 DEF ChipDone
<1>7. flips' \subseteq flips BY DEF ChipDone
<1>8. flips' \subseteq Weak /\ IsFiniteSet(flips') BY <1>7, FS_Subset DEF TypeInv
<1>9. WantOK(want)' BY <1>1 DEF TypeInv, WantOK
<1> QED BY <1>1, <1>5, <1>6, <1>8, <1>9 DEF TypeInv, driver

LEMMA ResetDone ==
    ASSUME TypeInv, Resetting, ChipDone
    PROVE  Running'
<1>1. PICK k \in 1 .. 4 : At(NandReset, k) /\ ResetStage(k) BY DEF Resetting
<1>2. chip.busy BY DEF ChipDone
<1>3. k = 3 /\ chip.mode = "RESET" /\ sel BY <1>1, <1>2 DEF ResetStage, TypeInv
<1>4. UNCHANGED <<driver, todo, sel, want>> /\ ~chip'.busy BY DoneType
<1>5. UNCHANGED <<array, flips>> BY <1>3 DEF ChipDone
<1>6. Told(want)' BY <1>4, <1>5, ToldKept DEF Resetting
<1>7. At(NandReset, k)' BY <1>1, <1>4 DEF At
<1>8. ResetStage(k)' BY <1>3, <1>4 DEF ResetStage
<1>9. Resetting' BY <1>4, <1>6, <1>7, <1>8 DEF Resetting, driver
<1> QED BY <1>9 DEF Running

\* The page is in the register when the chip has loaded it.
LEMMA LoadDone ==
    ASSUME TypeInv, ChipDone, NEW p, NEW k \in 1 .. 7, LoadStage(p, k)
    PROVE  /\ k = 6 /\ LoadStage(p, k)'
           /\ UNCHANGED <<driver, todo, sel, array, want, flips>>
<1>1. chip.busy BY DEF ChipDone
<1>2. k = 6 BY <1>1 DEF LoadStage
<1>3. chip.mode = "READ_CONFIRM" /\ chip.row = p BY <1>1, <1>2 DEF LoadStage
<1>4. UNCHANGED <<driver, todo, sel, want>> /\ ~chip'.busy BY DoneType
<1>5. /\ chip' = [chip EXCEPT !.busy = FALSE, !.reg = array[chip.row]]
      /\ UNCHANGED <<array, flips>>
  BY <1>3 DEF ChipDone
<1>6. ChipOK BY DEF TypeInv
<1>7. chip' = [mode |-> chip.mode, busy |-> FALSE, col |-> chip.col, row |-> chip.row,
               reg |-> array[p], status |-> chip.status]
  BY <1>3, <1>5, <1>6 DEF ChipOK
<1>8. LoadStage(p, k)' BY <1>2, <1>3, <1>4, <1>5, <1>7 DEF LoadStage
<1> QED BY <1>2, <1>4, <1>5, <1>8

LEMMA PageDone ==
    ASSUME TypeInv, ReadingPage, ChipDone
    PROVE  Running'
<1>1. PICK p : p = cmd.page OBVIOUS
<1>2. PICK P : P = NandReadPage(p) OBVIOUS
<1>3. PICK k \in 1 .. 9 : At(P, k) /\ PageStage(p, k) BY <1>1, <1>2 DEF ReadingPage
<1>4. chip.busy BY DEF ChipDone
<1>5. k \in 1 .. 7 /\ LoadStage(p, k) BY <1>3, <1>4 DEF PageStage
<1>6. /\ k = 6 /\ LoadStage(p, k)'
      /\ UNCHANGED <<driver, todo, sel, array, want, flips>>
  BY <1>5, LoadDone
<1>7. Told(want)' BY <1>6, ToldKept DEF ReadingPage
<1>8. At(P, k)' /\ PageStage(p, k)' BY <1>3, <1>6 DEF At, PageStage
<1>9. ReadingPage' BY <1>1, <1>2, <1>6, <1>7, <1>8 DEF ReadingPage, driver, CommandOK
<1> QED BY <1>9 DEF Running

LEMMA ReadDone ==
    ASSUME TypeInv, Reading, ChipDone
    PROVE  Running'
<1>1. PICK p : p = cmd.page OBVIOUS
<1>2. PICK c : c = cmd.col OBVIOUS
<1>3. PICK P : P = NandRead(p, c) OBVIOUS
<1>4. PICK k \in 1 .. 12 : At(P, k) /\ CellStage(p, c, k) BY <1>1, <1>2, <1>3 DEF Reading
<1>5. chip.busy BY DEF ChipDone
<1>6. k \in 1 .. 7 /\ LoadStage(p, k) BY <1>4, <1>5 DEF CellStage
<1>7. /\ k = 6 /\ LoadStage(p, k)'
      /\ UNCHANGED <<driver, todo, sel, array, want, flips>>
  BY <1>6, LoadDone
<1>8. Told(want)' BY <1>7, ToldKept DEF Reading
<1>9. At(P, k)' /\ CellStage(p, c, k)' BY <1>4, <1>7 DEF At, CellStage
<1>10. Reading' BY <1>1, <1>2, <1>3, <1>7, <1>8, <1>9 DEF Reading, driver, CommandOK
<1> QED BY <1>10 DEF Running

LEMMA ScanDone ==
    ASSUME TypeInv, Scanning, ChipDone
    PROVE  Running'
<1>1. PICK p \in Pages :
          /\ \E k \in 1 .. 13 : At(ScanPage(p), k) /\ CellStage(p, MarkCol, k)
          /\ bad = {q \in 0 .. p - 1 : array[q][MarkCol] # {1}}
  BY DEF Scanning
<1>2. PICK P : P = ScanPage(p) OBVIOUS
<1>3. PICK k \in 1 .. 13 : At(P, k) /\ CellStage(p, MarkCol, k) BY <1>1, <1>2
<1>4. chip.busy BY DEF ChipDone
<1>5. k \in 1 .. 7 /\ LoadStage(p, k) BY <1>3, <1>4 DEF CellStage
<1>6. /\ k = 6 /\ LoadStage(p, k)'
      /\ UNCHANGED <<driver, todo, sel, array, want, flips>>
  BY <1>5, LoadDone
<1>7. Told(want)' BY <1>6, ToldKept DEF Scanning
<1>8. At(P, k)' /\ CellStage(p, MarkCol, k)' BY <1>3, <1>6 DEF At, CellStage
<1>9. bad' = {q \in 0 .. p - 1 : array'[q][MarkCol] # {1}} BY <1>1, <1>6 DEF driver
<1>10. cmd'.op = "bbscan" BY <1>6 DEF Scanning, driver
<1>11. Scanning' BY <1>2, <1>7, <1>8, <1>9, <1>10 DEF Scanning
<1> QED BY <1>11 DEF Running

LEMMA EraseTold ==
    ASSUME TypeInv, cmd.op = "eraseblock", NEW st \in {"ok", "fail"}, Told(want),
           UNCHANGED <<cmd, want>>,
           IF st = "ok"
               THEN /\ array' = [p \in Pages |-> IF Block(p) = cmd.block THEN Erased ELSE array[p]]
                    /\ flips' = {f \in flips : Block(f[1]) # cmd.block}
               ELSE UNCHANGED <<array, flips>>
    PROVE  Told(Wanted(st))'
<1>1. Wanted(st)' = [p \in Pages |->
                        IF Block(p) # cmd.block THEN want[p]
                        ELSE [i \in Blocks |-> IF st = "ok" THEN Bits ELSE Unknown]]
  BY DEF Wanted
<1>2. ASSUME NEW p \in Pages, NEW i \in Blocks, Wanted(st)'[p][i] # Unknown
      PROVE  /\ SymDiff(array'[p][BlockCol(i)], Wanted(st)'[p][i])
                    \subseteq Changed(p, BlockCol(i))'
             /\ SymDiff(array'[p][CodeCol(i)], Compute(Wanted(st)'[p][i]))
                    \subseteq Changed(p, CodeCol(i))'
  <2>1. CASE Block(p) # cmd.block
    <3>1. Wanted(st)'[p][i] = want[p][i] BY <1>1, <2>1
    <3>2. array'[p] = array[p] BY <2>1
    <3>3. \A c \in Columns : Changed(p, c) \subseteq Changed(p, c)' BY <2>1 DEF Changed
    <3>4. /\ SymDiff(array[p][BlockCol(i)], want[p][i]) \subseteq Changed(p, BlockCol(i))
          /\ SymDiff(array[p][CodeCol(i)], Compute(want[p][i])) \subseteq Changed(p, CodeCol(i))
      BY <1>2, <3>1 DEF Told
    <3> QED BY <3>1, <3>2, <3>3, <3>4, Layout
  <2>2. CASE Block(p) = cmd.block
    <3>1. Wanted(st)'[p][i] = IF st = "ok" THEN Bits ELSE Unknown BY <1>1, <2>2
    <3>2. st = "ok" BY <1>2, <3>1
    <3>3. array'[p] = Erased BY <2>2, <3>2
    <3>4. array'[p][BlockCol(i)] = Bits /\ array'[p][CodeCol(i)] = CodeBits
      BY <3>3, Layout, CellWidths DEF Erased
    <3>5. Wanted(st)'[p][i] = Bits BY <3>1, <3>2
    <3>6. SymDiff(Bits, Bits) = {} /\ SymDiff(CodeBits, CodeBits) = {} BY DEF SymDiff
    <3> QED BY <3>4, <3>5, <3>6, ErasedCode
  <2> QED BY <2>1, <2>2
<1> QED BY <1>2 DEF Told

LEMMA EraseDone ==
    ASSUME TypeInv, Erasing, ChipDone
    PROVE  Running'
<1>1. cmd.op = "eraseblock" /\ CommandOK(cmd) /\ (cmd.block \in Protected => cmd.yes)
  BY DEF Erasing
<1>2. PICK b \in Nat : b = cmd.block /\ b * PagesPerBlock \in Pages BY <1>1 DEF CommandOK
<1>3. PICK P : P = NandErase(b) OBVIOUS
<1>4. PICK k \in 1 .. 8 : At(P, k) /\ EraseStage(b, k) BY <1>2, <1>3 DEF Erasing
<1>5. chip.busy BY DEF ChipDone
<1>6. k = 5 BY <1>4, <1>5 DEF EraseStage
<1>7. /\ chip.mode = "BLOCK_ERASE_CONFIRM" /\ chip.row = b * PagesPerBlock
      /\ (sel <=> TRUE) /\ Told(want)
  BY <1>4, <1>5, <1>6 DEF EraseStage
<1>8. UNCHANGED <<cmd, todo, sel, want>> /\ ~chip'.busy BY DoneType DEF driver
<1>9. Block(chip.row) = b BY <1>2, <1>7, NandAssumption DEF Block
<1>10. ChipOK BY DEF TypeInv
<1>11. PICK st \in {"ok", "fail"} :
           /\ chip' = [chip EXCEPT !.busy = FALSE, !.status = st]
           /\ IF st = "ok" THEN array' = BlockErased(array) ELSE array' = array
  BY <1>7 DEF ChipDone
<1>12. chip'.mode = chip.mode /\ chip'.row = chip.row /\ chip'.status = st
  BY <1>10, <1>11 DEF ChipOK
<1>13. flips' = IF st = "ok" THEN {f \in flips : Block(f[1]) # b} ELSE flips
  BY <1>7, <1>9, <1>12 DEF ChipDone
<1>14. Told(Wanted(st))'
  <2>1. st = "ok" => array' = [p \in Pages |-> IF Block(p) = b THEN Erased ELSE array[p]]
    BY <1>9, <1>11 DEF BlockErased
  <2>2. IF st = "ok"
            THEN /\ array' = [p \in Pages |->
                                 IF Block(p) = cmd.block THEN Erased ELSE array[p]]
                 /\ flips' = {f \in flips : Block(f[1]) # cmd.block}
            ELSE UNCHANGED <<array, flips>>
    BY <1>2, <1>11, <1>13, <2>1
  <2> QED BY <1>1, <1>7, <1>8, <2>2, EraseTold
<1>15. Told(Wanted(chip.status))'
  <2>1. Wanted(chip.status)' = Wanted(st)' BY <1>12 DEF Wanted
  <2> QED BY <1>14, <2>1 DEF Told
<1>16. EraseStage(b, k)' BY <1>6, <1>7, <1>8, <1>12, <1>15 DEF EraseStage
<1>17. At(P, k)' BY <1>4, <1>8 DEF At
<1>18. Erasing' BY <1>1, <1>2, <1>3, <1>8, <1>16, <1>17 DEF Erasing, CommandOK
<1> QED BY <1>18 DEF Running

\* Programming clears only bits that were ones: what has changed before shows
\* in a cell that was erased, and in no other way.
LEMMA CellFilled ==
    ASSUME NEW A, NEW x, x \subseteq A, NEW d, d \subseteq A, NEW C, SymDiff(x, A) \subseteq C
    PROVE  SymDiff(x \intersect d, d) \subseteq C
BY DEF SymDiff

LEMMA FillTold ==
    ASSUME TypeInv, cmd.op = "fillsect", CommandOK(cmd), NEW st \in {"ok", "fail"}, Told(want),
           UNCHANGED <<cmd, want, flips>>,
           NEW p \in Pages, p = cmd.page, NEW s \in Sectors, s = cmd.sect,
           NEW d, d = cmd.data,
           IF st = "ok"
               THEN array' = [array EXCEPT ![p] =
                                 [c \in Columns |-> @[c] \intersect SectorData(s, d)[c]]]
               ELSE array' = array
    PROVE  Told(Wanted(st))'
<1>1. WantOK(want) /\ ArrayOK BY DEF TypeInv
<1>2. d[1] \in SUBSET Bits /\ d[2] \in SUBSET Bits BY DEF CommandOK
<1>3. Wanted(st)' = [want EXCEPT ![p] =
                        [i \in Blocks |->
                            IF i \div 2 # s THEN @[i]
                            ELSE IF st = "ok" /\ @[i] = Bits THEN d[(i % 2) + 1]
                            ELSE Unknown]]
  BY DEF Wanted
<1>4. \A q \in Pages : q # p => Wanted(st)'[q] = want[q] BY <1>1, <1>3 DEF WantOK
<1>5. \A i \in Blocks : Wanted(st)'[p][i] =
          IF i \div 2 # s THEN want[p][i]
          ELSE IF st = "ok" /\ want[p][i] = Bits THEN d[(i % 2) + 1]
          ELSE Unknown
  BY <1>1, <1>3 DEF WantOK
<1>6. \A q \in Pages, c \in Columns : Changed(q, c)' = Changed(q, c) BY DEF Changed
<1>7. \A q \in Pages : q # p => array'[q] = array[q] BY <1>1 DEF ArrayOK
<1>8. st = "ok" => \A c \in Columns : array'[p][c] = array[p][c] \intersect SectorData(s, d)[c]
  BY <1>1 DEF ArrayOK
<1>9. ASSUME NEW q \in Pages, NEW i \in Blocks, Wanted(st)'[q][i] # Unknown
      PROVE  /\ SymDiff(array'[q][BlockCol(i)], Wanted(st)'[q][i])
                    \subseteq Changed(q, BlockCol(i))
             /\ SymDiff(array'[q][CodeCol(i)], Compute(Wanted(st)'[q][i]))
                    \subseteq Changed(q, CodeCol(i))
  <2> DEFINE b == BlockCol(i)
             e == CodeCol(i)
  <2>1. b \in Columns /\ e \in Columns BY Layout
  <2>2. Ones(b) = Bits /\ Ones(e) = CodeBits BY CellWidths
  <2>3. array[q][b] \subseteq Bits /\ array[q][e] \subseteq CodeBits
    BY <1>1, <2>1, <2>2 DEF ArrayOK, PageOK
  <2>4. want[q][i] # Unknown => /\ SymDiff(array[q][b], want[q][i]) \subseteq Changed(q, b)
                                /\ SymDiff(array[q][e], Compute(want[q][i])) \subseteq Changed(q, e)
    BY DEF Told
  <2>5. CASE q # p
    <3>1. array'[q] = array[q] /\ Wanted(st)'[q][i] = want[q][i] BY <1>4, <1>7, <2>5
    <3> QED BY <1>9, <2>4, <3>1
  <2>6. CASE q = p /\ i \div 2 # s
    <3>1. Wanted(st)'[q][i] = want[q][i] BY <1>5, <2>6
    <3>2. SectorData(s, d)[b] = Ones(b) /\ SectorData(s, d)[e] = Ones(e)
      <4>1. i # 2 * s /\ i # 2 * s + 1 /\ 2 * s \in Blocks /\ 2 * s + 1 \in Blocks
        BY <2>6, SectorLayout
      <4>2. \A c \in {b, e} : /\ c # BlockCol(2 * s) /\ c # BlockCol(2 * s + 1)
                              /\ c # CodeCol(2 * s) /\ c # CodeCol(2 * s + 1)
        BY <4>1, Layout
      <4> HIDE DEF b, e
      <4>3. \A c \in Columns : /\ c # BlockCol(2 * s) /\ c # BlockCol(2 * s + 1)
                               /\ c # CodeCol(2 * s) /\ c # CodeCol(2 * s + 1)
                               => SectorData(s, d)[c] = Ones(c)
        BY DEF SectorData
      <4> QED BY <2>1, <4>2, <4>3
    <3>3. array'[q][b] = array[q][b] /\ array'[q][e] = array[q][e]
      <4>1. CASE st = "ok"
        <5>1. /\ array'[q][b] = array[q][b] \intersect SectorData(s, d)[b]
              /\ array'[q][e] = array[q][e] \intersect SectorData(s, d)[e]
          BY <1>8, <2>1, <2>6, <4>1
        <5> QED BY <2>2, <2>3, <3>2, <5>1
      <4>2. CASE st # "ok" BY <4>2
      <4> QED BY <4>1, <4>2
    <3> QED BY <1>9, <2>4, <3>1, <3>3
  <2>7. CASE q = p /\ i \div 2 = s
    <3>1. st = "ok" /\ want[q][i] = Bits /\ Wanted(st)'[q][i] = d[(i % 2) + 1]
      BY <1>5, <1>9, <2>7
    <3>2. Bits # Unknown BY NandAssumption
    <3>3. PICK x \in SUBSET Bits : x = d[(i % 2) + 1]
      <4>1. (i % 2) + 1 \in {1, 2} BY DEF Blocks
      <4> QED BY <1>2, <4>1
    <3>4. SectorData(s, d)[b] = x /\ SectorData(s, d)[e] = Compute(x)
      <4>1. i \in {2 * s, 2 * s + 1} /\ 2 * s \in Blocks /\ 2 * s + 1 \in Blocks
            /\ (2 * s) % 2 = 0 /\ (2 * s + 1) % 2 = 1 /\ 2 * s # 2 * s + 1
        BY <2>7, SectorLayout
      <4>2. /\ BlockCol(2 * s) # BlockCol(2 * s + 1) /\ CodeCol(2 * s) # CodeCol(2 * s + 1)
            /\ \A j, k \in {2 * s, 2 * s + 1} : BlockCol(j) # CodeCol(k)
        <5>1. BlockCol(2 * s) # BlockCol(2 * s + 1) BY <4>1, Layout
        <5>2. CodeCol(2 * s) # CodeCol(2 * s + 1) BY <4>1, Layout
        <5>3. \A j, k \in {2 * s, 2 * s + 1} : BlockCol(j) # CodeCol(k) BY <4>1, Layout
        <5> QED BY <5>1, <5>2, <5>3
      <4>3. /\ SectorData(s, d)[BlockCol(2 * s)] = d[1]
            /\ SectorData(s, d)[CodeCol(2 * s)] = Compute(d[1])
        BY <4>1, <4>2, Layout DEF SectorData
      <4>4. /\ SectorData(s, d)[BlockCol(2 * s + 1)] = d[2]
            /\ SectorData(s, d)[CodeCol(2 * s + 1)] = Compute(d[2])
        BY <4>1, <4>2, Layout DEF SectorData
      <4>5. CASE i = 2 * s
        <5>1. x = d[1] BY <3>3, <4>1, <4>5
        <5> QED BY <4>3, <4>5, <5>1
      <4>6. CASE i = 2 * s + 1
        <5>1. x = d[2] BY <3>3, <4>1, <4>6
        <5> QED BY <4>4, <4>6, <5>1
      <4> QED BY <4>1, <4>5, <4>6
    <3>5. /\ array'[q][b] = array[q][b] \intersect x
          /\ array'[q][e] = array[q][e] \intersect Compute(x)
      BY <1>8, <2>1, <2>7, <3>1, <3>4
    <3>6. SymDiff(array[q][b], Bits) \subseteq Changed(q, b) BY <2>4, <3>1, <3>2
    <3>7. SymDiff(array[q][e], CodeBits) \subseteq Changed(q, e)
      BY <2>4, <3>1, <3>2, ErasedCode
    <3>8. Compute(x) \subseteq CodeBits BY CodeType
    <3> HIDE DEF b, e
    <3>9. SymDiff(array[q][b] \intersect x, x) \subseteq Changed(q, b)
      BY <2>3, <3>6, CellFilled
    <3>10. SymDiff(array[q][e] \intersect Compute(x), Compute(x)) \subseteq Changed(q, e)
      BY <2>3, <3>7, <3>8, CellFilled
    <3>11. Wanted(st)'[q][i] = x BY <3>1, <3>3
    <3> QED BY <3>5, <3>9, <3>10, <3>11 DEF b, e
  <2> QED BY <2>5, <2>6, <2>7
<1>10. \A i \in Blocks : BlockCol(i) \in Columns /\ CodeCol(i) \in Columns BY Layout
<1> QED BY <1>6, <1>9, <1>10 DEF Told

LEMMA FillDone ==
    ASSUME TypeInv, Filling, ChipDone
    PROVE  Running'
<1>1. cmd.op = "fillsect" /\ CommandOK(cmd) BY DEF Filling
<1>2. PICK p \in Pages : p = cmd.page BY <1>1 DEF CommandOK
<1>3. PICK s \in Sectors : s = cmd.sect BY <1>1 DEF CommandOK
<1>4. PICK d : d = cmd.data OBVIOUS
<1>5. PICK P : P = NandWriteSector(p, s, d) OBVIOUS
<1>6. PICK k \in 1 .. 13 : At(P, k) /\ FillStage(p, s, d, k)
  BY <1>2, <1>3, <1>4, <1>5 DEF Filling
<1>7. chip.busy BY DEF ChipDone
<1>8. k = 10 BY <1>6, <1>7 DEF FillStage
<1>9. /\ chip.mode = "PROGRAM_PAGE_CONFIRM" /\ chip.row = p /\ chip.reg = SectorData(s, d)
      /\ (sel <=> TRUE) /\ Told(want)
  BY <1>6, <1>7, <1>8 DEF FillStage
<1>10. UNCHANGED <<cmd, todo, sel, want>> /\ ~chip'.busy BY DoneType DEF driver
<1>11. ChipOK BY DEF TypeInv
<1>12. PICK st \in {"ok", "fail"} :
           /\ chip' = [chip EXCEPT !.busy = FALSE, !.status = st]
           /\ IF st = "ok" THEN array' = Programmed(array) ELSE array' = array
  BY <1>9 DEF ChipDone
<1>13. /\ chip'.mode = chip.mode /\ chip'.row = chip.row /\ chip'.status = st
       /\ chip'.reg = chip.reg
  BY <1>11, <1>12 DEF ChipOK
<1>14. flips' = flips BY <1>9 DEF ChipDone
<1>15. Told(Wanted(st))'
  <2>1. IF st = "ok"
            THEN array' = [array EXCEPT ![p] =
                              [c \in Columns |-> @[c] \intersect SectorData(s, d)[c]]]
            ELSE array' = array
    BY <1>9, <1>12 DEF Programmed
  <2>2. UNCHANGED <<cmd, want, flips>> BY <1>10, <1>14
  <2> QED BY <1>1, <1>2, <1>3, <1>4, <1>9, <2>1, <2>2, FillTold
<1>16. Told(Wanted(chip.status))'
  <2>1. Wanted(chip.status)' = Wanted(st)' BY <1>13 DEF Wanted
  <2> QED BY <1>15, <2>1 DEF Told
<1>17. FillStage(p, s, d, k)' BY <1>8, <1>9, <1>10, <1>13, <1>16 DEF FillStage
<1>18. At(P, k)' BY <1>6, <1>10 DEF At
<1>19. Filling' BY <1>1, <1>2, <1>3, <1>4, <1>5, <1>10, <1>17, <1>18 DEF Filling, CommandOK
<1> QED BY <1>19 DEF Running

LEMMA DoneStep ==
    ASSUME TypeInv, Running, ChipDone
    PROVE  TypeInv' /\ Running'
<1>1. TypeInv' BY DoneType
<1>2. chip.busy BY DEF ChipDone
<1>3. ~Resting BY <1>2 DEF Resting
<1>4. Identifying => ~chip.busy BY DEF Identifying, IdStage
<1> QED BY <1>1, <1>2, <1>3, <1>4, ResetDone, PageDone, ReadDone, ScanDone, EraseDone,
           FillDone DEF Running

-----------------------------------------------------------------------------
(* The invariant is kept: a command is given, a bit changes *)

\* While cycles are left, a command is running.
LEMMA AtRest ==
    ASSUME TypeInv, Running, todo = <<>>
    PROVE  Resting
<1>1. ASSUME NEW P, IsSeq(P), NEW k \in 1 .. Len(P), At(P, k) PROVE FALSE
  BY <1>1, NextCycle
<1>2. ~Resetting BY <1>1, ResetCycles DEF Resetting
<1>3. ~Identifying BY <1>1, IdCycles DEF Identifying
<1>4. ~ReadingPage
  <2>1. \A p : IsSeq(NandReadPage(p)) /\ Len(NandReadPage(p)) = 9 BY PageCycles
  <2> QED BY <1>1, <2>1 DEF ReadingPage
<1>5. ~Reading
  <2>1. \A p, c : IsSeq(NandRead(p, c)) /\ Len(NandRead(p, c)) = 12 BY CellCycles
  <2> QED BY <1>1, <2>1 DEF Reading
<1>6. ~Scanning
  <2>1. \A p : IsSeq(ScanPage(p)) /\ Len(ScanPage(p)) = 13 BY ScanCycles
  <2> QED BY <1>1, <2>1 DEF Scanning
<1>7. ~Erasing
  <2>1. \A b : IsSeq(NandErase(b)) /\ Len(NandErase(b)) = 8 BY EraseCycles
  <2> QED BY <1>1, <2>1 DEF Erasing
<1>8. ~Filling
  <2>1. \A p, s, d : IsSeq(NandWriteSector(p, s, d)) /\ Len(NandWriteSector(p, s, d)) = 13
    BY FillLength
  <2> QED BY <1>1, <2>1 DEF Filling
<1> QED BY <1>2, <1>3, <1>4, <1>5, <1>6, <1>7, <1>8 DEF Running

LEMMA GiveStep ==
    ASSUME TypeInv, Running, NEW c \in Commands, Give(c)
    PROVE  TypeInv' /\ Running'
<1>1. Resting BY AtRest DEF Give
<1>2. CommandOK(c) BY NandAssumption
<1>3. /\ cmd' = c /\ todo' = Program(c) /\ bad' = {}
      /\ UNCHANGED <<sel, chip, array, want, flips>>
  BY DEF Give
<1>4. TypeInv'
  <2>1. ChipOK' /\ ArrayOK' /\ WantOK(want)' BY <1>3 DEF TypeInv, ChipOK, ArrayOK, WantOK
  <2> QED BY <1>3, <2>1 DEF TypeInv
<1>5. ~sel' /\ ~chip'.busy BY <1>1, <1>3 DEF Resting
<1>6. Told(want)' BY <1>1, <1>3, ToldKept DEF Resting
<1>7. CommandOK(cmd)' BY <1>2, <1>3 DEF CommandOK
<1>8. ASSUME NEW P, IsSeq(P), todo' = P PROVE At(P, 1)' BY <1>8, FirstCycle DEF At
<1>9. CASE c.op = "reset"
  <2>1. todo' = NandReset BY <1>3, <1>9 DEF Program
  <2>2. At(NandReset, 1)' BY <1>8, <2>1, ResetCycles
  <2>3. ResetStage(1)' /\ 1 \in 1 .. 4 BY <1>5 DEF ResetStage
  <2>4. Resetting' BY <1>3, <1>6, <1>9, <2>2, <2>3 DEF Resetting
  <2> QED BY <1>4, <2>4 DEF Running
<1>10. CASE c.op = "readid"
  <2>1. todo' = NandReadId BY <1>3, <1>10 DEF Program
  <2>2. At(NandReadId, 1)' BY <1>8, <2>1, IdCycles
  <2>3. IdStage(1)' /\ 1 \in 1 .. 7 BY <1>5 DEF IdStage
  <2>4. Identifying' BY <1>3, <1>6, <1>10, <2>2, <2>3 DEF Identifying
  <2> QED BY <1>4, <2>4 DEF Running
<1>11. CASE c.op = "readpage"
  <2>1. PICK P : P = NandReadPage(c.page) OBVIOUS
  <2>2. todo' = P BY <1>3, <1>11, <2>1 DEF Program
  <2>3. At(P, 1)' BY <1>8, <2>1, <2>2, PageCycles
  <2>4. PageStage(c.page, 1)' /\ 1 \in 1 .. 9 BY <1>5 DEF PageStage, LoadStage
  <2>5. ReadingPage' BY <1>3, <1>6, <1>7, <1>11, <2>1, <2>3, <2>4 DEF ReadingPage
  <2> QED BY <1>4, <2>5 DEF Running
<1>12. CASE c.op = "read"
  <2>1. PICK P : P = NandRead(c.page, c.col) OBVIOUS
  <2>2. todo' = P BY <1>3, <1>12, <2>1 DEF Program
  <2>3. At(P, 1)' BY <1>8, <2>1, <2>2, CellCycles
  <2>4. CellStage(c.page, c.col, 1)' /\ 1 \in 1 .. 12 BY <1>5 DEF CellStage, LoadStage
  <2>5. Reading' BY <1>3, <1>6, <1>7, <1>12, <2>1, <2>3, <2>4 DEF Reading
  <2> QED BY <1>4, <2>5 DEF Running
<1>13. CASE c.op = "bbscan"
  <2>1. PICK n \in Pages : n = 0 BY NandAssumption DEF Pages
  <2>2. PICK P : P = ScanPage(n) OBVIOUS
  <2>3. todo' = P BY <1>3, <1>13, <2>1, <2>2 DEF Program
  <2>4. At(P, 1)' BY <1>8, <2>2, <2>3, ScanCycles
  <2>5. CellStage(n, MarkCol, 1)' /\ 1 \in 1 .. 13 BY <1>5 DEF CellStage, LoadStage
  <2>6. bad' = {p \in 0 .. n - 1 : array'[p][MarkCol] # {1}} BY <1>3, <2>1
  <2>7. Scanning' BY <1>3, <1>6, <1>13, <2>2, <2>4, <2>5, <2>6 DEF Scanning
  <2> QED BY <1>4, <2>7 DEF Running
<1>14. CASE c.op = "fillsect"
  <2>1. PICK P : P = NandWriteSector(c.page, c.sect, c.data) OBVIOUS
  <2>2. todo' = P BY <1>3, <1>14, <2>1 DEF Program
  <2>3. At(P, 1)'
    <3>1. IsSeq(P) BY <2>1, FillLength
    <3> QED BY <1>8, <2>2, <3>1
  <2>4. FillStage(c.page, c.sect, c.data, 1)' /\ 1 \in 1 .. 13 BY <1>5, <1>6 DEF FillStage
  <2>5. Filling' BY <1>3, <1>7, <1>14, <2>1, <2>3, <2>4 DEF Filling
  <2> QED BY <1>4, <2>5 DEF Running
<1>15. CASE c.op = "eraseblock" /\ (c.block \in Protected => c.yes)
  <2>1. PICK P : P = NandErase(c.block) OBVIOUS
  <2>2. todo' = P BY <1>3, <1>15, <2>1 DEF Program
  <2>3. At(P, 1)' BY <1>8, <2>1, <2>2, EraseCycles
  <2>4. EraseStage(c.block, 1)' /\ 1 \in 1 .. 8 BY <1>5, <1>6 DEF EraseStage
  <2>5. Erasing' BY <1>3, <1>7, <1>15, <2>1, <2>3, <2>4 DEF Erasing
  <2> QED BY <1>4, <2>5 DEF Running
<1>16. CASE c.op = "eraseblock" /\ ~(c.block \in Protected => c.yes)
  <2>1. todo' = <<>> BY <1>3, <1>16 DEF Program
  <2>2. PageExact' /\ RawExact' BY <1>3, <1>16, NotReading
  <2>3. Resting' BY <1>5, <1>6, <2>1, <2>2 DEF Resting
  <2> QED BY <1>4, <2>3 DEF Running
<1> QED BY <1>2, <1>9, <1>10, <1>11, <1>12, <1>13, <1>14, <1>15, <1>16 DEF CommandOK

LEMMA FlipStep ==
    ASSUME TypeInv, Running, NEW f \in Weak, Flip(f)
    PROVE  TypeInv' /\ Running'
<1>1. Resting BY AtRest DEF Flip
<1>2. /\ cmd' = [op |-> "none"] /\ todo' = <<>>
      /\ flips' = flips \union {f}
      /\ array' = [array EXCEPT ![f[1]][f[2]] = SymDiff(@, {f[3]})]
      /\ UNCHANGED <<bad, sel, chip, want>>
  BY DEF Flip
<1>3. f = <<f[1], f[2], f[3]>> /\ f[1] \in Pages /\ f[2] \in Columns /\ f[3] \in Ones(f[2])
  BY NandAssumption
<1>4. PICK p \in Pages, c \in Columns : f[1] = p /\ f[2] = c /\ f[3] \in Ones(c) BY <1>3
<1>5. ArrayOK /\ WantOK(want) /\ ChipOK BY DEF TypeInv
<1>6. /\ array' = [q \in Pages |-> array'[q]]
      /\ \A q \in Pages : q # p => array'[q] = array[q]
      /\ array'[p] = [array[p] EXCEPT ![c] = SymDiff(@, {f[3]})]
  BY <1>2, <1>4, <1>5 DEF ArrayOK
<1>7. /\ array'[p] = [k \in Columns |-> array'[p][k]]
      /\ \A k \in Columns : k # c => array'[p][k] = array[p][k]
      /\ array'[p][c] = SymDiff(array[p][c], {f[3]})
  BY <1>5, <1>6 DEF ArrayOK, PageOK
<1>8. array'[p][c] \subseteq Ones(c) BY <1>4, <1>5, <1>7 DEF ArrayOK, PageOK, SymDiff
<1>9. ArrayOK'
  <2>1. \A k \in Columns : array'[p][k] \subseteq Ones(k)
    BY <1>5, <1>7, <1>8 DEF ArrayOK, PageOK
  <2>2. PageOK(array'[p]) BY <1>7, <2>1 DEF PageOK
  <2>3. \A q \in Pages : PageOK(array'[q]) BY <1>5, <1>6, <2>2 DEF ArrayOK
  <2> QED BY <1>6, <2>3 DEF ArrayOK
<1>10. TypeInv'
  <2>1. IsFiniteSet(flips') BY <1>2, FS_AddElement DEF TypeInv
  <2>2. ChipOK' /\ WantOK(want)' BY <1>2, <1>5 DEF ChipOK, WantOK
  <2> QED BY <1>2, <1>9, <2>1, <2>2 DEF TypeInv
<1>11. \A q \in Pages, k \in Columns : Changed(q, k) \subseteq Changed(q, k)'
  BY <1>2 DEF Changed
<1>12. f[3] \in Changed(p, c)' BY <1>2, <1>4 DEF Changed
<1>13. ASSUME NEW q \in Pages, NEW k \in Columns, NEW w,
              SymDiff(array[q][k], w) \subseteq Changed(q, k)
       PROVE  SymDiff(array'[q][k], w) \subseteq Changed(q, k)'
  <2>1. CASE q = p /\ k = c
    <3>1. array'[q][k] = SymDiff(array[q][k], {f[3]}) /\ f[3] \in Changed(q, k)'
      BY <1>7, <1>12, <2>1
    <3>2. SymDiff(array[q][k], w) \subseteq Changed(q, k)' BY <1>11, <1>13
    <3> QED BY <3>1, <3>2 DEF SymDiff
  <2>2. CASE ~(q = p /\ k = c)
    <3>1. array'[q][k] = array[q][k] BY <1>6, <1>7, <2>2
    <3> QED BY <1>11, <1>13, <3>1
  <2> QED BY <2>1, <2>2
<1>14. Told(want)'
  <2>1. ASSUME NEW q \in Pages, NEW i \in Blocks, want[q][i] # Unknown
        PROVE  /\ SymDiff(array'[q][BlockCol(i)], want[q][i]) \subseteq Changed(q, BlockCol(i))'
               /\ SymDiff(array'[q][CodeCol(i)], Compute(want[q][i]))
                      \subseteq Changed(q, CodeCol(i))'
    <3>1. BlockCol(i) \in Columns /\ CodeCol(i) \in Columns BY Layout
    <3>2. /\ SymDiff(array[q][BlockCol(i)], want[q][i]) \subseteq Changed(q, BlockCol(i))
          /\ SymDiff(array[q][CodeCol(i)], Compute(want[q][i])) \subseteq Changed(q, CodeCol(i))
      BY <1>1, <2>1 DEF Resting, Told
    <3> QED BY <1>13, <3>1, <3>2
  <2> QED BY <1>2, <2>1 DEF Told
<1>15. ~sel' /\ ~chip'.busy BY <1>1, <1>2 DEF Resting
<1>16. PageExact' /\ RawExact' BY <1>2, NotReading
<1>17. Resting' BY <1>2, <1>14, <1>15, <1>16 DEF Resting
<1> QED BY <1>10, <1>17 DEF Running

LEMMA InitOK ==
    ASSUME Init
    PROVE  TypeInv /\ Running
<1>1. 0 \in Pages BY NandAssumption DEF Pages
<1>2. \A p \in Pages : /\ PageOK(Marked(p))
                       /\ \A c \in Columns : c # MarkCol => Marked(p)[c] = Ones(c)
  BY CellWidths DEF Marked, Erased, PageOK
<1>3. array = [p \in Pages |-> Marked(p)] BY DEF Init
<1>4. ArrayOK BY <1>2, <1>3 DEF ArrayOK
<1>5. ChipOK
  <2>1. chip = [mode |-> Idle, busy |-> FALSE, col |-> 0, row |-> 0,
                reg |-> Erased, status |-> "ok"]
    BY DEF Init
  <2>2. Idle \in Modes BY ModesAre DEF Idle
  <2>3. 0 \in StartCols BY DEF StartCols, Sectors
  <2> QED BY <1>1, <2>1, <2>2, <2>3, ErasedOK DEF ChipOK
<1>6. want = [p \in Pages |-> [i \in Blocks |-> Bits]] BY DEF Init
<1>7. WantOK(want) BY <1>6 DEF WantOK
<1>8. TypeInv BY <1>4, <1>5, <1>7, FS_EmptySet DEF TypeInv, Init
<1>9. Told(want)
  <2>1. ASSUME NEW p \in Pages, NEW i \in Blocks
        PROVE  /\ SymDiff(array[p][BlockCol(i)], want[p][i]) = {}
               /\ SymDiff(array[p][CodeCol(i)], Compute(want[p][i])) = {}
    <3>1. /\ BlockCol(i) \in Columns /\ BlockCol(i) # MarkCol
          /\ CodeCol(i) \in Columns /\ CodeCol(i) # MarkCol
      BY DEF Columns, Blocks, BlockCol, CodeCol, MarkCol, PAGE_SIZE
    <3>2. array[p][BlockCol(i)] = Bits /\ array[p][CodeCol(i)] = CodeBits
      BY <1>2, <1>3, <3>1, CellWidths
    <3>3. want[p][i] = Bits BY <1>6
    <3>4. SymDiff(Bits, Bits) = {} /\ SymDiff(CodeBits, CodeBits) = {} BY DEF SymDiff
    <3> QED BY <3>2, <3>3, <3>4, ErasedCode
  <2> QED BY <2>1 DEF Told
<1>10. cmd.op = "none" BY DEF Init
<1>11. PageExact /\ RawExact BY <1>10 DEF PageExact, RawExact, Finished
<1>12. ~chip.busy BY DEF Init
<1>13. Resting BY <1>9, <1>11, <1>12 DEF Resting, Init
<1> QED BY <1>8, <1>13 DEF Running

\* Nothing that the invariant speaks of changes.
LEMMA Stutter ==
    ASSUME TypeInv, Running, UNCHANGED vars
    PROVE  TypeInv' /\ Running'
<1>1. /\ UNCHANGED <<cmd, todo, buf, cell, verdicts, bad>>
      /\ UNCHANGED <<sel, chip, array, want, flips>>
  BY DEF vars
<1>2. TypeInv' BY <1>1 DEF TypeInv, ChipOK, ArrayOK, WantOK
<1>3. (Told(want) <=> Told(want)') /\ (Told(Wanted(chip.status)) => Told(Wanted(chip.status))')
  BY <1>1, WantedKept DEF Told, Changed
<1>4. \A P, k : At(P, k) => At(P, k)' BY <1>1 DEF At
<1>5. Resting => Resting' BY <1>1, <1>3 DEF Resting, PageExact, RawExact, Finished, Faults
<1>6. Resetting => Resetting' BY <1>1, <1>3, <1>4 DEF Resetting, ResetStage
<1>7. Identifying => Identifying' BY <1>1, <1>3, <1>4 DEF Identifying, IdStage
<1>8. \A p, k : LoadStage(p, k) => LoadStage(p, k)' BY <1>1 DEF LoadStage
<1>9. \A p, k : PageStage(p, k) => PageStage(p, k)' BY <1>1, <1>8 DEF PageStage
<1>10. \A p, c, k : CellStage(p, c, k) => CellStage(p, c, k)' BY <1>1, <1>8 DEF CellStage
<1>11. ReadingPage => ReadingPage' BY <1>1, <1>3, <1>4, <1>9 DEF ReadingPage, CommandOK
<1>12. Reading => Reading' BY <1>1, <1>3, <1>4, <1>10 DEF Reading, CommandOK
<1>13. Scanning => Scanning' BY <1>1, <1>3, <1>4, <1>10 DEF Scanning
<1>14. \A b, k : EraseStage(b, k) => EraseStage(b, k)' BY <1>1, <1>3 DEF EraseStage
<1>15. \A p, s, d, k : FillStage(p, s, d, k) => FillStage(p, s, d, k)'
  BY <1>1, <1>3 DEF FillStage
<1>16. Erasing => Erasing' BY <1>1, <1>4, <1>14 DEF Erasing, CommandOK
<1>17. Filling => Filling' BY <1>1, <1>4, <1>15 DEF Filling, CommandOK
<1> QED BY <1>2, <1>5, <1>6, <1>7, <1>11, <1>12, <1>13, <1>16, <1>17 DEF Running

LEMMA Kept ==
    ASSUME IInv, [Next]_vars
    PROVE  IInv'
<1>1. TypeInv /\ Running BY DEF IInv
<1>2. CASE DriverStep
  <2>1. todo # <<>>
    BY <1>2 DEF DriverStep, DoSelect, DoWrite, DoReady, DoRead, DoValidate, DoCount, Take
  <2>2. ~Resting BY <2>1 DEF Resting
  <2> QED BY <1>1, <1>2, <2>2, ResetStep, IdStep, PageStep, ReadStep, ScanStep, EraseStep,
             FillStep DEF Running, IInv
<1>3. CASE ChipDone BY <1>1, <1>3, DoneStep DEF IInv
<1>4. ASSUME NEW c \in Commands, Give(c) PROVE IInv' BY <1>1, <1>4, GiveStep DEF IInv
<1>5. ASSUME NEW f \in Weak, Flip(f) PROVE IInv' BY <1>1, <1>5, FlipStep DEF IInv
<1>6. CASE UNCHANGED vars BY <1>1, <1>6, Stutter DEF IInv
<1> QED BY <1>2, <1>3, <1>4, <1>5, <1>6 DEF Next

\* The invariant of the driver and the chip: before each bus cycle of a command,
\* what the driver has brought the chip into (nand.c).
THEOREM Invariant == Spec => []IInv
<1>1. Init => IInv BY InitOK DEF IInv
<1>2. IInv /\ [Next]_vars => IInv' BY Kept
<1> QED BY <1>1, <1>2, PTL DEF Spec

\* The chip is left deselected and at rest by every command, and its registers
\* and its memory hold what they can (nand_select, nand_deselect).
THEOREM TypeCorrect == Spec => []TypeOK
<1>1. ASSUME IInv PROVE TypeOK
  <2>1. TypeInv /\ Running BY <1>1 DEF IInv
  <2>2. todo = <<>> => ~sel /\ ~chip.busy BY <2>1, AtRest DEF Resting
  <2>3. /\ chip.mode \in Modes /\ (chip.busy => chip.mode \in Works)
        /\ chip.row \in Pages /\ chip.col \in {s * 512 : s \in Sectors} \union Columns
    BY <2>1 DEF TypeInv, ChipOK, StartCols
  <2>4. \A p \in Pages, c \in Columns :
            array[p][c] \subseteq Ones(c) /\ chip.reg[c] \subseteq Ones(c)
    BY <2>1 DEF TypeInv, ChipOK, ArrayOK, PageOK
  <2>5. \A p \in Pages, i \in Blocks : want[p][i] = Unknown \/ want[p][i] \subseteq Bits
    BY <2>1 DEF TypeInv, WantOK
  <2>6. flips \subseteq Weak /\ bad \subseteq Pages BY <2>1 DEF TypeInv
  <2> QED BY <2>2, <2>3, <2>4, <2>5, <2>6 DEF TypeOK
<1> QED BY <1>1, Invariant, PTL

\* nand_read_page gives back what was written, corrects one fault of a block and
\* its code and reports two; nand_read and cmd_nand_bbscan give what the pages
\* hold (nand.c, hamming.c, console.c).
THEOREM ReadsBackAlways == Spec => []ReadsBack
<1>1. ASSUME IInv PROVE ReadsBack
  <2>1. CASE todo = <<>> BY <1>1, <2>1, AtRest DEF IInv, Resting, ReadsBack
  <2>2. CASE todo # <<>> BY <2>2 DEF ReadsBack, PageExact, RawExact, Finished
  <2> QED BY <2>1, <2>2
<1> QED BY <1>1, Invariant, PTL

\* What the chip can be at when it is busy
LEMMA WorkOf ==
    ASSUME TypeInv, Running, chip.busy
    PROVE  \/ chip.mode \in {"RESET", "READ_CONFIRM"}
           \/ Erasing /\ chip.mode = "BLOCK_ERASE_CONFIRM"
                      /\ chip.row = cmd.block * PagesPerBlock
           \/ Filling /\ chip.mode = "PROGRAM_PAGE_CONFIRM"
                      /\ chip.row = cmd.page /\ chip.reg = SectorData(cmd.sect, cmd.data)
<1>1. ASSUME NEW p, NEW k \in 1 .. 7, LoadStage(p, k) PROVE chip.mode = "READ_CONFIRM"
  BY <1>1 DEF LoadStage
<1>2. ~Resting /\ ~Identifying BY DEF Resting, Identifying, IdStage
<1>3. Resetting => chip.mode = "RESET" BY DEF Resetting, ResetStage
<1>4. ReadingPage => chip.mode = "READ_CONFIRM"
  <2> HAVE ReadingPage
  <2>1. PICK k \in 1 .. 9 : PageStage(cmd.page, k) BY DEF ReadingPage
  <2>2. k \in 1 .. 7 /\ LoadStage(cmd.page, k) BY <2>1 DEF PageStage
  <2> QED BY <1>1, <2>2
<1>5. Reading => chip.mode = "READ_CONFIRM"
  <2> HAVE Reading
  <2>1. PICK k \in 1 .. 12 : CellStage(cmd.page, cmd.col, k) BY DEF Reading
  <2>2. k \in 1 .. 7 /\ LoadStage(cmd.page, k) BY <2>1 DEF CellStage
  <2> QED BY <1>1, <2>2
<1>6. Scanning => chip.mode = "READ_CONFIRM"
  <2> HAVE Scanning
  <2>1. PICK n \in Pages, k \in 1 .. 13 : CellStage(n, MarkCol, k) BY DEF Scanning
  <2>2. k \in 1 .. 7 /\ LoadStage(n, k) BY <2>1 DEF CellStage
  <2> QED BY <1>1, <2>2
<1>7. Erasing => /\ chip.mode = "BLOCK_ERASE_CONFIRM"
                 /\ chip.row = cmd.block * PagesPerBlock
  <2> HAVE Erasing
  <2>1. PICK k \in 1 .. 8 : EraseStage(cmd.block, k) BY DEF Erasing
  <2>2. k = 5 BY <2>1 DEF EraseStage
  <2> QED BY <2>1, <2>2 DEF EraseStage
<1>8. Filling => /\ chip.mode = "PROGRAM_PAGE_CONFIRM"
                 /\ chip.row = cmd.page /\ chip.reg = SectorData(cmd.sect, cmd.data)
  <2> HAVE Filling
  <2>1. PICK k \in 1 .. 13 : FillStage(cmd.page, cmd.sect, cmd.data, k) BY DEF Filling
  <2>2. k = 10 BY <2>1 DEF FillStage
  <2> QED BY <2>1, <2>2 DEF FillStage
<1> QED BY <1>2, <1>3, <1>4, <1>5, <1>6, <1>7, <1>8 DEF Running

\* The cells a finishing chip changes are those of the command
LEMMA DoneTarget ==
    ASSUME TypeInv, Running, ChipDone, NEW p \in Pages, NEW c \in Columns \ Target(p)
    PROVE  array'[p][c] = array[p][c]
<1>1. chip.busy BY DEF ChipDone
<1>2. CASE array' = array BY <1>2
<1>3. CASE chip.mode = "PROGRAM_PAGE_CONFIRM" /\ array' = Programmed(array)
  <2>1. /\ Filling /\ chip.row = cmd.page /\ chip.reg = SectorData(cmd.sect, cmd.data)
    BY <1>1, <1>3, WorkOf
  <2>2. cmd.op = "fillsect" /\ CommandOK(cmd) BY <2>1 DEF Filling
  <2>3. PICK q \in Pages : q = cmd.page BY <2>2 DEF CommandOK
  <2>4. PICK s \in Sectors : s = cmd.sect BY <2>2 DEF CommandOK
  <2>5. ArrayOK BY DEF TypeInv
  <2>6. array' = [array EXCEPT ![q] =
                     [k \in Columns |-> @[k] \intersect SectorData(s, cmd.data)[k]]]
    BY <1>3, <2>1, <2>3, <2>4 DEF Programmed
  <2>7. CASE p # q BY <2>5, <2>6, <2>7 DEF ArrayOK
  <2>8. CASE p = q
    <3>1. Target(p) = DataCols(s) \union {CodeCol(2 * s), CodeCol(2 * s + 1)}
      BY <2>2, <2>3, <2>4, <2>8 DEF Target
    <3>2. /\ c # BlockCol(2 * s) /\ c # BlockCol(2 * s + 1)
          /\ c # CodeCol(2 * s) /\ c # CodeCol(2 * s + 1)
      BY <3>1 DEF DataCols
    <3>3. SectorData(s, cmd.data)[c] = Ones(c) BY <3>2 DEF SectorData
    <3>4. array'[p][c] = array[p][c] \intersect SectorData(s, cmd.data)[c]
      BY <2>5, <2>6, <2>8 DEF ArrayOK
    <3>5. array[p][c] \subseteq Ones(c) BY <2>5 DEF ArrayOK, PageOK
    <3> QED BY <3>3, <3>4, <3>5
  <2> QED BY <2>7, <2>8
<1>4. CASE chip.mode = "BLOCK_ERASE_CONFIRM" /\ array' = BlockErased(array)
  <2>1. Erasing /\ chip.row = cmd.block * PagesPerBlock BY <1>1, <1>4, WorkOf
  <2>2. cmd.op = "eraseblock" /\ CommandOK(cmd) /\ (cmd.block \in Protected => cmd.yes)
    BY <2>1 DEF Erasing
  <2>3. PICK b \in Nat : b = cmd.block /\ b * PagesPerBlock \in Pages BY <2>2 DEF CommandOK
  <2>4. Block(chip.row) = b BY <2>1, <2>3, NandAssumption DEF Block
  <2>5. CASE Block(p) = b
    <3>1. Target(p) = Columns BY <2>2, <2>3, <2>5 DEF Target
    <3> QED BY <3>1
  <2>6. CASE Block(p) # b BY <1>4, <2>4, <2>6 DEF BlockErased
  <2> QED BY <2>5, <2>6
<1> QED BY <1>2, <1>3, <1>4 DEF ChipDone

\* No address and no register left from an earlier command makes the chip change
\* a cell outside the sector or the block of the command, nor any of a protected
\* block without a yes (nand_write_sector, nand_erase, cmd_nand_eraseblock).
THEOREM OnlyTargetAlways == Spec => OnlyTarget
<1>1. ASSUME IInv, [Next]_vars, chip.busy, ~chip'.busy,
             NEW p \in Pages, NEW c \in Columns \ Target(p)
      PROVE  array'[p][c] = array[p][c]
  <2>1. ~DriverStep
    BY <1>1 DEF DriverStep, DoSelect, DoWrite, DoReady, DoRead, DoValidate, DoCount
  <2>2. ChipDone BY <1>1, <2>1 DEF Next, Give, Flip, vars
  <2> QED BY <1>1, <2>2, DoneTarget DEF IInv
<1>2. IInv /\ [Next]_vars =>
          [chip.busy /\ ~chip'.busy =>
              \A p \in Pages : \A c \in Columns \ Target(p) : array'[p][c] = array[p][c]]_vars
  BY <1>1
<1> QED BY <1>2, Invariant, PTL DEF Spec, OnlyTarget
=============================================================================
