------------------------------ MODULE Hamming ------------------------------
(***************************************************************************)
(* The error-correcting code of dev/hamming.c: a code computed for a block *)
(* of bits, and the correction of the block with it. A bit's index is a    *)
(* function from its binary digits, 8 of the byte's index and 3 of the     *)
(* bit's within the byte, so that the code works alike for any number of   *)
(* digits. A block and a code are the sets of their bits that are one.     *)
(***************************************************************************)
EXTENDS Integers, FiniteSets, FiniteSetsExt

CONSTANT Digits     \* of a bit's index: 1 .. 11 in the code

\* 11 is odd and is not 1: two errors never look like one, nor an error of
\* the data like one of the code.
ASSUMPTION DigitsAssumption ==
    /\ IsFiniteSet(Digits)
    /\ Cardinality(Digits) % 2 = 1
    /\ Cardinality(Digits) > 1
    /\ Digits \subseteq Nat \ {0}

Bits == [Digits -> {0, 1}]

\* Px' collects the bits whose digit x is one, Px those whose digit x is zero.
Groups == Digits \X {0, 1}
PadBits == {0} \X {0, 1}
CodeBits == Groups \union PadBits

Odd(S) == Cardinality(S) % 2 = 1
Members(g, block) == {b \in block : b[g[1]] = g[2]}

\* hamming_compute_256. The code is stored inverted, pad bits included: an
\* erased block has the code of an erased spare area.
Compute(block) == {g \in Groups : ~Odd(Members(g, block))} \union PadBits

\* The bit that the odd half of a correction code names
Named(diff) == [d \in Digits |-> IF <<d, 1>> \in diff THEN 1 ELSE 0]

\* Fault: any difference that is not one bit of the code is taken for one of
\* the data.
VerdictEager(original, computed) ==
    LET n == Cardinality(SymDiff(original, computed))
    IN  CASE n = 0 -> "valid" [] n = 1 -> "ecc" [] OTHER -> "single"

\* hamming_correct_256: what it returns, and the block it leaves
Verdict(original, computed) ==
    LET diff == SymDiff(original, computed)
        n == Cardinality(diff)
    IN  IF n = 0 THEN "valid"
        ELSE IF n = Cardinality(Digits) THEN "single"
        ELSE IF n = 1 THEN "ecc" ELSE "multi"

Corrected(block, original, computed) ==
    IF Verdict(original, computed) = "single"
        THEN SymDiff(block, {Named(SymDiff(original, computed))})
        ELSE block
=============================================================================
