------------------------------ MODULE NixVector ------------------------------
(***************************************************************************)
(* NixVector: neighbour indices packed into words from the lowest bit up,   *)
(* and read back from the highest bit down.                                  *)
(***************************************************************************)
EXTENDS Integers, Sequences

CONSTANT WordSize   \* bits of a word of a nix-vector, 32 in the code

ASSUME WordAssumption == WordSize \in Nat \ {0}

\* 2 to the power k.
Pow[k \in Nat] == IF k = 0 THEN 1 ELSE 2 * Pow[k - 1]

BitCount(k) == IF k < 2 THEN 1 ELSE CHOOSE b \in 1 .. k : Pow[b - 1] < k /\ k <= Pow[b]

\* Shifts of a word.  A shift by its full width is undefined in C++; the
\* processors the code is built for take the count modulo the width.
ShiftLeft(x, k)  == (x * Pow[k % WordSize]) % Pow[WordSize]
ShiftRight(x, k) == x \div Pow[k % WordSize]

NewVector == [words |-> <<0>>, used |-> 0, current |-> 0, total |-> 0]

\* An index goes into the free bits of the last word, what does not fit into a
\* new one.  The bits ORed together never overlap, hence the sums.
AddNeighborIndex(v, newBits, n) ==
  LET last  == Len(v.words)
      fit   == [v.words EXCEPT ![last] = @ + ShiftLeft(newBits, v.current)]
      whole == [v EXCEPT !.total = @ + n]
  IN  IF v.current + n <= WordSize
      THEN [whole EXCEPT !.words = fit, !.current = @ + n]
      ELSE IF v.current = WordSize
      THEN [whole EXCEPT !.words = Append(@, newBits), !.current = n]
      ELSE [whole EXCEPT !.words = Append(fit, ShiftRight(newBits, WordSize - v.current)),
                         !.current = n - (WordSize - v.current)]

GetRemainingBits(v) == v.total - v.used

\* The n bits below bit rest, from one word or across the border of two.
Extracted(words, rest, n) ==
  LET at    == (rest - 1) \div WordSize
      high  == ShiftLeft(words[at + 1], WordSize - (rest % WordSize))
      spill == n - (rest % WordSize)          \* bits to take from the word below
  IN  IF at > 0 /\ n - 1 > (rest - 1) % WordSize
      THEN ShiftRight(high, WordSize - (rest % WordSize) - spill)
             + ShiftRight(words[at], WordSize - spill)
      ELSE ShiftRight(high, WordSize - n)

\* Mutant of ExtractNeighborIndex: every index is sought in one word.
ExtractFromOneWord(v, n) ==
  LET rest == GetRemainingBits(v)
      high == v.words[(rest - 1) \div WordSize + 1]
  IN  ShiftRight(ShiftLeft(high, WordSize - (rest % WordSize)), WordSize - n)

ExtractNeighborIndex(v, n) == Extracted(v.words, GetRemainingBits(v), n)

\* Mutant of Used: m_used is not advanced.
UsedNot(v, n) == v

Used(v, n) == [v EXCEPT !.used = @ + n]

Word   == 0 .. Pow[WordSize] - 1
Vector == [words : Seq(Word), used : Nat, current : 0 .. WordSize, total : Nat]

\* A vector of whole words, filled up to current in the last one.
IsVector(v) ==
  /\ v \in Vector
  /\ v.total = (Len(v.words) - 1) * WordSize + v.current
  /\ v.used <= v.total
=============================================================================
