------------------------ MODULE NixVectorRoutingProofs ------------------------
(***************************************************************************)
(* Proofs about Ipv4NixVectorRouting and NixVector.  In this order: what a   *)
(* nix-vector gives back of what was put into it; distances in the network;  *)
(* what the breadth-first search finds; where the vector that is built from  *)
(* it leads; and the invariant of the caches and the packets.                *)
(***************************************************************************)
EXTENDS NixVectorRouting, FiniteSetTheorems, WellFoundedInduction, TLAPS

-----------------------------------------------------------------------------
(* Induction and recursion.                                                  *)

Less == {ss \in Nat \X Nat : ss[1] < ss[2]}

\* Induction over the numbers, stated of a set.
LEMMA Inductive ==
  ASSUME NEW S, 0 \in S, \A n \in Nat : n \in S => n + 1 \in S
  PROVE  Nat \subseteq S
<1> DEFINE T == Nat \ S
<1> SUFFICES ASSUME T # {} PROVE FALSE
  OBVIOUS
<1>1. IsWellFoundedOn(Less, Nat)
  BY NatLessThanWellFounded DEF OpToRel, Less
<1>2. T \subseteq Nat
  OBVIOUS
<1>3. PICK x \in T : \A y \in T : ~ (<<y, x>> \in Less)
  <2> HIDE DEF T
  <2> QED
    BY <1>1, <1>2, WFMin
<1>4. x \in Nat /\ x # 0 /\ x \notin S
  OBVIOUS
<1>5. x - 1 \in Nat /\ x - 1 < x /\ (x - 1) + 1 = x
  BY <1>4
<1>6. <<x - 1, x>> \in Less
  BY <1>4, <1>5 DEF Less
<1>7. x - 1 \in S
  BY <1>3, <1>5, <1>6
<1> QED
  BY <1>4, <1>5, <1>7

\* The first n + 1 values of the recursion that starts with a and goes on by F.
Begins(f, n, a, F, S) ==
  /\ f \in [0 .. n -> S]
  /\ f[0] = a
  /\ \A k \in 1 .. n : f[k] = F[<<f[k - 1], k>>]

\* Such beginnings exist, however long.
LEMMA BeginsExist ==
  ASSUME NEW S, NEW a \in S, NEW F \in [S \X Nat -> S], NEW n \in Nat
  PROVE  \E f : Begins(f, n, a, F, S)
<1> DEFINE T == {m \in Nat : \E f : Begins(f, m, a, F, S)}
<1>1. 0 \in T
  <2> DEFINE f == [k \in 0 .. 0 |-> a]
  <2>1. Begins(f, 0, a, F, S)
    BY DEF Begins
  <2> HIDE DEF f
  <2> QED
    BY <2>1
<1>2. ASSUME NEW m \in Nat, m \in T PROVE m + 1 \in T
  <2>1. PICK f : Begins(f, m, a, F, S)
    BY <1>2
  <2> DEFINE g == [k \in 0 .. m + 1 |-> IF k = m + 1 THEN F[<<f[m], m + 1>>] ELSE f[k]]
  <2>2. f \in [0 .. m -> S] /\ f[0] = a /\ \A k \in 1 .. m : f[k] = F[<<f[k - 1], k>>]
    BY <2>1 DEF Begins
  <2>3. f[m] \in S
    BY <2>2
  <2>4. F[<<f[m], m + 1>>] \in S
    BY <2>3
  <2>5. g \in [0 .. m + 1 -> S]
    BY <2>2, <2>4
  <2>6. g[0] = a
    BY <2>2
  <2>7. ASSUME NEW k \in 1 .. m + 1 PROVE g[k] = F[<<g[k - 1], k>>]
    <3>1. CASE k = m + 1
      <4>1. g[k] = F[<<f[m], m + 1>>] /\ g[k - 1] = f[m]
        BY <3>1
      <4> QED
        BY <4>1, <3>1
    <3>2. CASE k # m + 1
      <4>1. k \in 1 .. m /\ g[k] = f[k] /\ g[k - 1] = f[k - 1]
        BY <3>2
      <4> QED
        BY <4>1, <2>2
    <3> QED
      BY <3>1, <3>2
  <2> HIDE DEF g
  <2>8. Begins(g, m + 1, a, F, S)
    BY <2>5, <2>6, <2>7 DEF Begins
  <2> QED
    BY <2>8
<1> HIDE DEF T
<1>3. n \in T
  BY <1>1, <1>2, Inductive
<1> QED
  BY <1>3 DEF T

\* A longer beginning goes on with a shorter one.
LEMMA BeginsAgree ==
  ASSUME NEW S, NEW a, NEW F, NEW m \in Nat, NEW n \in Nat,
         NEW f, NEW g, Begins(f, m, a, F, S), Begins(g, n, a, F, S), n <= m
  PROVE  f[n] = g[n]
<1> DEFINE T == {j \in Nat : j <= n => f[j] = g[j]}
<1>1. 0 \in T
  BY DEF Begins
<1>2. ASSUME NEW j \in Nat, j \in T PROVE j + 1 \in T
  <2>1. SUFFICES ASSUME j + 1 <= n PROVE f[j + 1] = g[j + 1]
    OBVIOUS
  <2>2. f[j] = g[j]
    BY <1>2, <2>1
  <2>3. j + 1 \in 1 .. m /\ j + 1 \in 1 .. n /\ (j + 1) - 1 = j
    BY <2>1
  <2>4. f[j + 1] = F[<<f[(j + 1) - 1], j + 1>>] /\ g[j + 1] = F[<<g[(j + 1) - 1], j + 1>>]
    BY <2>3 DEF Begins
  <2> QED
    BY <2>2, <2>3, <2>4
<1> HIDE DEF T
<1>3. n \in T
  BY <1>1, <1>2, Inductive
<1> QED
  BY <1>3 DEF T

Solves(f, a, F) == f = [k \in Nat |-> IF k = 0 THEN a ELSE F[<<f[k - 1], k>>]]

\* A recursion over the numbers whose step keeps to a set has a solution.
LEMMA Recursion ==
  ASSUME NEW S, NEW a \in S, NEW F \in [S \X Nat -> S]
  PROVE  \E f \in [Nat -> S] : Solves(f, a, F)
<1> DEFINE G(n) == CHOOSE f : Begins(f, n, a, F, S)
<1> DEFINE h == [n \in Nat |-> G(n)[n]]
<1>1. \A n \in Nat : Begins(G(n), n, a, F, S)
  BY BeginsExist
<1> HIDE DEF G
<1>2. \A n \in Nat : G(n)[n] \in S
  BY <1>1 DEF Begins
<1>3. h \in [Nat -> S]
  BY <1>2
<1>4. h[0] = a
  BY <1>1 DEF Begins
<1>5. ASSUME NEW k \in Nat, k # 0 PROVE h[k] = F[<<h[k - 1], k>>]
  <2>1. k - 1 \in Nat /\ k - 1 <= k /\ k - 1 <= k - 1 /\ k \in 1 .. k
    BY <1>5
  <2>2. G(k)[k] = F[<<G(k)[k - 1], k>>]
    BY <1>1, <2>1 DEF Begins
  <2>3. Begins(G(k), k, a, F, S) /\ Begins(G(k - 1), k - 1, a, F, S)
    BY <1>1, <2>1
  <2>4. G(k)[k - 1] = G(k - 1)[k - 1]
    <3>1. PICK j : j = k - 1
      OBVIOUS
    <3>2. PICK f : f = G(k)
      OBVIOUS
    <3>3. PICK g : g = G(j)
      OBVIOUS
    <3>4. /\ j \in Nat /\ j <= k
          /\ Begins(f, k, a, F, S) /\ Begins(g, j, a, F, S)
      BY <2>1, <2>3, <3>1, <3>2, <3>3
    <3>5. f[j] = g[j]
      BY <3>4, BeginsAgree
    <3> QED
      BY <3>1, <3>2, <3>3, <3>5
  <2> QED
    BY <2>1, <2>2, <2>4
<1> HIDE DEF h
<1>6. Solves(h, a, F)
  BY <1>3, <1>4, <1>5 DEF Solves
<1> QED
  BY <1>3, <1>6

-----------------------------------------------------------------------------
(* Powers of two.                                                            *)

\* Pow is the function its definition says.
LEMMA PowDef ==
  /\ Pow \in [Nat -> Nat]
  /\ Pow = [k \in Nat |-> IF k = 0 THEN 1 ELSE 2 * Pow[k - 1]]
<1> DEFINE F == [x \in Nat \X Nat |-> 2 * x[1]]
<1>1. F \in [Nat \X Nat -> Nat]
  OBVIOUS
<1>2. \A i, k \in Nat : F[<<i, k>>] = 2 * i
  OBVIOUS
<1> HIDE DEF F
<1>3. PICK f \in [Nat -> Nat] : Solves(f, 1, F)
  <2> DEFINE S == Nat
  <2>1. 1 \in S /\ F \in [S \X Nat -> S]
    BY <1>1
  <2> HIDE DEF S
  <2>2. \E f \in [Nat -> S] : Solves(f, 1, F)
    BY <2>1, Recursion
  <2> QED
    BY <2>2 DEF S
<1>4. f = [k \in Nat |-> IF k = 0 THEN 1 ELSE 2 * f[k - 1]]
  <2>1. ASSUME NEW k \in Nat PROVE f[k] = IF k = 0 THEN 1 ELSE 2 * f[k - 1]
    <3>1. CASE k = 0
      BY <1>3, <3>1 DEF Solves
    <3>2. CASE k # 0
      <4>1. f[k] = F[<<f[k - 1], k>>]
        BY <1>3, <3>2 DEF Solves
      <4>2. f[k - 1] \in Nat
        BY <3>2
      <4> QED
        BY <4>1, <4>2, <1>2, <3>2
    <3> QED
      BY <3>1, <3>2
  <2> QED
    BY <2>1
<1>5. Pow = [k \in Nat |-> IF k = 0 THEN 1 ELSE 2 * Pow[k - 1]]
  BY <1>4 DEF Pow
<1> DEFINE T == {k \in Nat : Pow[k] \in Nat}
<1>6. 0 \in T
  BY <1>5
<1>7. ASSUME NEW k \in Nat, k \in T PROVE k + 1 \in T
  <2>1. Pow[k + 1] = 2 * Pow[(k + 1) - 1]
    BY <1>5
  <2>2. (k + 1) - 1 = k
    OBVIOUS
  <2> QED
    BY <2>1, <2>2, <1>7
<1>8. Nat \subseteq T
  <2> HIDE DEF T
  <2> QED
    BY <1>6, <1>7, Inductive
<1>9. \A k \in Nat : Pow[k] \in Nat
  BY <1>8
<1> QED
  BY <1>5, <1>9

\* The recursion of Pow.
LEMMA PowStep ==
  /\ Pow[0] = 1
  /\ \A k \in Nat : Pow[k] \in Nat /\ Pow[k + 1] = 2 * Pow[k]
<1>1. Pow[0] = 1
  BY PowDef
<1>2. ASSUME NEW k \in Nat PROVE Pow[k] \in Nat /\ Pow[k + 1] = 2 * Pow[k]
  <2>1. k + 1 \in Nat /\ k + 1 # 0 /\ (k + 1) - 1 = k
    OBVIOUS
  <2>2. Pow[k + 1] = 2 * Pow[(k + 1) - 1]
    BY <2>1, PowDef
  <2> QED
    BY <2>1, <2>2, PowDef
<1> QED
  BY <1>1, <1>2

\* A power of two exceeds its exponent.
LEMMA PowPositive == \A k \in Nat : Pow[k] \in Nat /\ Pow[k] >= 1 /\ k < Pow[k]
<1> DEFINE T == {k \in Nat : Pow[k] \in Nat /\ Pow[k] >= 1 /\ k < Pow[k]}
<1>1. 0 \in T
  BY PowStep
<1>2. ASSUME NEW k \in Nat, k \in T PROVE k + 1 \in T
  BY <1>2, PowStep
<1>3. Nat \subseteq T
  <2> HIDE DEF T
  <2> QED
    BY <1>1, <1>2, Inductive
<1> QED
  BY <1>3

\* Exponents add up.
LEMMA PowSum == \A j, k \in Nat : Pow[j + k] = Pow[j] * Pow[k]
<1> SUFFICES ASSUME NEW j \in Nat PROVE \A k \in Nat : Pow[j + k] = Pow[j] * Pow[k]
  OBVIOUS
<1> DEFINE T == {k \in Nat : Pow[j + k] = Pow[j] * Pow[k]}
<1>1. 0 \in T
  BY PowStep
<1>2. ASSUME NEW k \in Nat, k \in T PROVE k + 1 \in T
  <2>1. Pow[j + (k + 1)] = 2 * Pow[j + k]
    <3>1. j + (k + 1) = (j + k) + 1 /\ j + k \in Nat
      OBVIOUS
    <3> QED
      BY <3>1, PowStep
  <2>2. Pow[k + 1] = 2 * Pow[k] /\ Pow[j] \in Nat /\ Pow[k] \in Nat
    BY PowStep
  <2> QED
    BY <1>2, <2>1, <2>2
<1>3. Nat \subseteq T
  <2> HIDE DEF T
  <2> QED
    BY <1>1, <1>2, Inductive
<1> QED
  BY <1>3

\* Powers of two grow.
LEMMA PowMonotone == \A j, k \in Nat : j <= k => Pow[j] <= Pow[k]
<1> SUFFICES ASSUME NEW j \in Nat, NEW k \in Nat, j <= k PROVE Pow[j] <= Pow[k]
  OBVIOUS
<1>1. PICK i \in Nat : k = j + i
  <2>1. k - j \in Nat /\ k = j + (k - j)
    OBVIOUS
  <2> QED
    BY <2>1
<1> DEFINE u == Pow[j]
<1> DEFINE v == Pow[i]
<1>2. Pow[k] = u * v /\ u \in Nat /\ v \in Nat /\ v >= 1
  BY <1>1, PowSum, PowPositive
<1> HIDE DEF u, v
<1>3. u * v >= u
  BY <1>2
<1> QED
  BY <1>2, <1>3 DEF u

-----------------------------------------------------------------------------
(* The width of an index.                                                     *)

\* There is a width b for every number k of neighbours from 2 on.
LEMMA WidthExists ==
  ASSUME NEW k \in Nat, k >= 2
  PROVE  \E b \in 1 .. k : Pow[b - 1] < k /\ k <= Pow[b]
<1> DEFINE T == {j \in Nat : j < 2 \/ \E b \in 1 .. j : Pow[b - 1] < j /\ j <= Pow[b]}
<1>1. 0 \in T
  OBVIOUS
<1>2. ASSUME NEW j \in Nat, j \in T PROVE j + 1 \in T
  <2>1. CASE j < 1
    BY <2>1
  <2>2. CASE j = 1
    <3>1. Pow[0] = 1 /\ Pow[1] = 2
      <4>1. Pow[0 + 1] = 2 * Pow[0] /\ 0 + 1 = 1
        BY PowStep
      <4> QED
        BY <4>1, PowStep
    <3>2. 1 \in 1 .. j + 1 /\ Pow[1 - 1] < j + 1 /\ j + 1 <= Pow[1]
      BY <3>1, <2>2
    <3> QED
      BY <3>2
  <2>3. CASE j > 1
    <3>1. PICK b \in 1 .. j : Pow[b - 1] < j /\ j <= Pow[b]
      BY <1>2, <2>3
    <3>2. b \in Nat /\ b - 1 \in Nat /\ Pow[b] \in Nat /\ Pow[b - 1] \in Nat
      BY PowStep
    <3>3. CASE j + 1 <= Pow[b]
      <4>1. b \in 1 .. j + 1 /\ Pow[b - 1] < j + 1
        BY <3>1, <3>2
      <4> QED
        BY <4>1, <3>3
    <3>4. CASE j = Pow[b]
      <4>1. Pow[b + 1] = 2 * Pow[b] /\ (b + 1) - 1 = b
        BY <3>2, PowStep
      <4>2. b + 1 \in 1 .. j + 1 /\ Pow[(b + 1) - 1] < j + 1 /\ j + 1 <= Pow[b + 1]
        BY <3>2, <3>4, <4>1, <2>3
      <4> QED
        BY <4>2
    <3> QED
      BY <3>1, <3>2, <3>3, <3>4
  <2> QED
    BY <2>1, <2>2, <2>3
<1>3. Nat \subseteq T
  <2> HIDE DEF T
  <2> QED
    BY <1>1, <1>2, Inductive
<1> QED
  BY <1>3

\* Every index below k can be written in BitCount(k) bits.
LEMMA Width ==
  ASSUME NEW k \in Nat
  PROVE  /\ BitCount(k) \in Nat /\ BitCount(k) >= 1
         /\ k <= Pow[BitCount(k)]
         /\ k >= 2 => Pow[BitCount(k) - 1] < k
<1>1. CASE k < 2
  <2>1. Pow[1] = 2
    <3>1. Pow[0 + 1] = 2 * Pow[0] /\ 0 + 1 = 1
      BY PowStep
    <3> QED
      BY <3>1, PowStep
  <2> QED
    BY <1>1, <2>1 DEF BitCount
<1>2. CASE k >= 2
  <2>1. BitCount(k) = CHOOSE b \in 1 .. k : Pow[b - 1] < k /\ k <= Pow[b]
    BY <1>2 DEF BitCount
  <2>2. BitCount(k) \in 1 .. k /\ Pow[BitCount(k) - 1] < k /\ k <= Pow[BitCount(k)]
    BY <1>2, <2>1, WidthExists
  <2> QED
    BY <2>2
<1> QED
  BY <1>1, <1>2

\* More neighbours never make the index narrower.
LEMMA WidthMonotone ==
  ASSUME NEW j \in Nat, NEW k \in Nat, j <= k
  PROVE  BitCount(j) <= BitCount(k)
<1> DEFINE b == BitCount(j)
<1> DEFINE c == BitCount(k)
<1>1. /\ b \in Nat /\ c \in Nat /\ c >= 1 /\ b >= 1 /\ k <= Pow[c]
      /\ j >= 2 => Pow[b - 1] < j
  BY Width
<1>2. j < 2 => b = 1
  BY DEF BitCount
<1> HIDE DEF b, c
<1> SUFFICES ASSUME c < b PROVE FALSE
  BY <1>1 DEF b, c
<1>3. j >= 2
  BY <1>1, <1>2
<1>4. c <= b - 1 /\ b - 1 \in Nat
  BY <1>1
<1>5. Pow[c] <= Pow[b - 1] /\ Pow[c] \in Nat /\ Pow[b - 1] \in Nat
  BY <1>1, <1>4, PowMonotone, PowStep
<1> QED
  BY <1>1, <1>3, <1>5

\* As many neighbours as a word can number have indices that fit into a word.
LEMMA WidthFits ==
  ASSUME NEW k \in Nat, k <= Pow[WordSize]
  PROVE  BitCount(k) <= WordSize
<1> DEFINE b == BitCount(k)
<1>1. /\ b \in Nat /\ b >= 1 /\ WordSize \in Nat /\ WordSize >= 1
      /\ k >= 2 => Pow[b - 1] < k
  BY Width, WordAssumption
<1>2. k < 2 => b = 1
  BY DEF BitCount
<1> HIDE DEF b
<1> SUFFICES ASSUME WordSize < b PROVE FALSE
  BY <1>1 DEF b
<1>3. k >= 2
  BY <1>1, <1>2
<1>4. WordSize <= b - 1 /\ b - 1 \in Nat
  BY <1>1
<1>5. Pow[WordSize] <= Pow[b - 1] /\ Pow[WordSize] \in Nat /\ Pow[b - 1] \in Nat
  BY <1>1, <1>4, PowMonotone, PowStep
<1> QED
  BY <1>1, <1>3, <1>5

-----------------------------------------------------------------------------
(* Division with remainder.                                                  *)

\* What a quotient and a remainder are.
LEMMA DivMod ==
  ASSUME NEW n \in Nat, NEW b \in Nat \ {0}
  PROVE  /\ n \div b \in Nat /\ n % b \in Nat /\ n % b < b
         /\ n = b * (n \div b) + (n % b)
  OBVIOUS

\* n by b is q, and r is left over.
Divides(n, b, q, r) == n = b * q + r /\ r < b

\* There is no other quotient and remainder.
LEMMA DivModUnique ==
  ASSUME NEW b \in Nat \ {0}, NEW q \in Nat, NEW r \in Nat, NEW n \in Nat,
         Divides(n, b, q, r)
  PROVE  n \div b = q /\ n % b = r
<1> DEFINE p == n \div b
<1> DEFINE s == n % b
<1>1. p \in Nat /\ s \in Nat /\ s < b /\ n = b * p + s
  BY DivMod
<1>0. n = b * q + r /\ r < b
  BY DEF Divides
<1> HIDE DEF p, s
<1>2. CASE p < q
  <2>1. b * (p + 1) <= b * q
    BY <1>1, <1>2
  <2> QED
    BY <1>0, <1>1, <2>1
<1>3. CASE q < p
  <2>1. b * (q + 1) <= b * p
    BY <1>1, <1>3
  <2> QED
    BY <1>0, <1>1, <2>1
<1>4. CASE q = p
  BY <1>0, <1>1, <1>4 DEF p, s
<1> QED
  BY <1>1, <1>2, <1>3, <1>4

\* A number below b is its own remainder.
LEMMA ModSmall ==
  ASSUME NEW b \in Nat \ {0}, NEW n \in Nat, n < b
  PROVE  n % b = n /\ n \div b = 0
<1>1. Divides(n, b, 0, n)
  BY DEF Divides
<1> QED
  BY <1>1, DivModUnique

\* A number of r bits above one of k bits.
LEMMA ProductLess ==
  ASSUME NEW x \in Nat, NEW y \in Nat, x < y, NEW c \in Nat \ {0}
  PROVE  x * c \in Nat /\ y * c \in Nat \ {0} /\ x * c < y * c
<1>1. (x + 1) * c <= y * c
  OBVIOUS
<1>2. (x + 1) * c = x * c + c
  OBVIOUS
<1>3. x * c \in Nat /\ y * c \in Nat
  OBVIOUS
<1> QED
  BY <1>1, <1>2, <1>3

\* Dividend and divisor multiplied by the same number.
LEMMA Scaled ==
  ASSUME NEW x \in Nat, NEW b \in Nat \ {0}, NEW c \in Nat \ {0}
  PROVE  (x * c) \div (b * c) = x \div b /\ (x * c) % (b * c) = (x % b) * c
<1> DEFINE q == x \div b
<1> DEFINE r == x % b
<1>1. q \in Nat /\ r \in Nat /\ r < b /\ x = b * q + r
  BY DivMod
<1> HIDE DEF q, r
<1>2. r * c \in Nat /\ b * c \in Nat \ {0} /\ r * c < b * c /\ x * c \in Nat
  BY <1>1, ProductLess
<1>3. x * c = (b * c) * q + r * c
  BY <1>1
<1> DEFINE B == b * c
<1> DEFINE R == r * c
<1> DEFINE X == x * c
<1>4. B \in Nat \ {0} /\ R \in Nat /\ R < B /\ X \in Nat /\ Divides(X, B, q, R)
  BY <1>2, <1>3 DEF Divides
<1> HIDE DEF B, R, X
<1>5. X \div B = q /\ X % B = R
  BY <1>1, <1>4, DivModUnique
<1> QED
  BY <1>5 DEF X, B, R, q, r

\* A common factor is cancelled.
LEMMA DivProduct ==
  ASSUME NEW x \in Nat, NEW b \in Nat \ {0}, NEW r \in Nat, r < b
  PROVE  (x * b + r) \div b = x /\ (x * b + r) % b = r
<1> DEFINE n == x * b + r
<1>1. n \in Nat /\ Divides(n, b, x, r)
  BY DEF Divides
<1> HIDE DEF n
<1>2. n \div b = x /\ n % b = r
  BY <1>1, DivModUnique
<1> QED
  BY <1>2 DEF n

\* Adding a multiple of the modulus does not change the remainder.
LEMMA ModMultiple ==
  ASSUME NEW x \in Nat, NEW b \in Nat \ {0}, NEW y \in Nat
  PROVE  (x + y * b) % b = x % b
<1> DEFINE q == x \div b
<1> DEFINE r == x % b
<1>1. q \in Nat /\ r \in Nat /\ r < b /\ x = b * q + r
  BY DivMod
<1> HIDE DEF q, r
<1> DEFINE n == x + y * b
<1>2. n \in Nat /\ q + y \in Nat /\ Divides(n, b, q + y, r)
  BY <1>1 DEF Divides
<1> HIDE DEF n
<1>3. n % b = r
  BY <1>1, <1>2, DivModUnique
<1> QED
  BY <1>3 DEF n, r

-----------------------------------------------------------------------------
(* Reading the bits of a vector.                                              *)

\* The n bits below bit r of word at + 1, counted from 1 up to r.
Bits(words, at, r, n) ==
  IF n <= r THEN (words[at + 1] % Pow[r]) \div Pow[r - n]
  ELSE (words[at + 1] % Pow[r]) * Pow[n - r] + words[at] \div Pow[WordSize - (n - r)]

\* Powers of two are divisors.
LEMMA PowNat == \A k \in Nat : Pow[k] \in Nat \ {0}
  BY PowPositive

\* The word moved up so that its bits from r on are lost.
LEMMA ShiftedOut ==
  ASSUME NEW w \in Nat, NEW r \in Nat, r <= WordSize
  PROVE  (w * Pow[WordSize - r]) % Pow[WordSize] = (w % Pow[r]) * Pow[WordSize - r]
<1> DEFINE k == WordSize - r
<1>1. k \in Nat /\ k + r = WordSize /\ r + k = WordSize /\ WordSize \in Nat
  BY WordAssumption
<1> HIDE DEF k
<1>2. Pow[k] \in Nat \ {0} /\ Pow[r] \in Nat \ {0} /\ Pow[WordSize] = Pow[r] * Pow[k]
  BY <1>1, PowNat, PowSum
<1>3. (w * Pow[k]) % (Pow[r] * Pow[k]) = (w % Pow[r]) * Pow[k]
  BY <1>2, Scaled
<1> QED
  BY <1>2, <1>3 DEF k

\* ExtractNeighborIndex returns these bits, across the border of two words, too.
LEMMA ExtractedBits ==
  ASSUME NEW at \in Nat, NEW r \in Nat, r >= 1, r <= WordSize,
         NEW n \in Nat, n >= 1, n <= WordSize, n <= at * WordSize + r,
         NEW words, words[at + 1] \in Nat, at > 0 => words[at] \in Nat
  PROVE  Extracted(words, at * WordSize + r, n) = Bits(words, at, r, n)
<1> DEFINE W == WordSize
<1> DEFINE rest == at * WordSize + r
<1> DEFINE w == words[at + 1]
<1> DEFINE u == words[at]
<1>0. W \in Nat \ {0} /\ rest \in Nat /\ n <= rest /\ r <= W /\ n <= W /\ w \in Nat /\ (at > 0 => u \in Nat)
  BY WordAssumption
<1>1. (rest - 1) \div W = at /\ (rest - 1) % W = r - 1
  <2>1. rest - 1 \in Nat /\ r - 1 \in Nat /\ r - 1 < W /\ rest - 1 = W * at + (r - 1)
    BY <1>0
  <2> DEFINE x == rest - 1
  <2> DEFINE y == r - 1
  <2>2. W \in Nat \ {0} /\ x \in Nat /\ y \in Nat /\ Divides(x, W, at, y)
    BY <1>0, <2>1 DEF Divides
  <2> HIDE DEF x, y, W
  <2>3. x \div W = at /\ x % W = y
    BY <2>2, DivModUnique
  <2> QED
    BY <2>3 DEF x, y
<1>2. rest % W = IF r = W THEN 0 ELSE r
  <2>1. CASE r = W
    <3>1. Divides(rest, W, at + 1, 0) /\ at + 1 \in Nat
      BY <2>1, <1>0 DEF Divides
    <3> HIDE DEF rest, W
    <3> QED
      BY <1>0, <2>1, <3>1, DivModUnique
  <2>2. CASE r # W
    <3>1. Divides(rest, W, at, r)
      BY <2>2, <1>0 DEF Divides
    <3> HIDE DEF rest, W
    <3>2. rest % W = r
      BY <1>0, <3>1, DivModUnique
    <3> QED
      BY <2>2, <3>2
  <2> QED
    BY <2>1, <2>2
<1>3. (W - (rest % W)) % W = W - r
  <2>1. CASE r = W
    <3>1. Divides(W, W, 1, 0)
      BY <1>0 DEF Divides
    <3>2. W % W = 0
      <4> HIDE DEF W
      <4> QED
        BY <1>0, <3>1, DivModUnique
    <3> QED
      BY <1>0, <1>2, <2>1, <3>2
  <2>2. CASE r # W
    <3>1. W - r \in Nat /\ W - r < W
      BY <1>0, <2>2
    <3>2. (W - r) % W = W - r
      <4> HIDE DEF W
      <4> QED
        BY <1>0, <3>1, ModSmall
    <3> QED
      BY <1>2, <2>2, <3>2
  <2> QED
    BY <2>1, <2>2
<1> DEFINE m == w % Pow[r]
<1> DEFINE high == ShiftLeft(w, W - (rest % W))
<1>4. high = m * Pow[W - r]
  <2>1. high = (w * Pow[W - r]) % Pow[W]
    BY <1>3 DEF ShiftLeft
  <2> QED
    BY <1>0, <2>1, ShiftedOut
<1>5. m \in Nat
  <2>1. Pow[r] \in Nat \ {0}
    BY PowNat
  <2> QED
    BY <1>0, <2>1, DivMod
<1>6. W - n \in Nat /\ (W - n) % W = W - n
  <2>1. W - n \in Nat /\ W - n < W
    BY <1>0
  <2> QED
    BY <1>0, <2>1, ModSmall
<1>7. CASE n <= r
  <2>1. ~ (n - 1 > (rest - 1) % W)
    BY <1>1, <1>7
  <2>2. Extracted(words, rest, n) = ShiftRight(high, W - n)
    BY <1>1, <2>1 DEF Extracted
  <2>3. ShiftRight(high, W - n) = (m * Pow[W - r]) \div Pow[W - n]
    BY <1>4, <1>6 DEF ShiftRight
  <2>4. /\ Pow[r - n] \in Nat \ {0} /\ Pow[W - r] \in Nat \ {0}
        /\ Pow[W - n] = Pow[r - n] * Pow[W - r]
    <3>1. r - n \in Nat /\ W - r \in Nat /\ W - n = (r - n) + (W - r)
      BY <1>0, <1>7
    <3> QED
      BY <3>1, PowNat, PowSum
  <2>5. (m * Pow[W - r]) \div (Pow[r - n] * Pow[W - r]) = m \div Pow[r - n]
    <3> HIDE DEF m, W
    <3> QED
      BY <1>5, <2>4, Scaled
  <2> QED
    BY <1>7, <2>2, <2>3, <2>4, <2>5 DEF Bits
<1>8. CASE n > r
  <2>1. at > 0 /\ u \in Nat /\ r < W
    <3>1. at = 0 => rest = r
      BY <1>0
    <3> QED
      BY <1>0, <1>8, <3>1
  <2>2. n - 1 > (rest - 1) % W /\ rest % W = r
    BY <1>1, <1>2, <1>8, <2>1
  <2>3. Extracted(words, rest, n) =
          ShiftRight(high, W - r - (n - r)) + ShiftRight(u, W - (n - r))
    BY <1>1, <2>1, <2>2 DEF Extracted
  <2>4. W - r - (n - r) = W - n
    BY <1>0
  <2>5. ShiftRight(high, W - n) = (m * Pow[W - r]) \div Pow[W - n]
    BY <1>4, <1>6 DEF ShiftRight
  <2>6. (W - (n - r)) % W = W - (n - r)
    <3>1. W - (n - r) \in Nat /\ W - (n - r) < W
      BY <1>0, <1>8
    <3> QED
      BY <1>0, <3>1, ModSmall
  <2>7. ShiftRight(u, W - (n - r)) = u \div Pow[W - (n - r)]
    BY <2>6 DEF ShiftRight
  <2>8. /\ Pow[n - r] \in Nat /\ Pow[W - n] \in Nat \ {0}
        /\ Pow[W - r] = Pow[n - r] * Pow[W - n]
    <3>1. n - r \in Nat /\ W - n \in Nat /\ W - r = (n - r) + (W - n)
      BY <1>0, <1>8
    <3> QED
      BY <3>1, PowNat, PowSum
  <2>9. (m * Pow[W - r]) \div Pow[W - n] = m * Pow[n - r]
    <3> DEFINE x == m * Pow[n - r]
    <3> DEFINE b == Pow[W - n]
    <3>1. x \in Nat /\ b \in Nat \ {0} /\ m * Pow[W - r] = x * b + 0
      <4> HIDE DEF m, W
      <4> QED
        BY <1>5, <2>8
    <3> HIDE DEF x, b
    <3>2. (x * b + 0) \div b = x
      BY <3>1, DivProduct
    <3> QED
      BY <3>1, <3>2 DEF x, b
  <2> QED
    BY <1>8, <2>3, <2>4, <2>5, <2>7, <2>9 DEF Bits
<1> QED
  BY <1>0, <1>7, <1>8

\* Where bit rest of a vector of L words, cur bits in the last one, is found.
LEMMA Position ==
  ASSUME NEW L \in Nat, L >= 1, NEW cur \in Nat, cur <= WordSize,
         NEW rest \in Nat, rest >= 1, rest <= (L - 1) * WordSize + cur
  PROVE  \E at, r \in Nat : /\ r >= 1 /\ r <= WordSize
                            /\ rest = at * WordSize + r
                            /\ at + 1 <= L
                            /\ at + 1 = L => r <= cur
<1> DEFINE W == WordSize
<1>0. W \in Nat \ {0} /\ cur <= W
  BY WordAssumption
<1> DEFINE at == (rest - 1) \div W
<1> DEFINE s == (rest - 1) % W
<1>1. at \in Nat /\ s \in Nat /\ s < W /\ rest - 1 = W * at + s
  <2>1. rest - 1 \in Nat
    OBVIOUS
  <2> QED
    BY <1>0, <2>1, DivMod
<1>2. rest <= (L - 1) * W + cur
  OBVIOUS
<1> HIDE DEF at, s, W
<1>3. rest = at * W + (s + 1) /\ s + 1 \in Nat /\ s + 1 >= 1 /\ s + 1 <= W
  BY <1>0, <1>1
<1>4. at + 1 <= L
  <2> SUFFICES ASSUME at >= L PROVE FALSE
    BY <1>1
  <2>1. L * W <= at * W
    BY <1>0, <1>1
  <2>2. L * W = (L - 1) * W + W
    BY <1>0
  <2> QED
    BY <1>0, <1>1, <1>2, <1>3, <2>1, <2>2
<1>5. at + 1 = L => s + 1 <= cur
  <2> SUFFICES ASSUME at + 1 = L PROVE s + 1 <= cur
    OBVIOUS
  <2>1. L - 1 = at
    BY <1>1
  <2>2. rest <= at * W + cur /\ at * W \in Nat
    BY <1>0, <1>1, <1>2, <2>1
  <2> QED
    BY <1>0, <1>1, <1>3, <2>2
<1> QED
  BY <1>1, <1>3, <1>4, <1>5 DEF W

\* more has the L words of words, with bits added above the first cur of the last.
Grows(words, more, L, cur, y) ==
  /\ \A t \in 1 .. L : words[t] \in Nat
  /\ \A t \in 1 .. L - 1 : more[t] = words[t]
  /\ more[L] = words[L] + y * Pow[cur]

\* Bits added above the first cur of the last word do not change what is read
\* below them.
LEMMA ReadsSame ==
  ASSUME NEW words, NEW more, NEW L \in Nat, L >= 1,
         NEW cur \in Nat, cur <= WordSize, NEW y \in Nat, Grows(words, more, L, cur, y),
         NEW k \in Nat, k >= 1, k <= WordSize, NEW rest \in Nat, k <= rest,
         rest <= (L - 1) * WordSize + cur
  PROVE  Extracted(more, rest, k) = Extracted(words, rest, k)
<1>0. /\ WordSize \in Nat \ {0}
      /\ \A t \in 1 .. L : words[t] \in Nat
      /\ \A t \in 1 .. L - 1 : more[t] = words[t]
      /\ more[L] = words[L] + y * Pow[cur]
  BY WordAssumption DEF Grows
<1>1. PICK at \in Nat, r \in Nat : /\ r >= 1 /\ r <= WordSize
                                   /\ rest = at * WordSize + r
                                   /\ at + 1 <= L
                                   /\ at + 1 = L => r <= cur
  BY Position
<1>2. at + 1 \in 1 .. L /\ (at > 0 => at \in 1 .. L - 1)
  BY <1>1
<1>3. words[at + 1] \in Nat /\ (at > 0 => words[at] \in Nat)
  BY <1>0, <1>2
<1>4. at > 0 => more[at] = words[at]
  BY <1>0, <1>2
<1>5. more[at + 1] \in Nat /\ more[at + 1] % Pow[r] = words[at + 1] % Pow[r]
  <2>1. CASE at + 1 # L
    <3>1. at + 1 \in 1 .. L - 1
      BY <1>2, <2>1
    <3> QED
      BY <1>0, <1>3, <3>1
  <2>2. CASE at + 1 = L
    <3> DEFINE w == words[L]
    <3> DEFINE b == Pow[r]
    <3> DEFINE c == Pow[cur - r]
    <3>1. b \in Nat \ {0} /\ c \in Nat \ {0} /\ Pow[cur] = c * b
      <4>1. cur - r \in Nat /\ (cur - r) + r = cur
        BY <1>1, <2>2
      <4> QED
        BY <4>1, PowNat, PowSum
    <3>2. w \in Nat
      BY <1>3, <2>2
    <3>3. more[L] = w + y * (c * b)
      BY <1>0, <3>1
    <3> HIDE DEF w, b, c
    <3>4. more[L] = w + (y * c) * b /\ y * c \in Nat
      BY <3>1, <3>2, <3>3
    <3>5. (w + (y * c) * b) % b = w % b
      BY <3>1, <3>2, <3>4, ModMultiple
    <3>6. (y * c) * b \in Nat
      BY <3>1, <3>4
    <3>7. w + (y * c) * b \in Nat
      BY <3>2, <3>6
    <3>8. more[L] \in Nat /\ more[L] % b = w % b
      BY <3>4, <3>5, <3>7
    <3> QED
      BY <2>2, <3>8 DEF w, b
  <2> QED
    BY <2>1, <2>2
<1>6. Extracted(words, rest, k) = Bits(words, at, r, k)
  <2>1. k <= at * WordSize + r
    BY <1>1
  <2>2. Extracted(words, at * WordSize + r, k) = Bits(words, at, r, k)
    BY <1>1, <1>3, <2>1, ExtractedBits
  <2> QED
    BY <1>1, <2>2
<1>7. Extracted(more, rest, k) = Bits(more, at, r, k)
  <2>1. k <= at * WordSize + r /\ (at > 0 => more[at] \in Nat)
    BY <1>1, <1>3, <1>4
  <2>2. Extracted(more, at * WordSize + r, k) = Bits(more, at, r, k)
    BY <1>1, <1>5, <2>1, ExtractedBits
  <2> QED
    BY <1>1, <2>2
<1>8. Bits(more, at, r, k) = Bits(words, at, r, k)
  <2>1. CASE k <= r
    BY <1>5, <2>1 DEF Bits
  <2>2. CASE k > r
    <3>1. at > 0
      <4>1. at = 0 => rest = r
        BY <1>0, <1>1
      <4> QED
        BY <1>1, <2>2, <4>1
    <3> QED
      BY <1>1, <1>4, <1>5, <2>2, <3>1 DEF Bits
  <2> QED
    BY <1>1, <2>1, <2>2
<1> QED
  BY <1>6, <1>7, <1>8

-----------------------------------------------------------------------------
(* Adding an index to a vector.                                               *)

\* Words are numbers.
LEMMA WordsNat ==
  ASSUME NEW words \in Seq(Word)
  PROVE  \A t \in 1 .. Len(words) : words[t] \in Word /\ words[t] \in Nat
<1>1. Word \subseteq Nat
  BY WordAssumption, PowNat DEF Word
<1> TAKE t \in 1 .. Len(words)
<1>2. words[t] \in Word
  OBVIOUS
<1> QED
  BY <1>1, <1>2

\* A vector whose last word has no bit set above current.
Filled(v) ==
  /\ IsVector(v)
  /\ Len(v.words) >= 1
  /\ v.words[Len(v.words)] < Pow[v.current]

\* A new vector is filled up to its end.
LEMMA NewFilled == Filled(NewVector)
<1>1. WordSize \in Nat \ {0} /\ Pow[WordSize] \in Nat \ {0} /\ Pow[0] = 1
  BY WordAssumption, PowNat, PowStep
<1>2. 0 \in Word /\ 0 \in 0 .. WordSize
  BY <1>1 DEF Word
<1>3. <<0>> \in Seq(Word)
  BY <1>2
<1>4. NewVector \in Vector
  BY <1>2, <1>3 DEF NewVector, Vector
<1>5. Len(<<0>>) = 1 /\ <<0>>[1] = 0
  OBVIOUS
<1>6. (1 - 1) * WordSize + 0 = 0
  BY <1>1
<1> QED
  BY <1>1, <1>4, <1>5, <1>6 DEF Filled, IsVector, NewVector

\* What the code gets by adding an index of n bits: it can be read back, and
\* what was read before still is.
Adds(v, newBits, n, new) ==
  /\ Filled(new)
  /\ new.total = v.total + n /\ new.used = v.used
  /\ Extracted(new.words, new.total, n) = newBits
  /\ \A k, rest \in Nat : k >= 1 /\ k <= WordSize /\ k <= rest /\ rest <= v.total
                            => Extracted(new.words, rest, k) = Extracted(v.words, rest, k)

\* The same, from the words and the number of bits in the last of them.
AddsTo(v, newBits, n, words, cur, y) ==
  /\ words \in Seq(Word) /\ cur \in 0 .. WordSize /\ y \in Nat
  /\ Len(words) >= Len(v.words)
  /\ words[Len(words)] < Pow[cur]
  /\ v.total + n = (Len(words) - 1) * WordSize + cur /\ cur >= 1
  /\ \A t \in 1 .. Len(v.words) - 1 : words[t] = v.words[t]
  /\ words[Len(v.words)] = v.words[Len(v.words)] + y * Pow[v.current]
  /\ Bits(words, Len(words) - 1, cur, n) = newBits

\* The one follows from the other.
LEMMA AddsWords ==
  ASSUME NEW v, Filled(v), NEW n \in Nat, n >= 1, n <= WordSize,
         NEW newBits \in Nat, NEW words, NEW cur, NEW y,
         AddsTo(v, newBits, n, words, cur, y)
  PROVE  Adds(v, newBits, n,
              [words |-> words, used |-> v.used, current |-> cur, total |-> v.total + n])
<1> DEFINE new == [words |-> words, used |-> v.used, current |-> cur, total |-> v.total + n]
<1> DEFINE L == Len(v.words)
<1> DEFINE M == Len(words)
<1>0. /\ WordSize \in Nat \ {0} /\ Pow[WordSize] \in Nat \ {0}
      /\ words \in Seq(Word) /\ cur \in 0 .. WordSize /\ y \in Nat
      /\ M >= L /\ words[M] < Pow[cur]
      /\ v.total + n = (M - 1) * WordSize + cur /\ cur >= 1
      /\ \A t \in 1 .. L - 1 : words[t] = v.words[t]
      /\ words[L] = v.words[L] + y * Pow[v.current]
      /\ Bits(words, M - 1, cur, n) = newBits
  BY WordAssumption, PowNat DEF AddsTo
<1>1. /\ v.words \in Seq(Word) /\ v.used \in Nat /\ v.total \in Nat
      /\ v.current \in 0 .. WordSize /\ v.total = (L - 1) * WordSize + v.current
      /\ v.used <= v.total /\ L >= 1 /\ L \in Nat /\ M \in Nat /\ M >= 1
  <2>1. v \in Vector /\ v.total = (L - 1) * WordSize + v.current /\ v.used <= v.total /\ L >= 1
    BY DEF Filled, IsVector
  <2>2. /\ v.words \in Seq(Word) /\ v.used \in Nat /\ v.total \in Nat
        /\ v.current \in 0 .. WordSize
    BY <2>1 DEF Vector
  <2>3. L \in Nat
    BY <2>2
  <2>4. M \in Nat
    BY <1>0
  <2> HIDE DEF L, M
  <2>5. M >= 1
    BY <1>0, <2>1, <2>3, <2>4
  <2> QED
    BY <2>1, <2>2, <2>3, <2>4, <2>5 DEF L
<1>2. (\A t \in 1 .. L : v.words[t] \in Nat) /\ (\A t \in 1 .. M : words[t] \in Nat)
  BY <1>0, <1>1, WordsNat
<1>3. /\ new.words = words /\ new.used = v.used /\ new.current = cur
      /\ new.total = v.total + n
  OBVIOUS
<1>4. new \in Vector
  BY <1>0, <1>1, <1>3, SMTT(30) DEF Vector
<1>5. Filled(new)
  BY <1>0, <1>1, <1>3, <1>4, SMTT(30) DEF Filled, IsVector
<1>6. Extracted(words, v.total + n, n) = newBits
  <2> DEFINE at == M - 1
  <2>1. at \in Nat /\ cur \in Nat /\ cur <= WordSize /\ n <= at * WordSize + cur
    BY <1>0, <1>1
  <2>2. at + 1 = M /\ words[at + 1] \in Nat /\ (at > 0 => words[at] \in Nat)
    BY <1>1, <1>2, SMTT(30)
  <2>3. v.total + n = at * WordSize + cur /\ Bits(words, at, cur, n) = newBits
    BY <1>0
  <2> HIDE DEF at
  <2>4. Extracted(words, at * WordSize + cur, n) = Bits(words, at, cur, n)
    BY <1>0, <2>1, <2>2, ExtractedBits
  <2> QED
    BY <2>3, <2>4
<1>7. ASSUME NEW k \in Nat, NEW rest \in Nat, k >= 1, k <= WordSize, k <= rest, rest <= v.total
      PROVE  Extracted(words, rest, k) = Extracted(v.words, rest, k)
  <2>0. PICK old, c : old = v.words /\ c = v.current
    OBVIOUS
  <2>1. /\ L \in Nat /\ L >= 1 /\ c \in Nat /\ c <= WordSize
        /\ Grows(old, words, L, c, y)
        /\ rest <= (L - 1) * WordSize + c
    BY <1>0, <1>1, <1>2, <1>7, <2>0 DEF Grows
  <2> HIDE DEF L
  <2>2. Extracted(words, rest, k) = Extracted(old, rest, k)
    BY <1>0, <1>7, <2>1, ReadsSame
  <2> QED
    BY <2>0, <2>2
<1> QED
  BY <1>3, <1>5, <1>6, <1>7 DEF Adds

\* Two numbers written one above the other.
LEMMA Stacked ==
  ASSUME NEW j \in Nat, NEW k \in Nat, NEW x \in Nat, x < Pow[j], NEW y \in Nat, y < Pow[k]
  PROVE  /\ x + y * Pow[j] \in Nat /\ x + y * Pow[j] < Pow[j + k]
         /\ (x + y * Pow[j]) \div Pow[j] = y
         /\ y * Pow[j] \in Nat /\ y * Pow[j] < Pow[j + k]
<1> DEFINE b == Pow[j]
<1> DEFINE c == Pow[k]
<1>1. b \in Nat \ {0} /\ c \in Nat \ {0} /\ Pow[j + k] = c * b /\ x < b /\ y < c
  <2>1. Pow[k + j] = Pow[k] * Pow[j] /\ k + j = j + k
    BY PowSum
  <2> QED
    BY <2>1, PowNat
<1> HIDE DEF b, c
<1>2. y * b \in Nat /\ (y + 1) * b <= c * b /\ (y + 1) * b = y * b + b
  BY <1>1
<1>3. y * b + x \in Nat /\ (y * b + x) \div b = y
  <2>1. y * b + x \in Nat
    BY <1>2
  <2> QED
    BY <1>1, <2>1, DivProduct
<1>4. c * b \in Nat
  BY <1>1
<1>5. y * b + x = x + y * b
  BY <1>2
<1> QED
  BY <1>1, <1>2, <1>3, <1>4, <1>5 DEF b

\* The index fits into the last word.
LEMMA AddFits ==
  ASSUME NEW v, Filled(v), NEW n \in Nat, n >= 1, NEW newBits \in Nat, newBits < Pow[n],
         v.current + n <= WordSize
  PROVE  Adds(v, newBits, n, AddNeighborIndex(v, newBits, n))
<1> DEFINE L == Len(v.words)
<1> DEFINE cur == v.current + n
<1> DEFINE words == [v.words EXCEPT ![L] = v.words[L] + newBits * Pow[v.current]]
<1> DEFINE new == [words |-> words, used |-> v.used, current |-> cur, total |-> v.total + n]
<1>0. WordSize \in Nat \ {0}
  BY WordAssumption
<1>1. /\ v \in Vector /\ v.words \in Seq(Word) /\ v.used \in Nat /\ v.total \in Nat
      /\ v.current \in Nat /\ v.current < WordSize /\ v.total = (L - 1) * WordSize + v.current
      /\ L >= 1 /\ L \in Nat /\ v.words[L] < Pow[v.current]
  BY <1>0 DEF Filled, IsVector, Vector
<1>2. v.words[L] \in Nat
  BY <1>1, WordsNat
<1>3. /\ v.words[L] + newBits * Pow[v.current] \in Nat
      /\ v.words[L] + newBits * Pow[v.current] < Pow[cur]
      /\ (v.words[L] + newBits * Pow[v.current]) \div Pow[v.current] = newBits
      /\ newBits * Pow[v.current] \in Nat /\ newBits * Pow[v.current] < Pow[cur]
  <2>1. PICK w, c : w = v.words[L] /\ c = v.current
    OBVIOUS
  <2>2. w \in Nat /\ c \in Nat /\ w < Pow[c]
    BY <1>1, <1>2, <2>1
  <2>3. /\ w + newBits * Pow[c] \in Nat /\ w + newBits * Pow[c] < Pow[c + n]
        /\ (w + newBits * Pow[c]) \div Pow[c] = newBits
        /\ newBits * Pow[c] \in Nat /\ newBits * Pow[c] < Pow[c + n]
    BY <2>2, Stacked
  <2> QED
    BY <2>1, <2>3
<1>4. Pow[cur] <= Pow[WordSize] /\ Pow[cur] \in Nat \ {0} /\ Pow[WordSize] \in Nat \ {0}
  <2>1. cur \in Nat /\ cur <= WordSize /\ WordSize \in Nat
    BY <1>0, <1>1
  <2> HIDE DEF cur
  <2> QED
    BY <2>1, PowMonotone, PowNat
<1>5. ShiftLeft(newBits, v.current) = newBits * Pow[v.current]
  <2>1. v.current % WordSize = v.current
    BY <1>0, <1>1, ModSmall
  <2>2. (newBits * Pow[v.current]) % Pow[WordSize] = newBits * Pow[v.current]
    <3> DEFINE x == newBits * Pow[v.current]
    <3>1. x \in Nat /\ x < Pow[WordSize]
      BY <1>3, <1>4
    <3> HIDE DEF x
    <3>2. x % Pow[WordSize] = x
      BY <1>4, <3>1, ModSmall
    <3> QED
      BY <3>2 DEF x
  <2> QED
    BY <2>1, <2>2 DEF ShiftLeft
<1>6. AddNeighborIndex(v, newBits, n) = new
  <2>1. AddNeighborIndex(v, newBits, n)
          = [[v EXCEPT !.total = @ + n] EXCEPT !.words = words, !.current = @ + n]
    BY <1>5 DEF AddNeighborIndex
  <2> HIDE DEF words
  <2> QED
    BY <1>1, <2>1 DEF Vector
<1>7. v.words[L] + newBits * Pow[v.current] \in Word
  BY <1>3, <1>4 DEF Word
<1>8. /\ words \in Seq(Word) /\ Len(words) = L
      /\ words[L] = v.words[L] + newBits * Pow[v.current]
      /\ \A t \in 1 .. L - 1 : words[t] = v.words[t]
  BY <1>1, <1>7
<1>9. Bits(words, L - 1, cur, n) = newBits
  <2>1. n <= cur /\ cur - n = v.current /\ (L - 1) + 1 = L
    BY <1>1
  <2>2. words[L] % Pow[cur] = words[L]
    <3> DEFINE x == words[L]
    <3>1. x \in Nat /\ x < Pow[cur]
      BY <1>3, <1>8
    <3> HIDE DEF x, cur
    <3> QED
      BY <1>4, <3>1, ModSmall DEF x
  <2> HIDE DEF words
  <2> QED
    BY <1>3, <1>8, <2>1, <2>2 DEF Bits
<1>10. /\ cur \in 0 .. WordSize /\ cur >= 1 /\ n <= WordSize
       /\ v.total + n = (L - 1) * WordSize + cur
  BY <1>0, <1>1, SMTT(30)
<1>11. AddsTo(v, newBits, n, words, cur, newBits)
  <2> HIDE DEF words, cur
  <2> QED
    BY <1>1, <1>3, <1>8, <1>9, <1>10 DEF AddsTo
<1> HIDE DEF words, cur
<1>12. Adds(v, newBits, n, new)
  BY <1>10, <1>11, AddsWords
<1> QED
  BY <1>6, <1>12

\* The last word is full.
LEMMA AddNext ==
  ASSUME NEW v, Filled(v), NEW n \in Nat, n >= 1, n <= WordSize,
         NEW newBits \in Nat, newBits < Pow[n], v.current = WordSize
  PROVE  Adds(v, newBits, n, AddNeighborIndex(v, newBits, n))
<1> DEFINE L == Len(v.words)
<1> DEFINE words == Append(v.words, newBits)
<1> DEFINE new == [words |-> words, used |-> v.used, current |-> n, total |-> v.total + n]
<1>0. WordSize \in Nat \ {0}
  BY WordAssumption
<1>1. /\ v \in Vector /\ v.words \in Seq(Word) /\ v.used \in Nat /\ v.total \in Nat
      /\ v.total = (L - 1) * WordSize + WordSize /\ L >= 1 /\ L \in Nat
  BY <1>0 DEF Filled, IsVector, Vector
<1>2. v.words[L] \in Nat
  BY <1>1, WordsNat
<1>3. Pow[n] <= Pow[WordSize] /\ Pow[n] \in Nat \ {0} /\ Pow[WordSize] \in Nat \ {0}
  BY <1>0, PowMonotone, PowNat
<1>4. AddNeighborIndex(v, newBits, n) = new
  <2>1. ~ (v.current + n <= WordSize)
    BY <1>0
  <2>2. AddNeighborIndex(v, newBits, n)
          = [[v EXCEPT !.total = @ + n] EXCEPT !.words = words, !.current = n]
    BY <1>1, <2>1 DEF AddNeighborIndex, Vector
  <2> HIDE DEF words
  <2> QED
    BY <1>1, <2>2 DEF Vector
<1>5. newBits \in Word
  BY <1>3 DEF Word
<1>6. /\ words \in Seq(Word) /\ Len(words) = L + 1
      /\ words[L + 1] = newBits /\ words[L] = v.words[L]
      /\ \A t \in 1 .. L - 1 : words[t] = v.words[t]
  BY <1>1, <1>5
<1>7. Bits(words, L, n, n) = newBits
  <2>1. n <= n /\ n - n = 0 /\ Pow[0] = 1
    BY PowStep
  <2>2. newBits % Pow[n] = newBits
    BY <1>3, ModSmall
  <2>3. newBits \div 1 = newBits
    OBVIOUS
  <2> HIDE DEF words
  <2> QED
    BY <1>6, <2>1, <2>2, <2>3 DEF Bits
<1>8. /\ n \in 0 .. WordSize /\ v.total + n = L * WordSize + n
      /\ (L + 1) - 1 = L /\ 0 * Pow[v.current] = 0
  <2>1. (L - 1) * WordSize + WordSize = L * WordSize
    BY <1>0, <1>1
  <2>2. Pow[v.current] \in Nat
    BY <1>0, PowNat
  <2> QED
    BY <1>0, <1>1, <2>1, <2>2
<1>9. AddsTo(v, newBits, n, words, n, 0)
  <2>1. words[L] = v.words[L] + 0 * Pow[v.current]
    BY <1>2, <1>6, <1>8
  <2>2. /\ Len(words) >= L /\ words[Len(words)] < Pow[n]
        /\ v.total + n = (Len(words) - 1) * WordSize + n
        /\ Bits(words, Len(words) - 1, n, n) = newBits
    BY <1>1, <1>6, <1>7, <1>8
  <2> HIDE DEF words
  <2> QED
    BY <1>6, <1>8, <2>1, <2>2 DEF AddsTo
<1> HIDE DEF words
<1>10. Adds(v, newBits, n, new)
  BY <1>9, AddsWords
<1> QED
  BY <1>4, <1>10

\* The index goes partly into the last word, partly into the next.
LEMMA AddSplit ==
  ASSUME NEW v, Filled(v), NEW n \in Nat, n >= 1, n <= WordSize,
         NEW newBits \in Nat, newBits < Pow[n],
         v.current < WordSize, v.current + n > WordSize
  PROVE  Adds(v, newBits, n, AddNeighborIndex(v, newBits, n))
<1> DEFINE L == Len(v.words)
<1> DEFINE free == WordSize - v.current
<1> DEFINE cur == n - free
<1> DEFINE low == newBits % Pow[free]
<1> DEFINE top == newBits \div Pow[free]
<1> DEFINE fit == [v.words EXCEPT ![L] = v.words[L] + low * Pow[v.current]]
<1> DEFINE words == Append(fit, top)
<1> DEFINE new == [words |-> words, used |-> v.used, current |-> cur, total |-> v.total + n]
<1>0. WordSize \in Nat \ {0}
  BY WordAssumption
<1>1. /\ v \in Vector /\ v.words \in Seq(Word) /\ v.used \in Nat /\ v.total \in Nat
      /\ v.current \in Nat /\ v.total = (L - 1) * WordSize + v.current
      /\ L >= 1 /\ L \in Nat /\ v.words[L] < Pow[v.current]
  BY <1>0 DEF Filled, IsVector, Vector
<1>2. v.words[L] \in Nat
  BY <1>1, WordsNat
<1>3. /\ free \in Nat /\ free >= 1 /\ free <= WordSize /\ free < n /\ cur \in Nat /\ cur >= 1 /\ cur < n
      /\ v.current + free = WordSize /\ cur + free = n /\ free + cur = n /\ n - cur = free
      /\ WordSize - free = v.current
  <2>1. PICK c \in Nat : c = v.current /\ c < WordSize /\ c + n > WordSize
    BY <1>1
  <2>2. WordSize \in Nat
    BY <1>0
  <2>3. free = WordSize - c /\ cur = n - (WordSize - c)
    BY <2>1
  <2> HIDE DEF free, cur
  <2>4. v.current + free = WordSize /\ WordSize - free = v.current
    BY <2>1, <2>2, <2>3
  <2>5. free \in Nat /\ free >= 1 /\ free <= WordSize /\ free < n
    BY <2>1, <2>2, <2>3
  <2>6. cur = n - free
    BY <2>3
  <2>7. cur \in Nat /\ cur >= 1 /\ cur < n /\ cur + free = n /\ free + cur = n /\ n - cur = free
    BY <2>5, <2>6
  <2> QED
    BY <2>4, <2>5, <2>7
<1>4. Pow[free] \in Nat \ {0} /\ Pow[cur] \in Nat \ {0} /\ Pow[WordSize] \in Nat \ {0}
      /\ Pow[v.current] \in Nat \ {0} /\ Pow[n] = Pow[cur] * Pow[free]
  <2> HIDE DEF free, cur
  <2>1. Pow[cur + free] = Pow[cur] * Pow[free]
    BY <1>3, PowSum
  <2>2. Pow[n] = Pow[cur] * Pow[free]
    BY <1>3, <2>1
  <2>3. WordSize \in Nat /\ v.current \in Nat /\ cur \in Nat /\ free \in Nat
    BY <1>0, <1>1, <1>3
  <2> QED
    BY <2>2, <2>3, PowNat
<1>5. /\ low \in Nat /\ low < Pow[free] /\ top \in Nat
      /\ newBits = Pow[free] * top + low
  <2> HIDE DEF free
  <2> QED
    BY <1>4, DivMod
<1>6. top < Pow[cur]
  <2> DEFINE b == Pow[free]
  <2> DEFINE c == Pow[cur]
  <2>1. /\ b \in Nat \ {0} /\ c \in Nat \ {0} /\ newBits < c * b
        /\ newBits = b * top + low /\ low \in Nat /\ top \in Nat
    BY <1>4, <1>5
  <2> HIDE DEF b, c, top, low
  <2>2. SUFFICES ASSUME top >= c PROVE FALSE
    BY <2>1 DEF c
  <2>3. b * c <= b * top
    BY <2>1, <2>2
  <2>4. b * c = c * b /\ c * b \in Nat /\ b * top \in Nat
    BY <2>1
  <2> QED
    BY <2>1, <2>3, <2>4
<1>7. /\ v.words[L] + low * Pow[v.current] \in Nat
      /\ v.words[L] + low * Pow[v.current] < Pow[WordSize]
      /\ (v.words[L] + low * Pow[v.current]) \div Pow[v.current] = low
  <2>1. PICK w, c : w = v.words[L] /\ c = v.current
    OBVIOUS
  <2>2. w \in Nat /\ c \in Nat /\ w < Pow[c] /\ c + free = WordSize
    BY <1>1, <1>2, <1>3, <2>1
  <2> HIDE DEF free, low
  <2>3. /\ w + low * Pow[c] \in Nat /\ w + low * Pow[c] < Pow[c + free]
        /\ (w + low * Pow[c]) \div Pow[c] = low
    BY <1>3, <1>5, <2>2, Stacked, SMTT(30)
  <2> QED
    BY <2>1, <2>2, <2>3
<1>8. ShiftLeft(newBits, v.current) = low * Pow[v.current]
  <2>1. v.current % WordSize = v.current
    BY <1>0, <1>1, ModSmall
  <2>2. free \in Nat /\ free <= WordSize /\ WordSize - free = v.current
    BY <1>3
  <2> HIDE DEF free
  <2>3. (newBits * Pow[WordSize - free]) % Pow[WordSize]
          = (newBits % Pow[free]) * Pow[WordSize - free]
    BY <2>2, ShiftedOut
  <2> QED
    BY <2>1, <2>2, <2>3 DEF ShiftLeft
<1>9. ShiftRight(newBits, free) = top
  <2>1. CASE free < WordSize
    <3>1. free % WordSize = free
      <4> HIDE DEF free
      <4> QED
        BY <1>0, <1>3, <2>1, ModSmall
    <3> QED
      BY <3>1 DEF ShiftRight
  <2>2. CASE free = WordSize
    BY <1>3, <2>2
  <2> QED
    BY <1>0, <1>3, <2>1, <2>2
<1>10. AddNeighborIndex(v, newBits, n) = new
  <2>1. ~ (v.current + n <= WordSize) /\ v.current # WordSize
    BY <1>0, <1>1
  <2>2. AddNeighborIndex(v, newBits, n)
          = [[v EXCEPT !.total = @ + n] EXCEPT !.words = words, !.current = cur]
    <3> HIDE DEF low, top
    <3> QED
      BY <1>1, <1>8, <1>9, <2>1 DEF AddNeighborIndex, Vector
  <2> HIDE DEF words, cur
  <2> QED
    BY <1>1, <2>2 DEF Vector
<1>11. v.words[L] + low * Pow[v.current] \in Word /\ top \in Word
  <2>1. cur <= WordSize
    BY <1>3, <1>0
  <2>2. Pow[cur] <= Pow[WordSize]
    <3> HIDE DEF cur
    <3> QED
      BY <1>0, <1>3, <2>1, PowMonotone
  <2> HIDE DEF top, low, cur
  <2> QED
    BY <1>4, <1>5, <1>6, <1>7, <2>2, SMTT(30) DEF Word
<1>12. /\ fit \in Seq(Word) /\ Len(fit) = L
       /\ fit[L] = v.words[L] + low * Pow[v.current]
       /\ \A t \in 1 .. L - 1 : fit[t] = v.words[t]
  <2> HIDE DEF low
  <2> QED
    BY <1>1, <1>11
<1>13. /\ words \in Seq(Word) /\ Len(words) = L + 1
       /\ words[L + 1] = top
       /\ words[L] = v.words[L] + low * Pow[v.current]
       /\ \A t \in 1 .. L - 1 : words[t] = v.words[t]
  <2> HIDE DEF low, top, fit
  <2>1. /\ words \in Seq(Word) /\ Len(words) = L + 1 /\ words[L + 1] = top
        /\ \A t \in 1 .. L : words[t] = fit[t]
    <3> HIDE DEF L
    <3> QED
      BY <1>1, <1>11, <1>12
  <2>2. L \in 1 .. L /\ \A t \in 1 .. L - 1 : t \in 1 .. L
    BY <1>1
  <2> HIDE DEF words, L
  <2> QED
    BY <1>12, <2>1, <2>2
<1>14. Bits(words, L, cur, n) = newBits
  <2> HIDE DEF words, low, top, cur, free
  <2>1. ~ (n <= cur) /\ n - cur = free /\ WordSize - (n - cur) = v.current
    BY <1>3
  <2>2. top % Pow[cur] = top
    BY <1>4, <1>5, <1>6, ModSmall
  <2>3. Bits(words, L, cur, n) = top * Pow[free] + low
    BY <1>7, <1>13, <2>1, <2>2 DEF Bits
  <2> QED
    BY <1>4, <1>5, <2>3
<1>15. /\ cur \in 0 .. WordSize /\ v.total + n = L * WordSize + cur /\ (L + 1) - 1 = L
  <2>1. (L - 1) * WordSize = L * WordSize - WordSize /\ L * WordSize \in Nat
    BY <1>0, <1>1
  <2> DEFINE full == L * WordSize
  <2>2. v.total = full - WordSize + v.current /\ full \in Nat /\ v.current \in Nat /\ WordSize \in Nat
    BY <1>0, <1>1, <2>1
  <2>3. v.current + n = WordSize + cur /\ cur \in Nat /\ cur <= WordSize
    <3> HIDE DEF free, cur
    <3> QED
      BY <1>0, <1>3, <2>2
  <2> HIDE DEF full, cur
  <2>4. v.total + n = full + cur
    BY <2>2, <2>3
  <2> QED
    BY <1>1, <2>3, <2>4 DEF full
<1>16. AddsTo(v, newBits, n, words, cur, low)
  <2> HIDE DEF words, low, top, cur, free
  <2>1. /\ Len(words) >= L /\ words[Len(words)] < Pow[cur]
        /\ v.total + n = (Len(words) - 1) * WordSize + cur
        /\ Bits(words, Len(words) - 1, cur, n) = newBits
    BY <1>1, <1>6, <1>13, <1>14, <1>15
  <2> QED
    BY <1>3, <1>5, <1>13, <1>15, <2>1 DEF AddsTo
<1> HIDE DEF words, low, top, cur, free
<1>17. Adds(v, newBits, n, new)
  BY <1>16, AddsWords
<1> QED
  BY <1>10, <1>17

\* AddNeighborIndex: an index of n bits is read back as it was written, and so
\* are the ones before it.
LEMMA AddReadsBack ==
  ASSUME NEW v, Filled(v), NEW n \in Nat, n >= 1, n <= WordSize,
         NEW newBits \in Nat, newBits < Pow[n]
  PROVE  Adds(v, newBits, n, AddNeighborIndex(v, newBits, n))
<1>1. v.current \in Nat /\ v.current <= WordSize /\ WordSize \in Nat
  BY WordAssumption DEF Filled, IsVector, Vector
<1>2. CASE v.current + n <= WordSize
  BY <1>2, AddFits
<1>3. CASE v.current = WordSize
  BY <1>3, AddNext
<1>4. CASE v.current < WordSize /\ v.current + n > WordSize
  BY <1>4, AddSplit
<1> QED
  BY <1>1, <1>2, <1>3, <1>4

-----------------------------------------------------------------------------
(* Distances in a network nbr with the interfaces dn down.                    *)

Opens(nbr, dn, n) == {i \in DOMAIN nbr[n] : <<n, i>> \notin dn}

\* The nodes in S and the ones a node in S can send to.
Spread(nbr, dn, S) ==
  {m \in Node : \/ m \in S
                \/ \E x \in S : \E i \in Opens(nbr, dn, x) : nbr[x][i] = m}

Ball(nbr, dn, n) ==
  LET ball[j \in Nat] == IF j = 0 THEN {n} ELSE Spread(nbr, dn, ball[j - 1])
  IN  ball

\* The recursion of Ball.
LEMMA BallDef ==
  ASSUME NEW nbr, NEW dn, NEW n \in Node
  PROVE  /\ Ball(nbr, dn, n)[0] = {n}
         /\ \A k \in Nat : Ball(nbr, dn, n)[k + 1] = Spread(nbr, dn, Ball(nbr, dn, n)[k])
<1> DEFINE S == SUBSET Node
<1> DEFINE F == [x \in S \X Nat |-> Spread(nbr, dn, x[1])]
<1>1. \A A : Spread(nbr, dn, A) \in S
  BY DEF Spread
<1>2. F \in [S \X Nat -> S] /\ {n} \in S
  BY <1>1
<1>3. \A A \in S, k \in Nat : F[<<A, k>>] = Spread(nbr, dn, A)
  OBVIOUS
<1> HIDE DEF F, S
<1>4. PICK f \in [Nat -> S] : Solves(f, {n}, F)
  BY <1>2, Recursion
<1>5. f = [j \in Nat |-> IF j = 0 THEN {n} ELSE Spread(nbr, dn, f[j - 1])]
  <2>1. ASSUME NEW k \in Nat PROVE f[k] = IF k = 0 THEN {n} ELSE Spread(nbr, dn, f[k - 1])
    <3>1. CASE k = 0
      BY <1>4, <3>1 DEF Solves
    <3>2. CASE k # 0
      <4>1. f[k] = F[<<f[k - 1], k>>]
        BY <1>4, <3>2 DEF Solves
      <4>2. f[k - 1] \in S
        BY <3>2
      <4> QED
        BY <4>1, <4>2, <1>3, <3>2
    <3> QED
      BY <3>1, <3>2
  <2> QED
    BY <2>1
<1> DEFINE B == Ball(nbr, dn, n)
<1>6. B = [j \in Nat |-> IF j = 0 THEN {n} ELSE Spread(nbr, dn, B[j - 1])]
  BY <1>5 DEF Ball
<1> HIDE DEF B
<1>7. B[0] = {n}
  BY <1>6
<1>8. ASSUME NEW k \in Nat PROVE B[k + 1] = Spread(nbr, dn, B[k])
  <2>1. k + 1 \in Nat /\ k + 1 # 0 /\ (k + 1) - 1 = k
    OBVIOUS
  <2>2. B[k + 1] = Spread(nbr, dn, B[(k + 1) - 1])
    BY <1>6, <2>1
  <2> QED
    BY <2>1, <2>2
<1> QED
  BY <1>7, <1>8 DEF B

\* A ball consists of nodes and has its centre.
LEMMA BallType ==
  ASSUME NEW nbr, NEW dn, NEW n \in Node, NEW k \in Nat
  PROVE  Ball(nbr, dn, n)[k] \subseteq Node /\ n \in Ball(nbr, dn, n)[k]
<1> DEFINE B == Ball(nbr, dn, n)
<1> DEFINE T == {j \in Nat : B[j] \subseteq Node /\ n \in B[j]}
<1>1. B[0] = {n} /\ \A j \in Nat : B[j + 1] = Spread(nbr, dn, B[j])
  BY BallDef
<1> HIDE DEF B
<1>2. 0 \in T
  BY <1>1
<1>3. ASSUME NEW j \in Nat, j \in T PROVE j + 1 \in T
  BY <1>1, <1>3 DEF Spread
<1> HIDE DEF T
<1>4. k \in T
  BY <1>2, <1>3, Inductive
<1> QED
  BY <1>4 DEF T, B

\* One more hop never takes a node away.
LEMMA BallGrows ==
  ASSUME NEW nbr, NEW dn, NEW n \in Node, NEW j \in Nat, NEW k \in Nat, j <= k
  PROVE  Ball(nbr, dn, n)[j] \subseteq Ball(nbr, dn, n)[k]
<1> DEFINE B == Ball(nbr, dn, n)
<1> DEFINE T == {i \in Nat : B[j] \subseteq B[j + i]}
<1>1. \A i \in Nat : B[i + 1] = Spread(nbr, dn, B[i]) /\ B[i] \subseteq Node
  BY BallDef, BallType
<1> HIDE DEF B
<1>2. 0 \in T
  BY <1>1
<1>3. ASSUME NEW i \in Nat, i \in T PROVE i + 1 \in T
  <2>1. j + (i + 1) = (j + i) + 1 /\ j + i \in Nat
    OBVIOUS
  <2>2. B[j + (i + 1)] = Spread(nbr, dn, B[j + i]) /\ B[j + i] \subseteq Node
    BY <1>1, <2>1
  <2>3. B[j + i] \subseteq B[j + (i + 1)]
    BY <2>2 DEF Spread
  <2> QED
    BY <1>3, <2>3
<1>4. k - j \in Nat /\ j + (k - j) = k
  OBVIOUS
<1>5. k - j \in T
  <2> HIDE DEF T
  <2> QED
    BY <1>2, <1>3, <1>4, Inductive
<1> QED
  BY <1>4, <1>5 DEF T, B

\* What is within k hops of a neighbour is within k + 1.
LEMMA BallFirstHop ==
  ASSUME NEW nbr, NEW dn, NEW n \in Node, NEW i \in Opens(nbr, dn, n), nbr[n][i] \in Node,
         NEW k \in Nat
  PROVE  Ball(nbr, dn, nbr[n][i])[k] \subseteq Ball(nbr, dn, n)[k + 1]
<1> DEFINE m == nbr[n][i]
<1> DEFINE A == Ball(nbr, dn, m)
<1> DEFINE B == Ball(nbr, dn, n)
<1> DEFINE T == {j \in Nat : A[j] \subseteq B[j + 1]}
<1>0. m \in Node /\ i \in Opens(nbr, dn, n) /\ nbr[n][i] = m
  OBVIOUS
<1> HIDE DEF m
<1>1. A[0] = {m} /\ B[0] = {n} /\ \A j \in Nat : /\ A[j + 1] = Spread(nbr, dn, A[j])
                                                 /\ B[j + 1] = Spread(nbr, dn, B[j])
  BY <1>0, BallDef
<1> HIDE DEF A, B
<1>2. 0 \in T
  <2>1. B[0 + 1] = Spread(nbr, dn, B[0])
    BY <1>1
  <2>2. m \in Spread(nbr, dn, {n})
    BY <1>0 DEF Spread
  <2> QED
    BY <1>1, <2>1, <2>2
<1>3. ASSUME NEW j \in Nat, j \in T PROVE j + 1 \in T
  <2>1. A[j] \subseteq B[j + 1] /\ j + 1 \in Nat
    BY <1>3
  <2>2. A[j + 1] = Spread(nbr, dn, A[j]) /\ B[(j + 1) + 1] = Spread(nbr, dn, B[j + 1])
    BY <1>1, <2>1
  <2>3. A[j + 1] \subseteq B[(j + 1) + 1]
    BY <2>1, <2>2 DEF Spread
  <2> QED
    BY <2>1, <2>3
<1> HIDE DEF T
<1>4. k \in T
  BY <1>2, <1>3, Inductive
<1> QED
  BY <1>4 DEF T, A, B, m

\* What is within k + 1 hops is here or within k hops of a neighbour.
LEMMA BallSplits ==
  ASSUME NEW nbr, NEW dn, NEW n \in Node,
         \A i \in Opens(nbr, dn, n) : nbr[n][i] \in Node,
         NEW k \in Nat, NEW d \in Ball(nbr, dn, n)[k + 1]
  PROVE  d = n \/ \E i \in Opens(nbr, dn, n) : d \in Ball(nbr, dn, nbr[n][i])[k]
<1> DEFINE B == Ball(nbr, dn, n)
<1> DEFINE A(i) == Ball(nbr, dn, nbr[n][i])
<1> DEFINE O == Opens(nbr, dn, n)
<1> DEFINE T == {j \in Nat : \A x \in B[j + 1] : x = n \/ \E i \in O : x \in A(i)[j]}
<1>1. B[0] = {n} /\ \A j \in Nat : B[j + 1] = Spread(nbr, dn, B[j])
  BY BallDef
<1>2. ASSUME NEW i \in O
      PROVE  /\ nbr[n][i] \in Node /\ A(i)[0] = {nbr[n][i]}
             /\ \A j \in Nat : A(i)[j + 1] = Spread(nbr, dn, A(i)[j]) /\ nbr[n][i] \in A(i)[j]
                               /\ A(i)[j] \subseteq Node
  BY BallDef, BallType
<1> HIDE DEF B, A
<1>3. 0 \in T
  <2> SUFFICES ASSUME NEW x \in B[0 + 1] PROVE x = n \/ \E i \in O : x \in A(i)[0]
    OBVIOUS
  <2>1. x \in Spread(nbr, dn, {n})
    BY <1>1
  <2>2. x = n \/ \E i \in O : nbr[n][i] = x
    BY <2>1 DEF Spread
  <2> QED
    BY <1>2, <2>2
<1>4. ASSUME NEW j \in Nat, j \in T PROVE j + 1 \in T
  <2> SUFFICES ASSUME NEW x \in B[(j + 1) + 1], x # n
               PROVE  \E i \in O : x \in A(i)[j + 1]
    OBVIOUS
  <2>1. j + 1 \in Nat /\ x \in Spread(nbr, dn, B[j + 1])
    BY <1>1
  <2>2. \A y \in B[j + 1] : y = n \/ \E i \in O : y \in A(i)[j]
    BY <1>4
  <2>3. CASE x \in B[j + 1]
    <3>1. PICK i \in O : x \in A(i)[j]
      BY <2>2, <2>3
    <3>2. x \in A(i)[j + 1]
      BY <1>2, <3>1 DEF Spread
    <3> QED
      BY <3>2
  <2>4. CASE \E y \in B[j + 1] : \E l \in Opens(nbr, dn, y) : nbr[y][l] = x
    <3>0. PICK y \in B[j + 1] : \E l \in Opens(nbr, dn, y) : nbr[y][l] = x
      BY <2>4
    <3>1. PICK l \in Opens(nbr, dn, y) : nbr[y][l] = x
      BY <3>0
    <3>2. CASE y = n
      <4>1. l \in O /\ nbr[n][l] = x
        BY <3>1, <3>2
      <4>2. x \in A(l)[j + 1]
        BY <1>2, <2>1, <4>1
      <4> QED
        BY <4>1, <4>2
    <3>3. CASE \E i \in O : y \in A(i)[j]
      <4>1. PICK i \in O : y \in A(i)[j]
        BY <3>3
      <4>2. x \in Node
        BY <2>1 DEF Spread
      <4>3. x \in Spread(nbr, dn, A(i)[j])
        BY <3>1, <4>1, <4>2 DEF Spread
      <4> QED
        BY <1>2, <4>1, <4>3
    <3> QED
      BY <2>2, <3>2, <3>3
  <2> QED
    BY <2>1, <2>3, <2>4 DEF Spread
<1> HIDE DEF T
<1>5. k \in T
  BY <1>3, <1>4, Inductive
<1> QED
  BY <1>5 DEF T, A, B

-----------------------------------------------------------------------------
(* The way a vector leads.                                                    *)

\* Every device leads to a node.
Ends(nbr) == nbr \in [Node -> Seq(Node)]

\* d is k hops away from n and no nearer.
Near(nbr, dn, n, d, k) ==
  /\ k \in Nat /\ d \in Ball(nbr, dn, n)[k]
  /\ \A j \in Nat : j < k => d \notin Ball(nbr, dn, n)[j]

\* Device i is the first of n's open devices that leads nearer to d.
Best(nbr, dn, n, d, i) ==
  /\ i \in Opens(nbr, dn, n)
  /\ \E k \in Nat : /\ d \in Ball(nbr, dn, nbr[n][i])[k]
                    /\ d \notin Ball(nbr, dn, n)[k]
                    /\ \A j \in Opens(nbr, dn, n) :
                         j < i => d \notin Ball(nbr, dn, nbr[n][j])[k]

\* With q bits of the words left, node y is d and has none to read, or reads its
\* best device for d and hands on the rest to a node that does so, too.
Guides(nbr, dn, words, d, R, y, q) ==
  \/ y = d /\ q = 0
  \/ /\ y # d
     /\ BitCount(Len(nbr[y])) <= q
     /\ Best(nbr, dn, y, d, Extracted(words, q, BitCount(Len(nbr[y]))) + 1)
     /\ <<nbr[y][Extracted(words, q, BitCount(Len(nbr[y]))) + 1],
          q - BitCount(Len(nbr[y]))>> \in R

\* The last q bits of the words lead from node n to node d; R holds the places
\* on the way, with the bits that are left there.
LeadsBy(nbr, dn, words, n, q, d, R) ==
  /\ R \subseteq Node \X (0 .. q)
  /\ <<n, q>> \in R
  /\ \A e \in R : Guides(nbr, dn, words, d, R, e[1], e[2])

Leads(nbr, dn, words, n, q, d) == \E R : LeadsBy(nbr, dn, words, n, q, d, R)

\* What Best says about the distance.
LEMMA BestFar ==
  ASSUME NEW nbr, NEW dn, Ends(nbr), NEW n \in Node, NEW d, NEW i, Best(nbr, dn, n, d, i)
  PROVE  /\ i \in Opens(nbr, dn, n) /\ nbr[n][i] \in Node
         /\ \E k \in Nat : /\ Near(nbr, dn, n, d, k + 1) /\ Near(nbr, dn, nbr[n][i], d, k)
                           /\ \A j \in Opens(nbr, dn, n) :
                                j < i => d \notin Ball(nbr, dn, nbr[n][j])[k]
<1>1. PICK k \in Nat : /\ d \in Ball(nbr, dn, nbr[n][i])[k]
                       /\ d \notin Ball(nbr, dn, n)[k]
                       /\ \A j \in Opens(nbr, dn, n) :
                            j < i => d \notin Ball(nbr, dn, nbr[n][j])[k]
  BY DEF Best
<1>2. i \in Opens(nbr, dn, n) /\ nbr[n][i] \in Node
  BY DEF Best, Ends, Opens
<1>3. \A j \in Nat : Ball(nbr, dn, nbr[n][i])[j] \subseteq Ball(nbr, dn, n)[j + 1]
  BY <1>2, BallFirstHop
<1>4. d \in Ball(nbr, dn, n)[k + 1]
  BY <1>1, <1>3
<1>5. ASSUME NEW j \in Nat, j < k + 1 PROVE d \notin Ball(nbr, dn, n)[j]
  <2>1. j <= k
    BY <1>5
  <2>2. Ball(nbr, dn, n)[j] \subseteq Ball(nbr, dn, n)[k]
    BY <2>1, BallGrows
  <2> QED
    BY <1>1, <2>2
<1>6. ASSUME NEW j \in Nat, j < k PROVE d \notin Ball(nbr, dn, nbr[n][i])[j]
  <2>1. j + 1 \in Nat /\ j + 1 < k + 1
    BY <1>6
  <2> QED
    BY <1>3, <1>5, <2>1
<1>7. Near(nbr, dn, n, d, k + 1)
  BY <1>4, <1>5 DEF Near
<1>8. Near(nbr, dn, nbr[n][i], d, k)
  BY <1>1, <1>6 DEF Near
<1> QED
  BY <1>1, <1>2, <1>7, <1>8

\* There is one distance.
LEMMA NearUnique ==
  ASSUME NEW nbr, NEW dn, NEW n, NEW d, NEW j, NEW k,
         Near(nbr, dn, n, d, j), Near(nbr, dn, n, d, k)
  PROVE  j = k
<1>1. j \in Nat /\ k \in Nat /\ ~ (j < k) /\ ~ (k < j)
  BY DEF Near
<1> QED
  BY <1>1

\* All vectors that pass a node on the way to d leave it by the same device.
LEMMA BestUnique ==
  ASSUME NEW nbr, NEW dn, Ends(nbr), NEW n \in Node, NEW d, NEW i, NEW j,
         Best(nbr, dn, n, d, i), Best(nbr, dn, n, d, j)
  PROVE  i = j
<1>1. i \in Nat /\ j \in Nat
  BY DEF Best, Opens, Ends
<1>2. PICK k \in Nat : /\ Near(nbr, dn, n, d, k + 1) /\ Near(nbr, dn, nbr[n][i], d, k)
                       /\ \A l \in Opens(nbr, dn, n) :
                            l < i => d \notin Ball(nbr, dn, nbr[n][l])[k]
  BY BestFar
<1>3. PICK m \in Nat : /\ Near(nbr, dn, n, d, m + 1) /\ Near(nbr, dn, nbr[n][j], d, m)
                       /\ \A l \in Opens(nbr, dn, n) :
                            l < j => d \notin Ball(nbr, dn, nbr[n][l])[m]
  BY BestFar
<1>4. k + 1 = m + 1
  BY <1>2, <1>3, NearUnique
<1>5. k = m
  BY <1>4
<1>6. d \in Ball(nbr, dn, nbr[n][i])[k] /\ d \in Ball(nbr, dn, nbr[n][j])[k]
  BY <1>2, <1>3, <1>5 DEF Near
<1>7. i \in Opens(nbr, dn, n) /\ j \in Opens(nbr, dn, n)
  BY DEF Best
<1>8. ~ (i < j) /\ ~ (j < i)
  BY <1>2, <1>3, <1>5, <1>6, <1>7
<1> QED
  BY <1>1, <1>8

\* A hop by the best device goes one hop nearer.
LEMMA BestNearer ==
  ASSUME NEW nbr, NEW dn, Ends(nbr), NEW n \in Node, NEW d, NEW i, Best(nbr, dn, n, d, i),
         NEW k, Near(nbr, dn, n, d, k)
  PROVE  k - 1 \in Nat /\ Near(nbr, dn, nbr[n][i], d, k - 1)
<1>1. PICK j \in Nat : Near(nbr, dn, n, d, j + 1) /\ Near(nbr, dn, nbr[n][i], d, j)
  BY BestFar
<1>2. k = j + 1
  BY <1>1, NearUnique
<1>3. k - 1 = j
  BY <1>2
<1> QED
  BY <1>1, <1>3

\* A node is no hops away from itself.
LEMMA NearHere ==
  ASSUME NEW nbr, NEW dn, NEW n \in Node, NEW k, Near(nbr, dn, n, n, k)
  PROVE  k = 0
<1>1. n \in Ball(nbr, dn, n)[0]
  BY BallType
<1> QED
  BY <1>1 DEF Near

\* Following the vector for one hop.
LEMMA LeadsOn ==
  ASSUME NEW nbr, NEW dn, Ends(nbr), NEW words, NEW n \in Node, NEW q, NEW d,
         Leads(nbr, dn, words, n, q, d), n # d
  PROVE  LET b == BitCount(Len(nbr[n]))
             i == Extracted(words, q, b) + 1
         IN  /\ q \in Nat /\ b <= q
             /\ Best(nbr, dn, n, d, i)
             /\ Leads(nbr, dn, words, nbr[n][i], q - b, d)
<1> DEFINE b == BitCount(Len(nbr[n]))
<1> DEFINE i == Extracted(words, q, b) + 1
<1> DEFINE m == nbr[n][i]
<1>1. PICK R : LeadsBy(nbr, dn, words, n, q, d, R)
  BY DEF Leads
<1>2. /\ R \subseteq Node \X (0 .. q) /\ <<n, q>> \in R
      /\ \A e \in R : Guides(nbr, dn, words, d, R, e[1], e[2])
  BY <1>1 DEF LeadsBy
<1>3. Guides(nbr, dn, words, d, R, n, q)
  BY <1>2
<1>4. b <= q /\ Best(nbr, dn, n, d, i) /\ <<m, q - b>> \in R
  BY <1>3 DEF Guides
<1>5. q \in 0 .. q /\ q - b \in 0 .. q
  BY <1>2, <1>4
<1> HIDE DEF b, i, m
<1> DEFINE left == q - b
<1>6. q \in Nat /\ left \in 0 .. q
  BY <1>5
<1> DEFINE Q == {e \in R : e[2] <= left}
<1>7. <<m, left>> \in Q /\ Q \subseteq R
  BY <1>4, <1>6
<1>8. Q \subseteq Node \X (0 .. left)
  BY <1>2, <1>6
<1>9. ASSUME NEW e \in Q PROVE Guides(nbr, dn, words, d, Q, e[1], e[2])
  <2> DEFINE y == e[1]
  <2> DEFINE r == e[2]
  <2> DEFINE c == BitCount(Len(nbr[y]))
  <2> DEFINE z == nbr[y][Extracted(words, r, c) + 1]
  <2>1. y \in Node /\ r \in Nat /\ r <= left /\ Guides(nbr, dn, words, d, R, y, r)
    BY <1>2, <1>7, <1>8, <1>6
  <2>2. CASE y = d /\ r = 0
    BY <2>2 DEF Guides
  <2>3. CASE ~ (y = d /\ r = 0)
    <3>1. /\ y # d /\ c <= r /\ Best(nbr, dn, y, d, Extracted(words, r, c) + 1)
          /\ <<z, r - c>> \in R
      BY <2>1, <2>3 DEF Guides
    <3>2. c \in Nat
      <4>1. Len(nbr[y]) \in Nat
        BY <2>1 DEF Ends
      <4> QED
        BY <4>1, Width
    <3>3. r - c <= left
      BY <1>6, <2>1, <3>1, <3>2
    <3>4. <<z, r - c>> \in Q
      <4> DEFINE s == r - c
      <4> HIDE DEF z, s
      <4> QED
        BY <3>1, <3>3 DEF s
    <3> QED
      BY <3>1, <3>4 DEF Guides
  <2> QED
    BY <2>2, <2>3
<1> HIDE DEF left, Q
<1>10. LeadsBy(nbr, dn, words, m, left, d, Q)
  BY <1>7, <1>8, <1>9 DEF LeadsBy
<1>11. Leads(nbr, dn, words, m, left, d)
  BY <1>10 DEF Leads
<1> QED
  BY <1>4, <1>6, <1>11 DEF left, m, i, b

-----------------------------------------------------------------------------
(* The breadth-first search.                                                  *)

\* Device i of the p-th node is no later in the search than device j of the q-th.
Upto(p, i, q, j) == p < q \/ (p = q /\ i <= j)

\* A search tree from source: the nodes in the order of their discovery, the
\* place of the parent of each and the parent's device that leads to it.
Tree(nbr, dn, source, order, parent, par, dev) ==
  /\ order \in Seq(Node) /\ par \in Seq(Nat) /\ dev \in Seq(Nat)
  /\ Len(par) = Len(order) /\ Len(dev) = Len(order)
  /\ Len(order) >= 1 /\ order[1] = source
  /\ \A j, l \in 1 .. Len(order) : order[j] = order[l] => j = l
  /\ parent \in [Node -> Node \cup {None}]
  /\ \A m \in Node : parent[m] # None <=> \E j \in 1 .. Len(order) : order[j] = m
  /\ \A j \in 2 .. Len(order) :
       /\ par[j] \in 1 .. j - 1
       /\ parent[order[j]] = order[par[j]]
       /\ dev[j] \in Opens(nbr, dn, order[par[j]])
       /\ nbr[order[par[j]]][dev[j]] = order[j]
  /\ \A j, l \in 2 .. Len(order) : j < l => ~ Upto(par[l], dev[l], par[j], dev[j])

\* All neighbours up to device i of the h-th node have been looked at, no others.
Scanned(nbr, dn, order, par, dev, h, i) ==
  /\ \A j \in 2 .. Len(order) : Upto(par[j], dev[j], h, i)
  /\ \A q \in 1 .. Len(order) : \A a \in Opens(nbr, dn, order[q]) :
       Upto(q, a, h, i) =>
         \E v \in 1 .. Len(order) : /\ order[v] = nbr[order[q]][a]
                                    /\ v = 1 \/ Upto(par[v], dev[v], q, a)

Search(nbr, dn, source, order, parent, h, i) ==
  \E par, dev : /\ Tree(nbr, dn, source, order, parent, par, dev)
                /\ Scanned(nbr, dn, order, par, dev, h, i)

\* A neighbour that is found already.
LEMMA ScanKnown ==
  ASSUME NEW nbr, NEW dn, Ends(nbr), NEW source, NEW order, NEW parent, NEW par, NEW dev,
         NEW h \in Nat, NEW i \in Nat,
         Tree(nbr, dn, source, order, parent, par, dev),
         Scanned(nbr, dn, order, par, dev, h, i),
         h \in 1 .. Len(order),
         i + 1 \in Opens(nbr, dn, order[h]) => parent[nbr[order[h]][i + 1]] # None
  PROVE  Scanned(nbr, dn, order, par, dev, h, i + 1)
<1> DEFINE L == Len(order)
<1>1. /\ L \in Nat /\ \A j \in 1 .. L : order[j] \in Node /\ par[j] \in Nat /\ dev[j] \in Nat
  BY SMTT(30) DEF Tree
<1>2. ASSUME NEW j \in 2 .. L PROVE Upto(par[j], dev[j], h, i + 1)
  <2>1. Upto(par[j], dev[j], h, i) /\ j \in 1 .. L
    BY <1>1 DEF Scanned
  <2> QED
    BY <1>1, <2>1 DEF Upto
<1>3. ASSUME NEW q \in 1 .. L, NEW a \in Opens(nbr, dn, order[q]), Upto(q, a, h, i + 1)
      PROVE  \E v \in 1 .. L : order[v] = nbr[order[q]][a] /\ (v = 1 \/ Upto(par[v], dev[v], q, a))
  <2>0. a \in Nat /\ q \in Nat
    BY <1>1, SMTT(30) DEF Opens, Ends
  <2>1. CASE Upto(q, a, h, i)
    BY <2>1 DEF Scanned
  <2>2. CASE ~ Upto(q, a, h, i)
    <3>1. q = h /\ a = i + 1
      BY <1>3, <2>0, <2>2 DEF Upto
    <3>2. nbr[order[q]][a] \in Node
      BY <1>1 DEF Opens, Ends
    <3>3. PICK v \in 1 .. L : order[v] = nbr[order[q]][a]
      BY <3>1, <3>2 DEF Tree
    <3>4. v = 1 \/ v \in 2 .. L
      BY <1>1
    <3>5. v \in 2 .. L => Upto(par[v], dev[v], h, i)
      BY DEF Scanned
    <3>6. v \in 2 .. L => Upto(par[v], dev[v], q, a)
      BY <1>1, <3>1, <3>5 DEF Upto
    <3> QED
      BY <3>3, <3>4, <3>6
  <2> QED
    BY <2>1, <2>2
<1> QED
  BY <1>2, <1>3 DEF Scanned

\* Appending to three sequences of the same length.
Extends(order, par, dev, m, h, k, order2, par2, dev2) ==
  LET L == Len(order)
  IN  /\ order2 \in Seq(Node) /\ par2 \in Seq(Nat) /\ dev2 \in Seq(Nat)
      /\ Len(order2) = L + 1 /\ Len(par2) = L + 1 /\ Len(dev2) = L + 1
      /\ \A j \in 1 .. L : order2[j] = order[j] /\ par2[j] = par[j] /\ dev2[j] = dev[j]
      /\ order2[L + 1] = m /\ par2[L + 1] = h /\ dev2[L + 1] = k

\* Append does so.
LEMMA AppendsAll ==
  ASSUME NEW order \in Seq(Node), NEW par \in Seq(Nat), NEW dev \in Seq(Nat),
         Len(par) = Len(order), Len(dev) = Len(order),
         NEW m \in Node, NEW h \in Nat, NEW k \in Nat
  PROVE  Extends(order, par, dev, m, h, k, Append(order, m), Append(par, h), Append(dev, k))
BY DEF Extends

\* A neighbour that is found now.
LEMMA ScanNew ==
  ASSUME NEW nbr, NEW dn, Ends(nbr), NEW source, NEW order, NEW parent, NEW par, NEW dev,
         NEW h \in Nat, NEW i \in Nat,
         Tree(nbr, dn, source, order, parent, par, dev),
         Scanned(nbr, dn, order, par, dev, h, i),
         h \in 1 .. Len(order),
         NEW m \in Node, i + 1 \in Opens(nbr, dn, order[h]), m = nbr[order[h]][i + 1],
         parent[m] = None,
         NEW order2, NEW par2, NEW dev2,
         Extends(order, par, dev, m, h, i + 1, order2, par2, dev2)
  PROVE  /\ Tree(nbr, dn, source, order2, [parent EXCEPT ![m] = order[h]], par2, dev2)
         /\ Scanned(nbr, dn, order2, par2, dev2, h, i + 1)
<1> DEFINE L == Len(order)
<1> DEFINE K == L + 1
<1> DEFINE parent2 == [parent EXCEPT ![m] = order[h]]
<1>1. /\ L \in Nat /\ L >= 1
      /\ \A j \in 1 .. L : order[j] \in Node /\ par[j] \in Nat /\ dev[j] \in Nat
      /\ parent \in [Node -> Node \cup {None}]
  <2>1. /\ order \in Seq(Node) /\ par \in Seq(Nat) /\ dev \in Seq(Nat)
        /\ Len(par) = Len(order) /\ Len(dev) = Len(order) /\ Len(order) >= 1
        /\ parent \in [Node -> Node \cup {None}]
    BY DEF Tree
  <2> QED
    BY <2>1, SMTT(30)
<1>2. /\ Len(order2) = K /\ Len(par2) = K /\ Len(dev2) = K
      /\ order2 \in Seq(Node) /\ par2 \in Seq(Nat) /\ dev2 \in Seq(Nat)
      /\ \A j \in 1 .. L : order2[j] = order[j] /\ par2[j] = par[j] /\ dev2[j] = dev[j]
      /\ order2[K] = m /\ par2[K] = h /\ dev2[K] = i + 1
  BY DEF Extends
<1>3. \A j \in 1 .. L : order[j] # m
  BY DEF Tree
<1>4. \A j \in 1 .. K : j = K \/ j \in 1 .. L
  BY <1>1
<1>5. \A j \in 2 .. K : j = K \/ (j \in 2 .. L /\ j \in 1 .. L)
  BY <1>1
<1>6. order[h] \in Node /\ order[h] # None /\ None \notin Node
  BY <1>1, NixAssumption
<1>7. parent2 \in [Node -> Node \cup {None}]
  BY <1>1, <1>6
<1>8. parent2[m] = order[h] /\ \A n \in Node : n # m => parent2[n] = parent[n]
  BY <1>1
<1> HIDE DEF parent2, L
<1>9. order2[1] = source /\ 1 \in 1 .. L
  <2>1. order[1] = source
    BY DEF Tree
  <2> QED
    BY <1>1, <1>2, <2>1
<1>10. ASSUME NEW j \in 1 .. K, NEW l \in 1 .. K, order2[j] = order2[l] PROVE j = l
  <2>1. \A x, y \in 1 .. L : order[x] = order[y] => x = y
    BY DEF Tree, L
  <2> QED
    BY <1>2, <1>3, <1>4, <1>10, <2>1
<1>11. ASSUME NEW n \in Node PROVE parent2[n] # None <=> \E j \in 1 .. K : order2[j] = n
  <2>1. parent[n] # None <=> \E j \in 1 .. L : order[j] = n
    BY DEF Tree, L
  <2>2. K \in 1 .. K /\ \A j \in 1 .. L : j \in 1 .. K
    BY <1>1
  <2> QED
    BY <1>2, <1>4, <1>6, <1>8, <2>1, <2>2
<1>12. \A j \in 2 .. L : par[j] \in 1 .. L
  <2> SUFFICES ASSUME NEW j \in 2 .. L PROVE par[j] \in 1 .. L
    OBVIOUS
  <2>1. par[j] \in 1 .. j - 1
    BY DEF Tree, L
  <2> QED
    BY <1>1, <2>1
<1>13. ASSUME NEW j \in 2 .. K
       PROVE  /\ par2[j] \in 1 .. j - 1
              /\ parent2[order2[j]] = order2[par2[j]]
              /\ dev2[j] \in Opens(nbr, dn, order2[par2[j]])
              /\ nbr[order2[par2[j]]][dev2[j]] = order2[j]
  <2>1. CASE j = K
    <3>1. order2[h] = order[h]
      BY <1>2 DEF L
    <3>2. h \in 1 .. K - 1
      BY <1>1 DEF L
    <3> QED
      BY <1>2, <1>8, <2>1, <3>1, <3>2
  <2>2. CASE j \in 2 .. L /\ j \in 1 .. L
    <3>1. /\ par[j] \in 1 .. j - 1
          /\ parent[order[j]] = order[par[j]]
          /\ dev[j] \in Opens(nbr, dn, order[par[j]])
          /\ nbr[order[par[j]]][dev[j]] = order[j]
      BY <2>2 DEF Tree, L
    <3>2. order2[j] = order[j] /\ par2[j] = par[j] /\ dev2[j] = dev[j]
      BY <1>2, <2>2
    <3>3. order2[par[j]] = order[par[j]]
      BY <1>2, <1>12, <2>2
    <3>4. order[j] # m /\ order[j] \in Node
      BY <1>1, <1>3, <2>2 DEF L
    <3>5. parent2[order[j]] = parent[order[j]]
      BY <1>8, <3>4
    <3> QED
      BY <3>1, <3>2, <3>3, <3>5
  <2> QED
    BY <1>5, <2>1, <2>2
<1>14. \A j \in 2 .. L : Upto(par[j], dev[j], h, i)
  BY DEF Scanned, L
<1>15. ASSUME NEW j \in 2 .. K, NEW l \in 2 .. K, j < l
       PROVE  ~ Upto(par2[l], dev2[l], par2[j], dev2[j])
  <2>0. j \in 2 .. L /\ j \in 1 .. L
    BY <1>1, <1>15
  <2>1. CASE l = K
    <3>1. /\ par2[l] = h /\ dev2[l] = i + 1 /\ par2[j] = par[j] /\ dev2[j] = dev[j]
          /\ par[j] \in Nat /\ dev[j] \in Nat
      BY <1>1, <1>2, <2>0, <2>1 DEF L
    <3>2. ~ Upto(h, i + 1, par[j], dev[j])
      BY <1>14, <2>0, <3>1 DEF Upto
    <3> QED
      BY <3>1, <3>2
  <2>2. CASE l \in 2 .. L /\ l \in 1 .. L
    <3>1. ~ Upto(par[l], dev[l], par[j], dev[j])
      BY <1>15, <2>0, <2>2 DEF Tree, L
    <3> QED
      BY <1>2, <2>0, <2>2, <3>1
  <2> QED
    BY <1>5, <2>1, <2>2
<1>16. Tree(nbr, dn, source, order2, parent2, par2, dev2)
  <2>1. Len(order2) >= 1
    BY <1>1, <1>2
  <2> HIDE DEF K
  <2> QED
    BY <2>1, <1>2, <1>7, <1>9, <1>10, <1>11, <1>13, <1>15, SMTT(30) DEF Tree
<1>17. ASSUME NEW j \in 2 .. K PROVE Upto(par2[j], dev2[j], h, i + 1)
  <2>1. CASE j = K
    BY <1>2, <2>1 DEF Upto
  <2>2. CASE j \in 2 .. L /\ j \in 1 .. L
    <3>1. par[j] \in Nat /\ dev[j] \in Nat /\ par2[j] = par[j] /\ dev2[j] = dev[j]
      BY <1>1, <1>2, <2>2 DEF L
    <3> QED
      BY <1>14, <2>2, <3>1 DEF Upto
  <2> QED
    BY <1>5, <2>1, <2>2
<1>18. ASSUME NEW q \in 1 .. K, NEW a \in Opens(nbr, dn, order2[q]), Upto(q, a, h, i + 1)
       PROVE  \E v \in 1 .. K : /\ order2[v] = nbr[order2[q]][a]
                                /\ v = 1 \/ Upto(par2[v], dev2[v], q, a)
  <2>0. q \in 1 .. L /\ q \in Nat
    BY <1>1, <1>18 DEF Upto, L
  <2>1. order2[q] = order[q] /\ order[q] \in Node
    BY <1>1, <1>2, <2>0 DEF L
  <2>2. a \in Opens(nbr, dn, order[q]) /\ a \in Nat
    BY <2>1, SMTT(30) DEF Opens, Ends
  <2>3. CASE Upto(q, a, h, i)
    <3>1. PICK v \in 1 .. L : /\ order[v] = nbr[order[q]][a]
                              /\ v = 1 \/ Upto(par[v], dev[v], q, a)
      BY <2>0, <2>2, <2>3 DEF Scanned, L
    <3>2. v \in 1 .. K /\ order2[v] = order[v] /\ par2[v] = par[v] /\ dev2[v] = dev[v]
      BY <1>1, <1>2
    <3> QED
      BY <2>1, <3>1, <3>2
  <2>4. CASE ~ Upto(q, a, h, i)
    <3>1. q = h /\ a = i + 1
      BY <1>18, <2>0, <2>2, <2>4 DEF Upto
    <3>2. K \in 1 .. K /\ order2[K] = nbr[order2[q]][a]
      BY <1>1, <1>2, <2>1, <3>1
    <3>3. Upto(par2[K], dev2[K], q, a)
      BY <1>2, <3>1 DEF Upto
    <3> QED
      BY <3>2, <3>3
  <2> QED
    BY <2>3, <2>4
<1>19. Scanned(nbr, dn, order2, par2, dev2, h, i + 1)
  <2> HIDE DEF K
  <2> QED
    BY <1>2, <1>17, <1>18 DEF Scanned
<1> QED
  BY <1>16, <1>19 DEF parent2

\* The states of the search.
State == [order : Seq(Node), head : Nat, parent : [Node -> Node \cup {None}]]

\* Open in terms of the network.
LEMMA OpenIs == \A n : Open(n) = Opens(neighbors, down, n)
BY DEF Open, Opens

\* A visit leads from a state of the search to another.
LEMMA VisitType ==
  ASSUME Ends(neighbors), NEW s \in State, NEW curr \in Node, NEW i
  PROVE  Visit(s, curr, i) \in State
<1> DEFINE m == neighbors[curr][i]
<1>1. CASE i \in Open(curr) /\ s.parent[m] = None
  <2>1. m \in Node
    BY <1>1 DEF Open, Ends
  <2>2. Visit(s, curr, i) = [s EXCEPT !.order = Append(@, m), !.parent[m] = curr]
    BY <1>1 DEF Visit
  <2> HIDE DEF m
  <2>3. s.order \in Seq(Node) /\ s.parent \in [Node -> Node \cup {None}] /\ s.head \in Nat
    BY DEF State
  <2>4. Append(s.order, m) \in Seq(Node) /\ [s.parent EXCEPT ![m] = curr] \in [Node -> Node \cup {None}]
    BY <2>1, <2>3
  <2>5. Visit(s, curr, i) = [order |-> Append(s.order, m), head |-> s.head,
                             parent |-> [s.parent EXCEPT ![m] = curr]]
    BY <2>2 DEF State
  <2> QED
    BY <2>3, <2>4, <2>5 DEF State
<1>2. CASE ~ (i \in Open(curr) /\ s.parent[m] = None)
  BY <1>2 DEF Visit
<1> QED
  BY <1>1, <1>2

\* The turn's loop over the devices of curr.
Scan(s, curr) ==
  LET scan[i \in Nat] == IF i = 0 THEN s ELSE Visit(scan[i - 1], curr, i)
  IN  scan

\* The recursion of Scan.
LEMMA ScanDef ==
  ASSUME Ends(neighbors), NEW s \in State, NEW curr \in Node
  PROVE  /\ Scan(s, curr)[0] = s
         /\ \A i \in Nat : Scan(s, curr)[i + 1] = Visit(Scan(s, curr)[i], curr, i + 1)
<1> DEFINE S == State
<1> DEFINE F == [x \in S \X Nat |-> Visit(x[1], curr, x[2])]
<1>1. \A x \in S : \A k : Visit(x, curr, k) \in S
  BY VisitType
<1>2. F \in [S \X Nat -> S] /\ s \in S
  BY <1>1
<1>3. \A x \in S, k \in Nat : F[<<x, k>>] = Visit(x, curr, k)
  OBVIOUS
<1> HIDE DEF F, S
<1>4. PICK f \in [Nat -> S] : Solves(f, s, F)
  BY <1>2, Recursion
<1>5. f = [i \in Nat |-> IF i = 0 THEN s ELSE Visit(f[i - 1], curr, i)]
  <2>1. ASSUME NEW k \in Nat PROVE f[k] = IF k = 0 THEN s ELSE Visit(f[k - 1], curr, k)
    <3>1. CASE k = 0
      BY <1>4, <3>1 DEF Solves
    <3>2. CASE k # 0
      <4>1. f[k] = F[<<f[k - 1], k>>]
        BY <1>4, <3>2 DEF Solves
      <4>2. f[k - 1] \in S
        BY <3>2
      <4> QED
        BY <4>1, <4>2, <1>3, <3>2
    <3> QED
      BY <3>1, <3>2
  <2> QED
    BY <2>1
<1> DEFINE B == Scan(s, curr)
<1>6. B = [i \in Nat |-> IF i = 0 THEN s ELSE Visit(B[i - 1], curr, i)]
  BY <1>5 DEF Scan
<1> HIDE DEF B
<1>7. B[0] = s
  BY <1>6
<1>8. ASSUME NEW k \in Nat PROVE B[k + 1] = Visit(B[k], curr, k + 1)
  <2>1. k + 1 \in Nat /\ k + 1 # 0 /\ (k + 1) - 1 = k
    OBVIOUS
  <2>2. B[k + 1] = Visit(B[(k + 1) - 1], curr, k + 1)
    BY <1>6, <2>1
  <2> QED
    BY <2>1, <2>2
<1> QED
  BY <1>7, <1>8 DEF B

\* A state of the search from source in which the devices of the h-th node, curr,
\* have been looked at up to i.
At(s, source, h, curr, i) ==
  /\ s \in State /\ s.head = h
  /\ h \in 1 .. Len(s.order) /\ s.order[h] = curr
  /\ Search(neighbors, down, source, s.order, s.parent, h, i)

\* One more device is looked at.
LEMMA VisitStep ==
  ASSUME Ends(neighbors), NEW s, NEW source, NEW h \in Nat, NEW curr, NEW i \in Nat,
         At(s, source, h, curr, i)
  PROVE  /\ At(Visit(s, curr, i + 1), source, h, curr, i + 1)
         /\ \A q \in 1 .. h : Visit(s, curr, i + 1).order[q] = s.order[q]
<1> DEFINE t == Visit(s, curr, i + 1)
<1> DEFINE m == neighbors[curr][i + 1]
<1>1. /\ s \in State /\ s.head = h /\ h \in 1 .. Len(s.order) /\ s.order[h] = curr
      /\ s.order \in Seq(Node) /\ s.parent \in [Node -> Node \cup {None}] /\ curr \in Node
  BY DEF At, State
<1>2. PICK par, dev : /\ Tree(neighbors, down, source, s.order, s.parent, par, dev)
                      /\ Scanned(neighbors, down, s.order, par, dev, h, i)
  BY DEF At, Search
<1>3. t \in State
  BY <1>1, VisitType
<1>4. CASE i + 1 \in Open(curr) /\ s.parent[m] = None
  <2>1. m \in Node /\ i + 1 \in Opens(neighbors, down, curr)
    BY <1>1, <1>4 DEF Ends, Open, Opens
  <2>2. t = [s EXCEPT !.order = Append(@, m), !.parent[m] = curr]
    BY <1>4 DEF Visit
  <2> DEFINE order2 == Append(s.order, m)
  <2> DEFINE par2 == Append(par, h)
  <2> DEFINE dev2 == Append(dev, i + 1)
  <2> DEFINE parent2 == [s.parent EXCEPT ![m] = curr]
  <2>3. t.order = order2 /\ t.head = h /\ t.parent = parent2
    BY <1>1, <2>2 DEF State
  <2>4. Extends(s.order, par, dev, m, h, i + 1, order2, par2, dev2)
    <3>1. /\ par \in Seq(Nat) /\ dev \in Seq(Nat)
          /\ Len(par) = Len(s.order) /\ Len(dev) = Len(s.order)
      BY <1>2 DEF Tree
    <3> HIDE DEF m
    <3> QED
      BY <1>1, <2>1, <3>1, AppendsAll, SMTT(30)
  <2>5. Len(order2) = Len(s.order) + 1 /\ \A q \in 1 .. Len(s.order) : order2[q] = s.order[q]
    BY <2>4 DEF Extends
  <2>6. /\ Tree(neighbors, down, source, order2, parent2, par2, dev2)
        /\ Scanned(neighbors, down, order2, par2, dev2, h, i + 1)
    <3>1. m = neighbors[s.order[h]][i + 1]
      BY <1>1
    <3> HIDE DEF m, par2, dev2, order2
    <3> QED
      BY <1>1, <1>2, <1>4, <2>1, <2>4, <3>1, ScanNew
  <2>7. Search(neighbors, down, source, order2, parent2, h, i + 1)
    BY <2>6 DEF Search
  <2> HIDE DEF order2, parent2, t
  <2>8. h \in 1 .. Len(order2) /\ \A q \in 1 .. h : order2[q] = s.order[q]
    BY <1>1, <2>5
  <2>9. h \in 1 .. h
    BY <1>1
  <2> QED
    BY <1>1, <1>3, <2>3, <2>7, <2>8, <2>9 DEF At, t
<1>5. CASE ~ (i + 1 \in Open(curr) /\ s.parent[m] = None)
  <2>1. t = s
    BY <1>5 DEF Visit
  <2>2. i + 1 \in Opens(neighbors, down, curr) => s.parent[m] # None
    BY <1>5, OpenIs
  <2>3. Scanned(neighbors, down, s.order, par, dev, h, i + 1)
    BY <1>1, <1>2, <2>2, ScanKnown
  <2>4. Search(neighbors, down, source, s.order, s.parent, h, i + 1)
    BY <1>2, <2>3 DEF Search
  <2> HIDE DEF t
  <2> QED
    BY <1>1, <2>1, <2>4 DEF At, t
<1> QED
  BY <1>4, <1>5

\* The first h nodes are the same.
Keeps(s, u, h) == \A q \in 1 .. h : u.order[q] = s.order[q]

\* All devices up to i are looked at.
LEMMA ScanAll ==
  ASSUME Ends(neighbors), NEW s, NEW source, NEW h \in Nat, NEW curr,
         At(s, source, h, curr, 0), NEW i \in Nat
  PROVE  /\ At(Scan(s, curr)[i], source, h, curr, i)
         /\ Keeps(s, Scan(s, curr)[i], h)
<1> DEFINE B == Scan(s, curr)
<1>1. s \in State /\ curr \in Node
  BY DEF At, State
<1>2. B[0] = s /\ \A k \in Nat : B[k + 1] = Visit(B[k], curr, k + 1)
  BY <1>1, ScanDef
<1> HIDE DEF B
<1> DEFINE T == {k \in Nat : /\ At(B[k], source, h, curr, k)
                             /\ \A q \in 1 .. h : B[k].order[q] = s.order[q]}
<1>3. 0 \in T
  BY <1>2
<1>4. ASSUME NEW k \in Nat, k \in T PROVE k + 1 \in T
  <2>1. /\ At(Visit(B[k], curr, k + 1), source, h, curr, k + 1)
        /\ \A q \in 1 .. h : Visit(B[k], curr, k + 1).order[q] = B[k].order[q]
    <3>1. PICK b : b = B[k]
      OBVIOUS
    <3>2. At(b, source, h, curr, k)
      BY <1>4, <3>1
    <3>3. /\ At(Visit(b, curr, k + 1), source, h, curr, k + 1)
          /\ \A q \in 1 .. h : Visit(b, curr, k + 1).order[q] = b.order[q]
      BY <3>2, VisitStep
    <3> QED
      BY <3>1, <3>3
  <2> QED
    BY <1>2, <1>4, <2>1
<1> HIDE DEF T
<1>5. i \in T
  BY <1>3, <1>4, Inductive
<1> QED
  BY <1>5 DEF T, B, Keeps

\* The search goes on with the next node.
LEMMA ScanNext ==
  ASSUME NEW nbr, NEW dn, Ends(nbr), NEW source, NEW order, NEW parent, NEW h \in Nat,
         h \in 1 .. Len(order),
         Search(nbr, dn, source, order, parent, h, Len(nbr[order[h]]))
  PROVE  Search(nbr, dn, source, order, parent, h + 1, 0)
<1> DEFINE L == Len(order)
<1> DEFINE i == Len(nbr[order[h]])
<1>1. PICK par, dev : /\ Tree(nbr, dn, source, order, parent, par, dev)
                      /\ Scanned(nbr, dn, order, par, dev, h, i)
  BY DEF Search
<1>2. /\ L \in Nat
      /\ \A j \in 1 .. L : order[j] \in Node /\ par[j] \in Nat /\ dev[j] \in Nat
  <2>1. /\ order \in Seq(Node) /\ par \in Seq(Nat) /\ dev \in Seq(Nat)
        /\ Len(par) = Len(order) /\ Len(dev) = Len(order)
    BY <1>1 DEF Tree
  <2> QED
    BY <2>1, SMTT(30)
<1>3. i \in Nat
  BY <1>2 DEF Ends
<1>4. ASSUME NEW j \in 2 .. L PROVE Upto(par[j], dev[j], h + 1, 0)
  <2>1. Upto(par[j], dev[j], h, i) /\ j \in 1 .. L
    BY <1>1, <1>2 DEF Scanned
  <2> QED
    BY <1>2, <2>1 DEF Upto
<1>5. ASSUME NEW q \in 1 .. L, NEW a \in Opens(nbr, dn, order[q]), Upto(q, a, h + 1, 0)
      PROVE  \E v \in 1 .. L : order[v] = nbr[order[q]][a] /\ (v = 1 \/ Upto(par[v], dev[v], q, a))
  <2>1. a \in Nat /\ a >= 1 /\ a <= Len(nbr[order[q]]) /\ q \in Nat
    BY <1>2 DEF Opens, Ends
  <2>2. q < h \/ q = h
    BY <1>5, <2>1 DEF Upto
  <2>3. Upto(q, a, h, i)
    BY <2>1, <2>2 DEF Upto
  <2> QED
    BY <1>1, <2>3 DEF Scanned
<1>6. Scanned(nbr, dn, order, par, dev, h + 1, 0)
  BY <1>4, <1>5 DEF Scanned
<1> QED
  BY <1>1, <1>6 DEF Search

\* The states between two turns of a search for dest.
Looks(s, source, dest) ==
  /\ s \in State
  /\ s.head \in 1 .. Len(s.order) + 1
  /\ Search(neighbors, down, source, s.order, s.parent, s.head, 0)
  /\ \A q \in 1 .. s.head - 1 : s.order[q] # dest

Stopped(s, dest) == s.head > Len(s.order) \/ s.order[s.head] = dest

\* A turn looks at all devices of the head and goes on, unless the search is over.
LEMMA TurnStep ==
  ASSUME Ends(neighbors), NEW s, NEW source, NEW dest, Looks(s, source, dest)
  PROVE  /\ Looks(Turn(s, dest), source, dest)
         /\ Stopped(s, dest) => Turn(s, dest) = s
         /\ ~ Stopped(s, dest) => Turn(s, dest).head = s.head + 1
<1> DEFINE h == s.head
<1> DEFINE curr == s.order[h]
<1> DEFINE i == FindTotalNeighbors(curr)
<1> DEFINE t == Turn(s, dest)
<1>1. /\ s \in State /\ h \in Nat /\ s.order \in Seq(Node) /\ Len(s.order) \in Nat
      /\ h \in 1 .. Len(s.order) + 1
      /\ Search(neighbors, down, source, s.order, s.parent, h, 0)
      /\ \A q \in 1 .. h - 1 : s.order[q] # dest
  BY DEF Looks, State
<1>2. t = IF Stopped(s, dest) THEN s ELSE [Scan(s, curr)[i] EXCEPT !.head = @ + 1]
  BY DEF Turn, Scan, Stopped
<1>3. CASE Stopped(s, dest)
  BY <1>2, <1>3
<1>4. CASE ~ Stopped(s, dest)
  <2> DEFINE u == Scan(s, curr)[i]
  <2>1. h \in 1 .. Len(s.order) /\ curr # dest
    BY <1>1, <1>4 DEF Stopped
  <2>2. curr \in Node /\ i \in Nat /\ i = Len(neighbors[curr])
    BY <1>1, <2>1 DEF Ends, FindTotalNeighbors
  <2>3. At(s, source, h, curr, 0)
    BY <1>1, <2>1 DEF At
  <2> HIDE DEF i, curr, h
  <2>4. At(u, source, h, curr, i) /\ \A q \in 1 .. h : u.order[q] = s.order[q]
    <3>1. PICK c, k : c = curr /\ k = i
      OBVIOUS
    <3>2. k \in Nat /\ h \in Nat /\ At(s, source, h, c, 0)
      BY <1>1, <2>2, <2>3, <3>1
    <3> HIDE DEF u, t
    <3>3. At(Scan(s, c)[k], source, h, c, k) /\ Keeps(s, Scan(s, c)[k], h)
      BY <3>2, ScanAll
    <3> QED
      BY <3>1, <3>3 DEF Keeps, u
  <2> HIDE DEF u
  <2>5. /\ u \in State /\ u.head = h /\ h \in 1 .. Len(u.order) /\ u.order[h] = curr
        /\ Search(neighbors, down, source, u.order, u.parent, h, i)
    BY <2>4 DEF At
  <2>6. Search(neighbors, down, source, u.order, u.parent, h + 1, 0)
    BY <1>1, <2>2, <2>5, ScanNext
  <2>7. t = [u EXCEPT !.head = @ + 1]
    BY <1>2, <1>4 DEF u
  <2> HIDE DEF t
  <2>8. u.order \in Seq(Node) /\ u.parent \in [Node -> Node \cup {None}]
    BY <2>5 DEF State
  <2>9. t.order = u.order /\ t.parent = u.parent /\ t.head = h + 1
        /\ t = [order |-> u.order, head |-> h + 1, parent |-> u.parent]
    BY <2>5, <2>7 DEF State
  <2>10. t \in State
    BY <1>1, <2>8, <2>9 DEF State
  <2>11. h + 1 \in 1 .. Len(u.order) + 1
    BY <1>1, <2>5, <2>8
  <2>12. \A q \in 1 .. h : u.order[q] # dest
    <3> SUFFICES ASSUME NEW q \in 1 .. h PROVE u.order[q] # dest
      OBVIOUS
    <3>1. q = h \/ q \in 1 .. h - 1
      BY <1>1
    <3> QED
      BY <1>1, <2>1, <2>4, <2>5, <3>1
  <2>13. (h + 1) - 1 = h
    BY <1>1
  <2>14. Looks(t, source, dest)
    BY <2>6, <2>9, <2>10, <2>11, <2>12, <2>13 DEF Looks
  <2> QED
    BY <1>4, <2>9, <2>14 DEF t, h
<1> QED
  BY <1>3, <1>4

\* The queue never holds more nodes than there are.
LEMMA InjectiveLen ==
  ASSUME NEW order \in Seq(Node),
         \A j, l \in 1 .. Len(order) : order[j] = order[l] => j = l
  PROVE  Cardinality(Node) \in Nat /\ Len(order) <= Cardinality(Node)
<1> DEFINE L == Len(order)
<1> DEFINE D == 1 .. L
<1>1. L \in Nat /\ order \in [D -> Node] /\ IsFiniteSet(Node)
  BY NixAssumption
<1>2. IsFiniteSet(D) /\ Cardinality(D) = L
  <2> HIDE DEF L
  <2>1. /\ IsFiniteSet(1 .. L)
        /\ Cardinality(1 .. L) = IF 1 > L THEN 0 ELSE L - 1 + 1
    BY <1>1, FS_Interval
  <2> QED
    BY <1>1, <2>1
<1>3. ASSUME Cardinality(Node) < Cardinality(D) PROVE FALSE
  <2>1. IsFiniteSet(Node) /\ IsFiniteSet(D) /\ order \in [D -> Node]
    BY <1>1, <1>2
  <2> HIDE DEF D
  <2>2. \E x, y \in D : x # y /\ order[x] = order[y]
    BY <1>3, <2>1, FS_PigeonHole
  <2> QED
    BY <2>2 DEF D
<1>4. Cardinality(Node) \in Nat
  BY <1>1, FS_CardinalityType
<1> QED
  BY <1>1, <1>2, <1>3, <1>4

\* The search's loop.
Loop(source, dest) ==
  LET start == [order  |-> <<source>>,
                head   |-> 1,
                parent |-> [m \in Node |-> IF m = source THEN source ELSE None]]
      loop[k \in Nat] == IF k = 0 THEN start ELSE Turn(loop[k - 1], dest)
  IN  loop

Start(source) == [order  |-> <<source>>,
                  head   |-> 1,
                  parent |-> [m \in Node |-> IF m = source THEN source ELSE None]]

\* The search starts in such a state.
LEMMA StartLooks ==
  ASSUME Ends(neighbors), NEW source \in Node, NEW dest
  PROVE  Looks(Start(source), source, dest)
<1> DEFINE order == <<source>>
<1> DEFINE parent == [m \in Node |-> IF m = source THEN source ELSE None]
<1> DEFINE s == Start(source)
<1>1. s.order = order /\ s.head = 1 /\ s.parent = parent
  BY DEF Start
<1>2. order \in Seq(Node) /\ Len(order) = 1 /\ order[1] = source
  OBVIOUS
<1>3. parent \in [Node -> Node \cup {None}] /\ None \notin Node
  BY NixAssumption
<1>4. s \in State
  BY <1>1, <1>2, <1>3 DEF State, Start
<1> DEFINE par == <<0>>
<1> DEFINE dev == <<0>>
<1>5. par \in Seq(Nat) /\ Len(par) = 1
  OBVIOUS
<1>6. \A m \in Node : parent[m] # None <=> \E j \in 1 .. 1 : order[j] = m
  BY <1>2, <1>3
<1> HIDE DEF order, parent, par, s
<1>7. Tree(neighbors, down, source, order, parent, par, par)
  BY <1>2, <1>3, <1>5, <1>6 DEF Tree
<1>8. Scanned(neighbors, down, order, par, par, 1, 0)
  <2>1. ASSUME NEW q \in 1 .. 1, NEW a \in Opens(neighbors, down, order[q]), Upto(q, a, 1, 0)
        PROVE  FALSE
    <3>1. a \in Nat /\ a >= 1 /\ q = 1
      BY <1>2 DEF Opens, Ends
    <3> QED
      BY <2>1, <3>1 DEF Upto
  <2> QED
    BY <1>2, <2>1 DEF Scanned
<1>9. Search(neighbors, down, source, order, parent, 1, 0)
  BY <1>7, <1>8 DEF Search
<1> QED
  BY <1>1, <1>2, <1>4, <1>9 DEF Looks, s

\* The recursion of Loop.
LEMMA LoopDef ==
  ASSUME Ends(neighbors), NEW source \in Node, NEW dest
  PROVE  /\ Loop(source, dest)[0] = Start(source)
         /\ \A i \in Nat : Loop(source, dest)[i + 1] = Turn(Loop(source, dest)[i], dest)
<1> DEFINE S == {s \in State : Looks(s, source, dest)}
<1> DEFINE F == [x \in S \X Nat |-> Turn(x[1], dest)]
<1> DEFINE start == Start(source)
<1>1. \A x \in S : Turn(x, dest) \in S
  <2> SUFFICES ASSUME NEW x \in S PROVE Turn(x, dest) \in S
    OBVIOUS
  <2>1. Looks(Turn(x, dest), source, dest)
    BY TurnStep
  <2> QED
    BY <2>1 DEF Looks
<1>2. F \in [S \X Nat -> S] /\ start \in S
  <2>1. start \in S
    BY StartLooks DEF Looks
  <2> HIDE DEF S, start
  <2> QED
    BY <1>1, <2>1
<1>3. \A x \in S, k \in Nat : F[<<x, k>>] = Turn(x, dest)
  OBVIOUS
<1> HIDE DEF F, S, start
<1>4. PICK f \in [Nat -> S] : Solves(f, start, F)
  BY <1>2, Recursion
<1>5. f = [i \in Nat |-> IF i = 0 THEN start ELSE Turn(f[i - 1], dest)]
  <2>1. ASSUME NEW k \in Nat PROVE f[k] = IF k = 0 THEN start ELSE Turn(f[k - 1], dest)
    <3>1. CASE k = 0
      BY <1>4, <3>1 DEF Solves
    <3>2. CASE k # 0
      <4>1. f[k] = F[<<f[k - 1], k>>]
        BY <1>4, <3>2 DEF Solves
      <4>2. f[k - 1] \in S
        BY <3>2
      <4> QED
        BY <4>1, <4>2, <1>3, <3>2
    <3> QED
      BY <3>1, <3>2
  <2> QED
    BY <2>1
<1> DEFINE B == Loop(source, dest)
<1>6. B = [i \in Nat |-> IF i = 0 THEN start ELSE Turn(B[i - 1], dest)]
  BY <1>5 DEF Loop, start, Start
<1> HIDE DEF B
<1>7. B[0] = start
  BY <1>6
<1>8. ASSUME NEW k \in Nat PROVE B[k + 1] = Turn(B[k], dest)
  <2>1. k + 1 \in Nat /\ k + 1 # 0 /\ (k + 1) - 1 = k
    OBVIOUS
  <2>2. B[k + 1] = Turn(B[(k + 1) - 1], dest)
    BY <1>6, <2>1
  <2> QED
    BY <2>1, <2>2
<1> QED
  BY <1>7, <1>8 DEF B, start

\* The search ends before the turns do: every turn takes another node.
LEMMA LoopStops ==
  ASSUME Ends(neighbors), NEW source \in Node, NEW dest
  PROVE  /\ Looks(Loop(source, dest)[Cardinality(Node)], source, dest)
         /\ Stopped(Loop(source, dest)[Cardinality(Node)], dest)
<1> DEFINE B == Loop(source, dest)
<1>1. B[0] = Start(source) /\ \A k \in Nat : B[k + 1] = Turn(B[k], dest)
  BY LoopDef
<1> HIDE DEF B
<1> DEFINE T == {k \in Nat : Looks(B[k], source, dest) /\ (Stopped(B[k], dest) \/ B[k].head = k + 1)}
<1>2. 0 \in T
  <2>1. Start(source).head = 0 + 1
    BY DEF Start
  <2> QED
    BY <1>1, <2>1, StartLooks
<1>3. ASSUME NEW k \in Nat, k \in T PROVE k + 1 \in T
  <2>1. PICK b : b = B[k]
    OBVIOUS
  <2>2. Looks(b, source, dest) /\ (Stopped(b, dest) \/ b.head = k + 1)
    BY <1>3, <2>1
  <2>3. /\ Looks(Turn(b, dest), source, dest)
        /\ Stopped(b, dest) => Turn(b, dest) = b
        /\ ~ Stopped(b, dest) => Turn(b, dest).head = b.head + 1
    BY <2>2, TurnStep
  <2>4. B[k + 1] = Turn(b, dest)
    BY <1>1, <2>1
  <2> QED
    BY <2>2, <2>3, <2>4
<1> DEFINE N == Cardinality(Node)
<1>4. N \in Nat
  BY NixAssumption, FS_CardinalityType
<1>5. N \in T
  <2> HIDE DEF T, N
  <2> QED
    BY <1>2, <1>3, <1>4, Inductive
<1> DEFINE s == B[N]
<1>6. Looks(s, source, dest) /\ (Stopped(s, dest) \/ s.head = N + 1)
  BY <1>5
<1> HIDE DEF s
<1>7. Stopped(s, dest)
  <2> SUFFICES ASSUME s.head = N + 1 PROVE Stopped(s, dest)
    BY <1>6
  <2>1. PICK par, dev : Tree(neighbors, down, source, s.order, s.parent, par, dev)
    BY <1>6 DEF Looks, Search
  <2>2. /\ s.order \in Seq(Node)
        /\ \A j, l \in 1 .. Len(s.order) : s.order[j] = s.order[l] => j = l
    BY <2>1 DEF Tree
  <2>3. Len(s.order) <= N /\ Len(s.order) \in Nat
    BY <2>2, InjectiveLen
  <2> QED
    BY <1>4, <2>3 DEF Stopped
<1> QED
  BY <1>6, <1>7 DEF s, B

\* What BFS leaves: a search tree that has been scanned up to the node at place
\* h, which is dest unless the queue has run empty.
LEMMA BFSFound ==
  ASSUME Ends(neighbors), NEW source \in Node, NEW dest
  PROVE  \E order, par, dev : \E h \in Nat :
           /\ Tree(neighbors, down, source, order, BFS(source, dest), par, dev)
           /\ Scanned(neighbors, down, order, par, dev, h, 0)
           /\ h \in 1 .. Len(order) + 1
           /\ \A q \in 1 .. h - 1 : order[q] # dest
           /\ h = Len(order) + 1 \/ order[h] = dest
<1> DEFINE s == Loop(source, dest)[Cardinality(Node)]
<1>1. Looks(s, source, dest) /\ Stopped(s, dest)
  BY LoopStops
<1>2. BFS(source, dest) = s.parent
  BY DEF BFS, Loop
<1> HIDE DEF s
<1>3. PICK par, dev : /\ Tree(neighbors, down, source, s.order, s.parent, par, dev)
                      /\ Scanned(neighbors, down, s.order, par, dev, s.head, 0)
  BY <1>1 DEF Looks, Search
<1>4. /\ s.head \in 1 .. Len(s.order) + 1 /\ s.head \in Nat
      /\ \A q \in 1 .. s.head - 1 : s.order[q] # dest
  BY <1>1 DEF Looks, State
<1>5. Len(s.order) \in Nat
  BY <1>1 DEF Looks, State
<1>6. s.head = Len(s.order) + 1 \/ s.order[s.head] = dest
  BY <1>1, <1>4, <1>5 DEF Stopped
<1> QED
  BY <1>2, <1>3, <1>4, <1>6

-----------------------------------------------------------------------------
(* The way back from the destination.                                         *)

\* The a-th node is within c hops of d, and none before it is.
Foremost(nbr, dn, order, d, a, c) ==
  /\ d \in Ball(nbr, dn, order[a])[c]
  /\ \A u \in 1 .. a - 1 : d \notin Ball(nbr, dn, order[u])[c]

\* In a search tree, the parent of the first node within c hops of d is the first
\* one within c + 1 hops, and the device that leads to the child its best one.
LEMMA ParentBest ==
  ASSUME NEW nbr, NEW dn, Ends(nbr), NEW source, NEW order, NEW parent, NEW par, NEW dev,
         NEW h \in Nat, Tree(nbr, dn, source, order, parent, par, dev),
         Scanned(nbr, dn, order, par, dev, h, 0),
         NEW a \in 2 .. Len(order), a <= h, NEW d, NEW c \in Nat,
         Foremost(nbr, dn, order, d, a, c)
  PROVE  /\ par[a] \in 1 .. a - 1
         /\ Foremost(nbr, dn, order, d, par[a], c + 1)
         /\ Best(nbr, dn, order[par[a]], d, dev[a])
         /\ order[par[a]] # d
<1> DEFINE p == par[a]
<1> DEFINE i == dev[a]
<1> DEFINE L == Len(order)
<1>0. /\ d \in Ball(nbr, dn, order[a])[c]
      /\ \A u \in 1 .. a - 1 : d \notin Ball(nbr, dn, order[u])[c]
  BY DEF Foremost
<1>1. /\ p \in 1 .. a - 1
      /\ i \in Opens(nbr, dn, order[p]) /\ nbr[order[p]][i] = order[a]
  BY DEF Tree
<1>2. /\ L \in Nat
      /\ \A j \in 1 .. L : order[j] \in Node /\ par[j] \in Nat /\ dev[j] \in Nat
  <2>1. /\ order \in Seq(Node) /\ par \in Seq(Nat) /\ dev \in Seq(Nat)
        /\ Len(par) = Len(order) /\ Len(dev) = Len(order)
    BY DEF Tree
  <2> QED
    BY <2>1, SMTT(30)
<1>3. a \in 1 .. L /\ a \in Nat /\ p \in 1 .. L /\ p \in Nat /\ p < a /\ i \in Nat /\ p < h
  BY <1>1, <1>2
<1>4. \A j \in 1 .. L : \A x \in Opens(nbr, dn, order[j]) : nbr[order[j]][x] \in Node /\ x \in Nat
  BY <1>2 DEF Ends, Opens
<1>5. ASSUME NEW q \in 1 .. L, NEW x \in Opens(nbr, dn, order[q]), q <= p, ~ Upto(p, i, q, x)
      PROVE  d \notin Ball(nbr, dn, nbr[order[q]][x])[c]
  <2>0. q \in Nat /\ x \in Nat /\ q < h
    BY <1>2, <1>3, <1>4, <1>5
  <2>1. Upto(q, x, h, 0)
    BY <2>0 DEF Upto
  <2>2. PICK v \in 1 .. L : /\ order[v] = nbr[order[q]][x]
                            /\ v = 1 \/ Upto(par[v], dev[v], q, x)
    BY <2>1 DEF Scanned
  <2>3. v < a
    <3> SUFFICES ASSUME v >= a PROVE FALSE
      BY <1>2, <1>3
    <3>1. v # 1 /\ v \in 2 .. L /\ a \in 2 .. L
      BY <1>2, <1>3
    <3>2. Upto(par[v], dev[v], q, x)
      BY <2>2, <3>1
    <3>3. par[v] \in Nat /\ dev[v] \in Nat
      BY <1>2
    <3>4. v = a \/ ~ Upto(par[v], dev[v], p, i)
      BY <3>1, <1>3 DEF Tree
    <3> QED
      BY <1>3, <1>5, <2>0, <3>2, <3>3, <3>4 DEF Upto
  <2>4. v \in 1 .. a - 1
    BY <1>2, <1>3, <2>3
  <2> QED
    BY <1>0, <2>2, <2>4
<1>6. d \notin Ball(nbr, dn, order[p])[c]
  BY <1>0, <1>1
<1>7. order[p] # d
  <2>1. order[p] \in Node
    BY <1>2, <1>3
  <2>2. order[p] \in Ball(nbr, dn, order[p])[c]
    BY <2>1, BallType
  <2> QED
    BY <1>6, <2>2
<1>8. d \in Ball(nbr, dn, order[p])[c + 1]
  <2> DEFINE n == order[p]
  <2>1. n \in Node /\ i \in Opens(nbr, dn, n) /\ nbr[n][i] \in Node /\ nbr[n][i] = order[a]
    BY <1>1, <1>2, <1>3
  <2> HIDE DEF n, i, p
  <2>2. Ball(nbr, dn, nbr[n][i])[c] \subseteq Ball(nbr, dn, n)[c + 1]
    BY <2>1, BallFirstHop
  <2> QED
    BY <1>0, <2>1, <2>2 DEF n, p
<1>9. ASSUME NEW u \in 1 .. p - 1, d \in Ball(nbr, dn, order[u])[c + 1] PROVE FALSE
  <2>1. u \in 1 .. L /\ u \in Nat /\ u < p /\ u \in 1 .. a - 1
    BY <1>2, <1>3
  <2> DEFINE n == order[u]
  <2>2. n \in Node /\ \A x \in Opens(nbr, dn, n) : nbr[n][x] \in Node
    BY <1>2, <1>4, <2>1
  <2>3. d # n
    <3>1. n \in Ball(nbr, dn, n)[c]
      BY <2>2, BallType
    <3> QED
      BY <1>0, <2>1, <3>1
  <2>4. \E x \in Opens(nbr, dn, n) : d \in Ball(nbr, dn, nbr[n][x])[c]
    <3>1. d \in Ball(nbr, dn, n)[c + 1]
      BY <1>9
    <3> HIDE DEF n
    <3> QED
      BY <2>2, <2>3, <3>1, BallSplits
  <2>5. PICK x \in Opens(nbr, dn, n) : d \in Ball(nbr, dn, nbr[n][x])[c]
    BY <2>4
  <2>6. ~ Upto(p, i, u, x) /\ u <= p
    BY <1>3, <2>1 DEF Upto
  <2> QED
    BY <1>5, <2>1, <2>5, <2>6
<1>10. Best(nbr, dn, order[p], d, i)
  <2>1. ASSUME NEW x \in Opens(nbr, dn, order[p]), x < i
        PROVE  d \notin Ball(nbr, dn, nbr[order[p]][x])[c]
    <3>1. x \in Nat
      BY <1>3, <1>4
    <3>2. ~ Upto(p, i, p, x) /\ p <= p
      BY <1>3, <2>1, <3>1 DEF Upto
    <3> QED
      BY <1>3, <1>5, <3>2
  <2>2. d \in Ball(nbr, dn, nbr[order[p]][i])[c]
    BY <1>0, <1>1
  <2> HIDE DEF i, p
  <2> QED
    BY <1>1, <1>6, <2>1, <2>2 DEF Best
<1>11. Foremost(nbr, dn, order, d, p, c + 1)
  <2> HIDE DEF p
  <2> QED
    BY <1>8, <1>9 DEF Foremost
<1> QED
  BY <1>1, <1>7, <1>10, <1>11

\* An index added for the best device of n makes the vector lead from n.
LEMMA LeadsBack ==
  ASSUME NEW nbr, NEW dn, IsNetwork(nbr), NEW v, Filled(v), NEW n \in Node, NEW i, NEW d,
         n # d, Best(nbr, dn, n, d, i), Leads(nbr, dn, v.words, nbr[n][i], v.total, d),
         NEW new, Adds(v, i - 1, BitCount(Len(nbr[n])), new)
  PROVE  Leads(nbr, dn, new.words, n, new.total, d)
<1> DEFINE b == BitCount(Len(nbr[n]))
<1> DEFINE m == nbr[n][i]
<1> DEFINE q == v.total
<1> DEFINE t == new.total
<1> DEFINE words == new.words
<1>1. nbr \in [Node -> Seq(Node)] /\ \A y \in Node : Len(nbr[y]) \in Nat /\ Len(nbr[y]) <= Pow[WordSize]
  BY DEF IsNetwork
<1>2. \A y \in Node : /\ BitCount(Len(nbr[y])) \in Nat /\ BitCount(Len(nbr[y])) >= 1
                      /\ BitCount(Len(nbr[y])) <= WordSize
  BY <1>1, Width, WidthFits
<1>3. i \in Opens(nbr, dn, n) /\ i \in Nat /\ i >= 1
  BY <1>1 DEF Best, Opens
<1>4. q \in Nat
  BY DEF Filled, IsVector, Vector
<1>5. /\ t = q + b /\ Extracted(words, t, b) = i - 1
      /\ \A k, rest \in Nat : k >= 1 /\ k <= WordSize /\ k <= rest /\ rest <= q
                              => Extracted(words, rest, k) = Extracted(v.words, rest, k)
  BY DEF Adds
<1>6. PICK R : LeadsBy(nbr, dn, v.words, m, q, d, R)
  BY DEF Leads
<1>7. /\ R \subseteq Node \X (0 .. q) /\ <<m, q>> \in R
      /\ \A e \in R : Guides(nbr, dn, v.words, d, R, e[1], e[2])
  BY <1>6 DEF LeadsBy
<1>8. b \in Nat /\ b >= 1
  BY <1>2
<1> HIDE DEF b, t, q, words, m
<1> DEFINE Q == R \cup {<<n, t>>}
<1>9. Q \subseteq Node \X (0 .. t)
  <2>1. t \in Nat /\ q <= t
    BY <1>4, <1>5, <1>8
  <2>2. \A e \in R : e \in Node \X (0 .. t)
    BY <1>4, <1>7, <2>1
  <2>3. <<n, t>> \in Node \X (0 .. t)
    BY <2>1
  <2> QED
    BY <2>2, <2>3
<1>10. Guides(nbr, dn, words, d, Q, n, t)
  <2>1. Extracted(words, t, b) + 1 = i /\ b <= t /\ t - b = q
    BY <1>3, <1>4, <1>5, <1>8
  <2>2. <<m, q>> \in Q
    BY <1>7
  <2> HIDE DEF Q
  <2> QED
    BY <2>1, <2>2 DEF Guides, b, m
<1>11. ASSUME NEW e \in R PROVE Guides(nbr, dn, words, d, Q, e[1], e[2])
  <2> DEFINE y == e[1]
  <2> DEFINE r == e[2]
  <2> DEFINE k == BitCount(Len(nbr[y]))
  <2>1. y \in Node /\ r \in Nat /\ r <= q /\ Guides(nbr, dn, v.words, d, R, y, r)
    BY <1>4, <1>7
  <2>2. CASE y = d /\ r = 0
    BY <2>2 DEF Guides
  <2>3. CASE ~ (y = d /\ r = 0)
    <3>1. /\ y # d /\ k <= r /\ Best(nbr, dn, y, d, Extracted(v.words, r, k) + 1)
          /\ <<nbr[y][Extracted(v.words, r, k) + 1], r - k>> \in R
      BY <2>1, <2>3 DEF Guides
    <3>2. k \in Nat /\ k >= 1 /\ k <= WordSize
      BY <1>2, <2>1
    <3>3. Extracted(words, r, k) = Extracted(v.words, r, k)
      <4> HIDE DEF k, r
      <4> QED
        BY <1>5, <2>1, <3>1, <3>2
    <3>4. <<nbr[y][Extracted(words, r, k) + 1], r - k>> \in Q
      BY <3>1, <3>3
    <3> QED
      BY <3>1, <3>3, <3>4 DEF Guides
  <2> QED
    BY <2>2, <2>3
<1> HIDE DEF Q
<1>12. <<n, t>> \in Q /\ \A e \in Q : e \in R \/ (e[1] = n /\ e[2] = t)
  BY DEF Q
<1>13. LeadsBy(nbr, dn, words, n, t, d, Q)
  BY <1>9, <1>10, <1>11, <1>12 DEF LeadsBy
<1> QED
  BY <1>13 DEF Leads, words, t

\* There is one device for every neighbour.
LEMMA DeviceToIs ==
  ASSUME IsNetwork(neighbors), NEW n \in Node, NEW i \in DOMAIN neighbors[n]
  PROVE  DeviceTo(n, neighbors[n][i]) = i
<1> DEFINE m == neighbors[n][i]
<1>1. \A j \in DOMAIN neighbors[n] : neighbors[n][j] = m => j = i
  BY DEF IsNetwork
<1>2. \E j \in DOMAIN neighbors[n] : neighbors[n][j] = m
  OBVIOUS
<1> HIDE DEF m
<1>3. DeviceTo(n, m) \in DOMAIN neighbors[n] /\ neighbors[n][DeviceTo(n, m)] = m
  BY <1>2 DEF DeviceTo
<1> QED
  BY <1>1, <1>3 DEF m

\* A climb from dest that has come to the a-th node of the search, c hops away.
Climbs(s, order, a, c, h, dest) ==
  /\ a \in 1 .. Len(order) /\ a <= h /\ c \in Nat
  /\ s \in [at : Node, vector : Vector]
  /\ s.at = order[a]
  /\ Foremost(neighbors, down, order, dest, a, c)
  /\ Filled(s.vector) /\ s.vector.used = 0
  /\ Leads(neighbors, down, s.vector.words, s.at, s.vector.total, dest)

\* A hop from the parent is put in front of the vector.
LEMMA ClimbStep ==
  ASSUME IsNetwork(neighbors), NEW source, NEW order, NEW parent, NEW par, NEW dev,
         NEW h \in Nat, Tree(neighbors, down, source, order, parent, par, dev),
         Scanned(neighbors, down, order, par, dev, h, 0),
         NEW s, NEW dest, NEW a, NEW c, Climbs(s, order, a, c, h, dest), a # 1
  PROVE  par[a] \in 1 .. a - 1 /\ Climbs(Climb(s, parent, source), order, par[a], c + 1, h, dest)
<1> DEFINE p == par[a]
<1> DEFINE i == dev[a]
<1> DEFINE n == order[p]
<1> DEFINE b == BitCount(FindTotalNeighbors(n))
<1> DEFINE v == s.vector
<1> DEFINE new == AddNeighborIndex(v, i - 1, b)
<1> DEFINE t == Climb(s, parent, source)
<1>0. /\ Ends(neighbors) /\ order \in Seq(Node) /\ Len(order) \in Nat
      /\ order[1] = source /\ \A j, l \in 1 .. Len(order) : order[j] = order[l] => j = l
  BY DEF IsNetwork, Ends, Tree
<1>1. /\ a \in 2 .. Len(order) /\ a \in 1 .. Len(order) /\ 1 \in 1 .. Len(order) /\ a <= h /\ c \in Nat
      /\ s.at = order[a] /\ Filled(v) /\ v.used = 0
      /\ Foremost(neighbors, down, order, dest, a, c)
      /\ Leads(neighbors, down, v.words, s.at, v.total, dest)
  BY <1>0 DEF Climbs
<1>2. /\ p \in 1 .. a - 1
      /\ Foremost(neighbors, down, order, dest, p, c + 1)
      /\ Best(neighbors, down, n, dest, i)
      /\ n # dest
  <2> HIDE DEF v, b, new, t
  <2> QED
    BY <1>0, <1>1, ParentBest
<1>3. /\ parent[order[a]] = n /\ i \in Opens(neighbors, down, n)
      /\ neighbors[n][i] = order[a]
  BY <1>1 DEF Tree
<1>4. p \in 1 .. Len(order) /\ p <= h /\ n \in Node /\ a \in Nat /\ p \in Nat
  BY <1>0, <1>1, <1>2
<1>5. DeviceTo(n, s.at) = i /\ i \in DOMAIN neighbors[n]
  <2>1. i \in DOMAIN neighbors[n]
    BY <1>3 DEF Opens
  <2> HIDE DEF n, i
  <2> QED
    BY <1>1, <1>3, <1>4, <2>1, DeviceToIs
<1>6. s.at # source
  BY <1>0, <1>1
<1>7. t = [at |-> n, vector |-> new]
  BY <1>1, <1>3, <1>5, <1>6 DEF Climb
<1>8. /\ Len(neighbors[n]) \in Nat /\ Len(neighbors[n]) <= Pow[WordSize]
      /\ i \in Nat /\ i >= 1 /\ i <= Len(neighbors[n])
      /\ b = BitCount(Len(neighbors[n]))
  <2>1. neighbors[n] \in Seq(Node) /\ Len(neighbors[n]) <= Pow[WordSize]
    BY <1>4 DEF IsNetwork
  <2>2. b = BitCount(Len(neighbors[n]))
    BY DEF FindTotalNeighbors
  <2> HIDE DEF i, b, n
  <2> QED
    BY <1>5, <2>1, <2>2
<1>9. b \in Nat /\ b >= 1 /\ b <= WordSize /\ Len(neighbors[n]) <= Pow[b] /\ Pow[b] \in Nat
  BY <1>8, Width, WidthFits, PowStep
<1>10. i - 1 \in Nat /\ i - 1 < Pow[b]
  BY <1>8, <1>9, SMTT(30)
<1> HIDE DEF b, i, v, n, p, t
<1>11. Adds(v, i - 1, b, new)
  <2> DEFINE x == i - 1
  <2>1. x \in Nat /\ x < Pow[b]
    BY <1>10
  <2> HIDE DEF x
  <2>2. Adds(v, x, b, AddNeighborIndex(v, x, b))
    BY <1>1, <1>9, <2>1, AddReadsBack
  <2> QED
    BY <2>2 DEF x
<1> HIDE DEF new
<1>12. Leads(neighbors, down, new.words, n, new.total, dest)
  <2>1. Adds(v, i - 1, BitCount(Len(neighbors[n])), new)
    BY <1>8, <1>11
  <2>2. Leads(neighbors, down, v.words, neighbors[n][i], v.total, dest)
    BY <1>1, <1>3
  <2> QED
    BY <1>1, <1>2, <1>4, <2>1, <2>2, LeadsBack
<1>13. Filled(new) /\ new.used = 0 /\ new \in Vector
  BY <1>1, <1>11 DEF Adds, Filled, IsVector
<1>14. t.at = n /\ t.vector = new /\ t \in [at : Node, vector : Vector]
  BY <1>4, <1>7, <1>13
<1>15. c + 1 \in Nat
  BY <1>1
<1>16. n = order[p]
  BY DEF n
<1>17. Climbs(t, order, p, c + 1, h, dest)
  BY <1>2, <1>4, <1>12, <1>13, <1>14, <1>15, <1>16 DEF Climbs
<1> QED
  BY <1>2, <1>17 DEF p, t

\* The loop of BuildNixVector.
ClimbLoop(parent, source, dest) ==
  LET climb[k \in Nat] == IF k = 0 THEN [at |-> dest, vector |-> NewVector]
                          ELSE Climb(climb[k - 1], parent, source)
  IN  climb

\* The result of a search for dest that was found at place h.
FoundAt(source, dest, order, parent, par, dev, h) ==
  /\ Tree(neighbors, down, source, order, parent, par, dev)
  /\ Scanned(neighbors, down, order, par, dev, h, 0)
  /\ h \in 1 .. Len(order) /\ order[h] = dest

\* The climb starts with the empty vector.
LEMMA ClimbStart ==
  ASSUME IsNetwork(neighbors), NEW source, NEW dest \in Node, NEW order, NEW parent, NEW par,
         NEW dev, NEW h \in Nat, FoundAt(source, dest, order, parent, par, dev, h)
  PROVE  Climbs([at |-> dest, vector |-> NewVector], order, h, 0, h, dest)
<1> DEFINE v == NewVector
<1> DEFINE s == [at |-> dest, vector |-> v]
<1>1. /\ order \in Seq(Node) /\ h \in 1 .. Len(order) /\ order[h] = dest
      /\ \A j, l \in 1 .. Len(order) : order[j] = order[l] => j = l
  BY DEF FoundAt, Tree
<1>2. Filled(v) /\ v.used = 0 /\ v.total = 0 /\ v \in Vector
  BY NewFilled DEF NewVector, Filled, IsVector
<1>3. Foremost(neighbors, down, order, dest, h, 0)
  <2>1. \A u \in 1 .. h : Ball(neighbors, down, order[u])[0] = {order[u]}
    <3> SUFFICES ASSUME NEW u \in 1 .. h PROVE Ball(neighbors, down, order[u])[0] = {order[u]}
      OBVIOUS
    <3>1. order[u] \in Node
      BY <1>1
    <3> QED
      BY <3>1, BallDef
  <2>2. ASSUME NEW u \in 1 .. h - 1 PROVE order[u] # dest /\ u \in 1 .. h
    BY <1>1
  <2>3. h \in 1 .. h
    BY <1>1
  <2>4. dest \in Ball(neighbors, down, order[h])[0]
    BY <1>1, <2>1, <2>3
  <2>5. \A u \in 1 .. h - 1 : dest \notin Ball(neighbors, down, order[u])[0]
    BY <2>1, <2>2
  <2> QED
    BY <2>4, <2>5 DEF Foremost
<1>4. Leads(neighbors, down, v.words, dest, v.total, dest)
  <2> DEFINE R == {<<dest, 0>>}
  <2>1. R \subseteq Node \X (0 .. 0) /\ <<dest, 0>> \in R
    OBVIOUS
  <2>2. \A e \in R : Guides(neighbors, down, v.words, dest, R, e[1], e[2])
    BY DEF Guides
  <2> HIDE DEF R, v
  <2>3. LeadsBy(neighbors, down, v.words, dest, 0, dest, R)
    BY <2>1, <2>2 DEF LeadsBy
  <2>4. Leads(neighbors, down, v.words, dest, 0, dest)
    BY <2>3 DEF Leads
  <2> QED
    BY <1>2, <2>4
<1> HIDE DEF v
<1>5. s.at = dest /\ s.vector = v /\ s \in [at : Node, vector : Vector]
  BY <1>2
<1> HIDE DEF s
<1>6. Climbs(s, order, h, 0, h, dest)
  BY <1>1, <1>2, <1>3, <1>4, <1>5 DEF Climbs
<1> QED
  BY <1>6 DEF s, v

\* At the first node the climb is at an end.
LEMMA ClimbRests ==
  ASSUME NEW source, NEW dest, NEW order, NEW parent, NEW par, NEW dev, NEW h,
         FoundAt(source, dest, order, parent, par, dev, h),
         NEW s, NEW c, Climbs(s, order, 1, c, h, dest)
  PROVE  Climb(s, parent, source) = s /\ s.at = source
BY DEF FoundAt, Tree, Climbs, Climb

\* The recursion of ClimbLoop.
LEMMA ClimbLoopDef ==
  ASSUME IsNetwork(neighbors), NEW source, NEW dest \in Node, NEW order, NEW parent, NEW par,
         NEW dev, NEW h \in Nat, FoundAt(source, dest, order, parent, par, dev, h)
  PROVE  LET B == ClimbLoop(parent, source, dest)
         IN  /\ B[0] = [at |-> dest, vector |-> NewVector]
             /\ \A k \in Nat : B[k + 1] = Climb(B[k], parent, source)
<1> DEFINE start == [at |-> dest, vector |-> NewVector]
<1> DEFINE S == {s \in [at : Node, vector : Vector] : \E a, c : Climbs(s, order, a, c, h, dest)}
<1> DEFINE F == [x \in S \X Nat |-> Climb(x[1], parent, source)]
<1>1. ASSUME NEW x \in S PROVE Climb(x, parent, source) \in S
  <2>1. PICK a, c : Climbs(x, order, a, c, h, dest)
    OBVIOUS
  <2>2. CASE a = 1
    <3>1. Climbs(x, order, 1, c, h, dest)
      BY <2>1, <2>2
    <3>2. Climb(x, parent, source) = x
      BY <3>1, ClimbRests
    <3> QED
      BY <3>2
  <2>3. CASE a # 1
    <3>1. /\ Tree(neighbors, down, source, order, parent, par, dev)
          /\ Scanned(neighbors, down, order, par, dev, h, 0)
      BY DEF FoundAt
    <3>2. Climbs(Climb(x, parent, source), order, par[a], c + 1, h, dest)
      BY <2>1, <2>3, <3>1, ClimbStep
    <3>3. Climb(x, parent, source) \in [at : Node, vector : Vector]
      BY <3>2 DEF Climbs
    <3> QED
      BY <3>2, <3>3
  <2> QED
    BY <2>2, <2>3
<1>2. F \in [S \X Nat -> S] /\ start \in S
  <2>1. Climbs(start, order, h, 0, h, dest)
    BY ClimbStart
  <2>2. start \in S
    <3>1. start \in [at : Node, vector : Vector]
      BY <2>1 DEF Climbs
    <3> HIDE DEF start
    <3> QED
      BY <2>1, <3>1
  <2> HIDE DEF S, start
  <2> QED
    BY <1>1, <2>2
<1>3. \A x \in S, k \in Nat : F[<<x, k>>] = Climb(x, parent, source)
  OBVIOUS
<1> HIDE DEF F, S, start
<1>4. PICK f \in [Nat -> S] : Solves(f, start, F)
  BY <1>2, Recursion
<1>5. f = [i \in Nat |-> IF i = 0 THEN start ELSE Climb(f[i - 1], parent, source)]
  <2>1. ASSUME NEW k \in Nat
        PROVE  f[k] = IF k = 0 THEN start ELSE Climb(f[k - 1], parent, source)
    <3>1. CASE k = 0
      BY <1>4, <3>1 DEF Solves
    <3>2. CASE k # 0
      <4>1. f[k] = F[<<f[k - 1], k>>]
        BY <1>4, <3>2 DEF Solves
      <4>2. f[k - 1] \in S
        BY <3>2
      <4> QED
        BY <4>1, <4>2, <1>3, <3>2
    <3> QED
      BY <3>1, <3>2
  <2> QED
    BY <2>1
<1> DEFINE B == ClimbLoop(parent, source, dest)
<1>6. B = [i \in Nat |-> IF i = 0 THEN start ELSE Climb(B[i - 1], parent, source)]
  BY <1>5 DEF ClimbLoop, start
<1> HIDE DEF B
<1>7. B[0] = start
  BY <1>6
<1>8. ASSUME NEW k \in Nat PROVE B[k + 1] = Climb(B[k], parent, source)
  <2>1. k + 1 \in Nat /\ k + 1 # 0 /\ (k + 1) - 1 = k
    OBVIOUS
  <2>2. B[k + 1] = Climb(B[(k + 1) - 1], parent, source)
    BY <1>6, <2>1
  <2> QED
    BY <2>1, <2>2
<1> QED
  BY <1>7, <1>8 DEF B, start

\* The climb ends at the source before the turns do.
LEMMA ClimbEnds ==
  ASSUME IsNetwork(neighbors), NEW source, NEW dest \in Node, NEW order, NEW parent, NEW par,
         NEW dev, NEW h \in Nat, FoundAt(source, dest, order, parent, par, dev, h)
  PROVE  LET v == BuildNixVector(parent, source, dest)
         IN  /\ Filled(v) /\ v.used = 0 /\ v \in Vector
             /\ Leads(neighbors, down, v.words, source, v.total, dest)
<1> DEFINE B == ClimbLoop(parent, source, dest)
<1> DEFINE N == Cardinality(Node)
<1>1. B[0] = [at |-> dest, vector |-> NewVector] /\ \A k \in Nat : B[k + 1] = Climb(B[k], parent, source)
  BY ClimbLoopDef
<1>2. BuildNixVector(parent, source, dest) = B[N].vector
  BY DEF BuildNixVector, ClimbLoop
<1>3. h <= Len(order) /\ Len(order) \in Nat /\ Len(order) <= N /\ N \in Nat
  <2>1. /\ order \in Seq(Node) /\ h \in 1 .. Len(order)
        /\ \A j, l \in 1 .. Len(order) : order[j] = order[l] => j = l
    BY DEF FoundAt, Tree
  <2>2. Len(order) <= N /\ N \in Nat
    BY <2>1, InjectiveLen
  <2> QED
    BY <2>1, <2>2
<1> HIDE DEF B, N
<1> DEFINE T == {k \in Nat : \E a, c : a \in Nat /\ Climbs(B[k], order, a, c, h, dest) /\ (a = 1 \/ a + k <= h)}
<1>4. 0 \in T
  <2>1. Climbs(B[0], order, h, 0, h, dest)
    BY <1>1, ClimbStart
  <2>2. h + 0 <= h
    OBVIOUS
  <2> QED
    BY <2>1, <2>2
<1>5. ASSUME NEW k \in Nat, k \in T PROVE k + 1 \in T
  <2>1. PICK a, c : a \in Nat /\ Climbs(B[k], order, a, c, h, dest) /\ (a = 1 \/ a + k <= h)
    BY <1>5
  <2>2. PICK b : b = B[k]
    OBVIOUS
  <2>3. B[k + 1] = Climb(b, parent, source) /\ Climbs(b, order, a, c, h, dest)
    BY <1>1, <2>1, <2>2
  <2>4. CASE a = 1
    <3>1. Climbs(b, order, 1, c, h, dest)
      BY <2>3, <2>4
    <3>2. Climb(b, parent, source) = b
      BY <3>1, ClimbRests
    <3>3. Climbs(B[k + 1], order, 1, c, h, dest) /\ 1 \in Nat
      BY <2>3, <3>1, <3>2
    <3> QED
      BY <3>3
  <2>5. CASE a # 1
    <3>1. /\ Tree(neighbors, down, source, order, parent, par, dev)
          /\ Scanned(neighbors, down, order, par, dev, h, 0)
      BY DEF FoundAt
    <3>2. par[a] \in 1 .. a - 1 /\ Climbs(Climb(b, parent, source), order, par[a], c + 1, h, dest)
      BY <2>3, <2>5, <3>1, ClimbStep
    <3>3. PICK p : p = par[a]
      OBVIOUS
    <3>4. p \in Nat /\ p + (k + 1) <= h
      BY <2>1, <2>5, <3>2, <3>3
    <3>5. PICK x : x = c + 1
      OBVIOUS
    <3>6. Climbs(B[k + 1], order, p, x, h, dest)
      BY <2>3, <3>2, <3>3, <3>5
    <3> QED
      BY <3>4, <3>6
  <2> QED
    BY <2>4, <2>5
<1>6. N \in T
  <2> HIDE DEF T
  <2> QED
    BY <1>3, <1>4, <1>5, Inductive
<1>7. PICK a, c : a \in Nat /\ Climbs(B[N], order, a, c, h, dest) /\ (a = 1 \/ a + N <= h)
  BY <1>6
<1>8. a = 1
  <2>1. a >= 1
    BY <1>7, <1>3 DEF Climbs
  <2> QED
    BY <1>3, <1>7, <2>1
<1>9. PICK s : s = B[N]
  OBVIOUS
<1>10. Climbs(s, order, 1, c, h, dest)
  BY <1>7, <1>8, <1>9
<1>11. s.at = source
  BY <1>10, ClimbRests
<1>12. /\ Filled(s.vector) /\ s.vector.used = 0
       /\ Leads(neighbors, down, s.vector.words, source, s.vector.total, dest)
  BY <1>10, <1>11 DEF Climbs
<1>13. s.vector \in Vector
  BY <1>12 DEF Filled, IsVector
<1> QED
  BY <1>2, <1>9, <1>12, <1>13

\* Without a parent, dest cannot be reached.
LEMMA NotFound ==
  ASSUME NEW nbr, NEW dn, Ends(nbr), NEW source \in Node, NEW order, NEW parent, NEW par, NEW dev,
         Tree(nbr, dn, source, order, parent, par, dev),
         Scanned(nbr, dn, order, par, dev, Len(order) + 1, 0),
         NEW dest \in Node, parent[dest] = None, NEW k \in Nat
  PROVE  dest \notin Ball(nbr, dn, source)[k]
<1> DEFINE L == Len(order)
<1> DEFINE Seen == {m \in Node : \E j \in 1 .. L : order[j] = m}
<1> DEFINE B == Ball(nbr, dn, source)
<1>1. L \in Nat /\ L >= 1 /\ order[1] = source /\ \A j \in 1 .. L : order[j] \in Node
  <2>1. order \in Seq(Node) /\ L >= 1 /\ order[1] = source
    BY DEF Tree
  <2> QED
    BY <2>1
<1>2. dest \notin Seen
  BY DEF Tree
<1>3. source \in Seen
  <2>1. 1 \in 1 .. L
    BY <1>1
  <2> QED
    BY <1>1, <2>1
<1>4. ASSUME NEW x \in Seen, NEW i \in Opens(nbr, dn, x) PROVE nbr[x][i] \in Seen
  <2>1. PICK q \in 1 .. L : order[q] = x
    OBVIOUS
  <2>2. Upto(q, i, L + 1, 0)
    BY <1>1 DEF Upto
  <2>3. PICK v \in 1 .. L : order[v] = nbr[order[q]][i]
    BY <2>1, <2>2 DEF Scanned
  <2> QED
    BY <1>1, <2>1, <2>3
<1>5. B[0] = {source} /\ \A j \in Nat : B[j + 1] = Spread(nbr, dn, B[j])
  <2>1. PICK x : x = source
    OBVIOUS
  <2>2. x \in Node
    BY <2>1
  <2>3. /\ Ball(nbr, dn, x)[0] = {x}
        /\ \A j \in Nat : Ball(nbr, dn, x)[j + 1] = Spread(nbr, dn, Ball(nbr, dn, x)[j])
    BY <2>2, BallDef, SMTT(30)
  <2> QED
    BY <2>1, <2>3
<1> HIDE DEF Seen, B
<1> DEFINE T == {j \in Nat : B[j] \subseteq Seen}
<1>6. 0 \in T
  BY <1>3, <1>5
<1>7. ASSUME NEW j \in Nat, j \in T PROVE j + 1 \in T
  BY <1>4, <1>5, <1>7, SMTT(30) DEF Spread
<1>8. k \in T
  <2> HIDE DEF T
  <2> QED
    BY <1>6, <1>7, Inductive
<1> QED
  BY <1>2, <1>8 DEF B

\* A vector that leads from n to d and has not been read from.
Fresh(nbr, dn, v, n, d) ==
  /\ v \in Vector /\ Filled(v) /\ v.used = 0
  /\ Leads(nbr, dn, v.words, n, v.total, d)

\* GetNixVector finds a vector that leads to the destination along the best
\* devices, if it can be reached at all.
LEMMA GetNixVectorLeads ==
  ASSUME IsNetwork(neighbors), NEW source \in Node, NEW dest \in Node
  PROVE  \/ /\ GetNixVector(source, dest) = None
            /\ \A k \in Nat : dest \notin Ball(neighbors, down, source)[k]
         \/ Fresh(neighbors, down, GetNixVector(source, dest), source, dest)
<1> DEFINE parent == BFS(source, dest)
<1>0. Ends(neighbors)
  BY DEF IsNetwork, Ends
<1>1. PICK order, par, dev : \E h \in Nat :
           /\ Tree(neighbors, down, source, order, parent, par, dev)
           /\ Scanned(neighbors, down, order, par, dev, h, 0)
           /\ h \in 1 .. Len(order) + 1
           /\ \A q \in 1 .. h - 1 : order[q] # dest
           /\ h = Len(order) + 1 \/ order[h] = dest
  BY <1>0, BFSFound
<1>2. PICK h \in Nat :
           /\ Tree(neighbors, down, source, order, parent, par, dev)
           /\ Scanned(neighbors, down, order, par, dev, h, 0)
           /\ h \in 1 .. Len(order) + 1
           /\ \A q \in 1 .. h - 1 : order[q] # dest
           /\ h = Len(order) + 1 \/ order[h] = dest
  BY <1>1
<1>3. Len(order) \in Nat /\ (parent[dest] # None <=> \E j \in 1 .. Len(order) : order[j] = dest)
  <2>1. order \in Seq(Node)
    BY <1>2 DEF Tree
  <2>2. parent[dest] # None <=> \E j \in 1 .. Len(order) : order[j] = dest
    BY <1>2 DEF Tree
  <2> QED
    BY <2>1, <2>2
<1>4. GetNixVector(source, dest) =
        IF parent[dest] = None THEN None ELSE BuildNixVector(parent, source, dest)
  BY DEF GetNixVector
<1> HIDE DEF parent
<1>5. CASE h = Len(order) + 1
  <2>1. \A j \in 1 .. Len(order) : order[j] # dest
    <3>1. h - 1 = Len(order)
      <4>1. PICK L : L = Len(order)
        OBVIOUS
      <4>2. L \in Nat /\ h = L + 1
        BY <1>3, <1>5, <4>1
      <4>3. h - 1 = L
        BY <4>2
      <4> QED
        BY <4>1, <4>3
    <3> QED
      BY <1>2, <3>1
  <2>2. parent[dest] = None
    BY <1>3, <2>1
  <2>3. \A k \in Nat : dest \notin Ball(neighbors, down, source)[k]
    BY <1>0, <1>2, <1>5, <2>2, NotFound
  <2> QED
    BY <1>4, <2>2, <2>3
<1>6. CASE h # Len(order) + 1
  <2>1. h \in 1 .. Len(order) /\ order[h] = dest
    BY <1>2, <1>3, <1>6
  <2>2. FoundAt(source, dest, order, parent, par, dev, h)
    BY <1>2, <2>1 DEF FoundAt
  <2> DEFINE v == BuildNixVector(parent, source, dest)
  <2>3. /\ Filled(v) /\ v.used = 0 /\ v \in Vector
        /\ Leads(neighbors, down, v.words, source, v.total, dest)
    BY <2>2, ClimbEnds
  <2>4. GetNixVector(source, dest) = v
    BY <1>3, <1>4, <2>1
  <2> HIDE DEF v
  <2> QED
    BY <2>3, <2>4 DEF Fresh
<1> QED
  BY <1>5, <1>6

-----------------------------------------------------------------------------
(* The inductive invariant.                                                   *)

\* Bits are a number.
LEMMA BitsType ==
  ASSUME NEW at \in Nat, NEW r \in Nat, r >= 1, r <= WordSize,
         NEW n \in Nat, n >= 1, n <= WordSize, n <= at * WordSize + r,
         NEW words, words[at + 1] \in Nat, at > 0 => words[at] \in Nat
  PROVE  Bits(words, at, r, n) \in Nat
<1>0. WordSize \in Nat \ {0}
  BY WordAssumption
<1> DEFINE w == words[at + 1]
<1> DEFINE u == words[at]
<1>1. \A x \in Nat, y \in Nat \ {0} : x \div y \in Nat /\ x % y \in Nat
  OBVIOUS
<1>2. w % Pow[r] \in Nat
  BY <1>1, PowNat
<1>3. CASE n <= r
  <2>1. Pow[r - n] \in Nat \ {0}
    BY <1>3, PowNat
  <2> DEFINE x == w % Pow[r]
  <2> DEFINE y == Pow[r - n]
  <2>2. x \in Nat /\ y \in Nat \ {0}
    BY <1>2, <2>1
  <2>3. Bits(words, at, r, n) = x \div y
    BY <1>3 DEF Bits
  <2> HIDE DEF x, y
  <2> QED
    BY <1>1, <2>2, <2>3
<1>4. CASE ~ (n <= r)
  <2>1. at > 0
    BY <1>0, <1>4
  <2>2. n - r \in Nat /\ WordSize - (n - r) \in Nat
    BY <1>0, <1>4
  <2> DEFINE x == w % Pow[r]
  <2> DEFINE y == Pow[n - r]
  <2> DEFINE z == Pow[WordSize - (n - r)]
  <2>3. x \in Nat /\ y \in Nat /\ z \in Nat \ {0} /\ u \in Nat
    BY <1>2, <2>1, <2>2, PowNat
  <2>4. Bits(words, at, r, n) = x * y + u \div z
    BY <1>4 DEF Bits
  <2> HIDE DEF x, y, z, u
  <2>5. u \div z \in Nat /\ x * y \in Nat
    BY <1>1, <2>3
  <2> QED
    BY <2>4, <2>5
<1> QED
  BY <1>3, <1>4

\* An index that is there to be read is a number.
LEMMA ExtractType ==
  ASSUME NEW v, IsVector(v), NEW n \in Nat, n >= 1, n <= WordSize, n <= v.total - v.used
  PROVE  ExtractNeighborIndex(v, n) \in Nat
<1> DEFINE L == Len(v.words)
<1> DEFINE rest == v.total - v.used
<1>1. /\ v.words \in Seq(Word) /\ v.used \in Nat /\ v.total \in Nat
      /\ v.current \in Nat /\ v.current <= WordSize
      /\ v.total = (L - 1) * WordSize + v.current
  BY WordAssumption DEF IsVector, Vector
<1>2. L \in Nat /\ WordSize \in Nat \ {0} /\ \A t \in 1 .. L : v.words[t] \in Word
  BY <1>1, WordAssumption
<1>3. \A t \in 1 .. L : v.words[t] \in Nat
  <2>1. Pow[WordSize] \in Nat
    BY <1>2, PowStep
  <2> QED
    BY <1>2, <2>1 DEF Word
<1>4. rest \in Nat /\ rest >= 1 /\ rest <= v.total /\ n <= rest
  BY <1>1
<1>5. L >= 1
  <2> SUFFICES ASSUME L = 0 PROVE FALSE
    BY <1>2
  <2>1. (L - 1) * WordSize = - WordSize
    BY <1>2
  <2> QED
    BY <1>1, <1>2, <1>4, <2>1
<1> DEFINE cur == v.current
<1> DEFINE words == v.words
<1>6. rest <= (L - 1) * WordSize + cur /\ cur \in Nat /\ cur <= WordSize
  BY <1>1, <1>4
<1>7. ExtractNeighborIndex(v, n) = Extracted(words, rest, n)
  BY DEF ExtractNeighborIndex, GetRemainingBits
<1> HIDE DEF L, rest, cur
<1>8. PICK at \in Nat, r \in Nat : /\ r >= 1 /\ r <= WordSize
                                   /\ rest = at * WordSize + r
                                   /\ at + 1 <= L
  BY <1>2, <1>4, <1>5, <1>6, Position
<1>9. words[at + 1] \in Nat /\ (at > 0 => words[at] \in Nat)
  <2>1. at + 1 \in 1 .. L /\ (at > 0 => at \in 1 .. L)
    BY <1>2, <1>8
  <2> QED
    BY <1>3, <2>1
<1> HIDE DEF words
<1>10. Extracted(words, rest, n) = Bits(words, at, r, n)
  BY <1>4, <1>8, <1>9, ExtractedBits
<1>11. Bits(words, at, r, n) \in Nat
  BY <1>8, <1>9, <1>4, BitsType
<1> QED
  BY <1>7, <1>10, <1>11

\* The parts of the type invariant.
Wired(nbr, dn) ==
  IsNetwork(nbr) /\ \A x \in dn : x[1] \in Node /\ x[2] \in DOMAIN nbr[x[1]]

Cached(nbr, nix, route, total) ==
  /\ nix \in [Node -> [Node -> Vector \cup {None}]]
  /\ route \in [Node -> [Node -> Nat \cup {None}]]
  /\ total \in [Node -> Nat]
  /\ \A n, d \in Node :
       /\ nix[n][d] = None \/ IsVector(nix[n][d])
       /\ route[n][d] \in {None} \cup 0 .. Len(nbr[n])
       /\ total[n] \in 0 .. Len(nbr[n])

\* m is at the other end of a device of n.
Joined(nbr, n, m) == \E i \in DOMAIN nbr[n] : nbr[n][i] = m

Flies(nbr, sent, p) ==
  /\ p \in [flow : sent, at : Node, from : Node, vector : Vector, hops : Nat]
  /\ Joined(nbr, p.from, p.at) /\ Joined(nbr, p.at, p.from)
  /\ IsVector(p.vector)
  /\ p.hops \in 1 .. p.vector.used

\* All together, for the scenario scn with the flows todo unsent.
Typed(scn, nbr, dn, ch, dirty, nix, route, total, todo, flying, done, end) ==
  /\ scn \in Scenarios
  /\ Wired(nbr, dn)
  /\ ch \in 0 .. scn.changes
  /\ dirty \in BOOLEAN
  /\ Cached(nbr, nix, route, total)
  /\ todo \subseteq scn.flows
  /\ \A p \in flying : Flies(nbr, scn.flows \ todo, p)
  /\ done \subseteq (scn.flows \ todo) \X Nat
  /\ end \in BOOLEAN

\* TypeOK is made of these parts ...
LEMMA TypeParts ==
  TypeOK <=> Typed(scenario, neighbors, down, changes, g_isCacheDirty, m_nixCache,
                   m_ipv4RouteCache, m_totalNeighbors, unsent, packets, delivered, fatal)
BY DEF TypeOK, Typed, Wired, Cached, Flies, Joined, Linked, FindTotalNeighbors

\* ... in the next state, too.
LEMMA TypePartsNext ==
  TypeOK' <=> Typed(scenario', neighbors', down', changes', g_isCacheDirty', m_nixCache',
                    m_ipv4RouteCache', m_totalNeighbors', unsent', packets', delivered', fatal')
BY DEF TypeOK, Typed, Wired, Cached, Flies, Joined, Linked, FindTotalNeighbors

\* Unless a flush is due, the cached vectors lead to their destinations.
LiveCache(nbr, dn, nix) ==
  \A n, d \in Node : nix[n][d] = None \/ Fresh(nbr, dn, nix[n][d], n, d)

Live == ~ g_isCacheDirty => LiveCache(neighbors, down, m_nixCache)

\* A node counts its neighbours no earlier than at the start, and links are only
\* added.
Counts(scn, nbr, total) ==
  \A n \in Node : /\ Len(scn.neighbors[n]) <= Len(nbr[n])
                  /\ total[n] = 0 \/ Len(scn.neighbors[n]) <= total[n]

Counted == Counts(scenario, neighbors, m_totalNeighbors)

\* The cached routes are the best ones.
BestRoutes(nbr, dn, route) ==
  \A n, d \in Node : route[n][d] = None \/ Best(nbr, dn, n, d, route[n][d])

\* A packet is led to its destination, and on a shortest way.
OnWay(nbr, dn, p) ==
  /\ Leads(nbr, dn, p.vector.words, p.at, p.vector.total - p.vector.used, p.flow[2])
  /\ \E k \in Nat : /\ Near(nbr, dn, p.at, p.flow[2], k)
                    /\ Near(nbr, dn, p.flow[1], p.flow[2], p.hops + k)

\* The packet of a flow is in flight, has arrived or has nowhere to go.
Accounted(nbr, dn, f, flying, done) ==
  \/ \E p \in flying : p.flow = f
  \/ \E x \in done : x[1] = f
  \/ \A k \in Nat : f[2] \notin Ball(nbr, dn, f[1])[k]

\* The network and the packets before its first change.
Calm(nbr, dn, route, dirty, sent, flying, done, end) ==
  /\ dn = {}
  /\ ~ end
  /\ ~ dirty => BestRoutes(nbr, dn, route)
  /\ \A p \in flying : OnWay(nbr, dn, p)
  /\ \A x \in done : Near(nbr, dn, x[1][1], x[1][2], x[2])
  /\ \A f \in sent : Accounted(nbr, dn, f, flying, done)

Steady ==
  changes = 0 => Calm(neighbors, down, m_ipv4RouteCache, g_isCacheDirty,
                      scenario.flows \ unsent, packets, delivered, fatal)

\* No link has been added before the first change.
Original == changes = 0 => neighbors = scenario.neighbors

\* The inductive invariant.
IInv == TypeOK /\ Live /\ Counted /\ Original /\ Steady

-----------------------------------------------------------------------------
(* What the invariant says about the properties.                              *)

\* While no link has been added, a node reads with the true number of neighbours.
LEMMA TotalIs ==
  ASSUME TypeOK, Counted, neighbors = scenario.neighbors, NEW n \in Node
  PROVE  TotalNeighbors(n) = Len(neighbors[n])
<1>1. neighbors[n] \in Seq(Node) /\ m_totalNeighbors[n] \in 0 .. Len(neighbors[n])
  BY DEF TypeOK, IsNetwork, FindTotalNeighbors
<1>2. m_totalNeighbors[n] = 0 \/ Len(neighbors[n]) <= m_totalNeighbors[n]
  BY DEF Counted, Counts
<1> QED
  BY <1>1, <1>2 DEF TotalNeighbors, FindTotalNeighbors

\* A node reads with no more neighbours than it has.
LEMMA TotalType ==
  ASSUME TypeOK, NEW n \in Node
  PROVE  /\ Len(neighbors[n]) \in Nat /\ Len(neighbors[n]) <= Pow[WordSize]
         /\ TotalNeighbors(n) \in 0 .. Len(neighbors[n])
         /\ BitCount(TotalNeighbors(n)) \in Nat /\ BitCount(TotalNeighbors(n)) >= 1
         /\ BitCount(TotalNeighbors(n)) <= WordSize
         /\ BitCount(TotalNeighbors(n)) <= BitCount(Len(neighbors[n]))
<1> DEFINE L == Len(neighbors[n])
<1> DEFINE t == TotalNeighbors(n)
<1>1. L \in Nat /\ L <= Pow[WordSize] /\ m_totalNeighbors[n] \in 0 .. L
  BY DEF TypeOK, IsNetwork, FindTotalNeighbors
<1>2. t \in 0 .. L
  BY <1>1 DEF TotalNeighbors, FindTotalNeighbors
<1>3. Pow[WordSize] \in Nat
  BY WordAssumption, PowStep
<1> HIDE DEF L, t
<1>4. t \in Nat /\ t <= L /\ t <= Pow[WordSize]
  BY <1>1, <1>2, <1>3
<1>5. BitCount(t) \in Nat /\ BitCount(t) >= 1
  BY <1>4, Width
<1>6. BitCount(t) <= WordSize
  BY <1>4, WidthFits
<1>7. BitCount(t) <= BitCount(L)
  BY <1>1, <1>4, WidthMonotone
<1> QED
  BY <1>1, <1>2, <1>5, <1>6, <1>7 DEF L, t

\* A device read off a vector that leads on is the best one, and there.
LEMMA BestDevice ==
  ASSUME TypeOK, NEW n \in Node, NEW d, NEW index \in Nat, Best(neighbors, down, n, d, index + 1)
  PROVE  DeviceFor(n, index) = index + 1
<1>1. index + 1 \in DOMAIN neighbors[n] /\ neighbors[n] \in Seq(Node)
  BY DEF Best, Opens, TypeOK, IsNetwork
<1>2. index + 1 <= Len(neighbors[n]) /\ Len(neighbors[n]) \in Nat
  BY <1>1
<1>3. index < Len(neighbors[n])
  BY <1>2
<1> QED
  BY <1>3 DEF DeviceFor, FindTotalNeighbors

\* How a vector that leads on from n is read there with the true number of
\* neighbours.
LEMMA ReadOn ==
  ASSUME TypeOK, NEW v, IsVector(v), NEW n \in Node, NEW d,
         Leads(neighbors, down, v.words, n, v.total - v.used, d), n # d
  PROVE  LET b == BitCount(Len(neighbors[n]))
             i == DeviceFor(n, ExtractNeighborIndex(v, b))
         IN  /\ b \in Nat /\ b >= 1 /\ b <= GetRemainingBits(v)
             /\ GetRemainingBits(v) \in Nat
             /\ Best(neighbors, down, n, d, i) /\ i \in Open(n)
             /\ neighbors[n][i] \in Node
             /\ Leads(neighbors, down, v.words, neighbors[n][i], GetRemainingBits(v) - b, d)
<1> DEFINE b == BitCount(Len(neighbors[n]))
<1> DEFINE q == v.total - v.used
<1> DEFINE words == v.words
<1> DEFINE index == Extracted(words, q, b)
<1>0. Ends(neighbors) /\ Len(neighbors[n]) \in Nat /\ Len(neighbors[n]) <= Pow[WordSize]
  BY DEF TypeOK, IsNetwork, Ends
<1>1. b \in Nat /\ b >= 1 /\ b <= WordSize
  BY <1>0, Width, WidthFits
<1>2. /\ q \in Nat /\ b <= q
      /\ Best(neighbors, down, n, d, index + 1)
      /\ Leads(neighbors, down, words, neighbors[n][index + 1], q - b, d)
  <2> HIDE DEF q, words
  <2>1. Leads(neighbors, down, words, n, q, d)
    BY DEF q, words
  <2> QED
    BY <1>0, <2>1, LeadsOn
<1>3. ExtractNeighborIndex(v, b) \in Nat
  <2>1. b <= v.total - v.used
    BY <1>2
  <2> HIDE DEF b
  <2> QED
    BY <1>1, <2>1, ExtractType
<1>4. GetRemainingBits(v) = q /\ ExtractNeighborIndex(v, b) = index
  BY DEF GetRemainingBits, ExtractNeighborIndex
<1>5. index \in Nat
  BY <1>3, <1>4
<1> HIDE DEF index
<1>6. DeviceFor(n, index) = index + 1
  BY <1>2, <1>5, BestDevice
<1>7. index + 1 \in Open(n)
  BY <1>2 DEF Best, Opens, Open
<1>8. neighbors[n][index + 1] \in Node
  BY <1>0, <1>7 DEF Open, Ends
<1> QED
  BY <1>1, <1>2, <1>4, <1>6, <1>7, <1>8

\* A vector from which one index more was read.
LEMMA UsedIs ==
  ASSUME NEW v, IsVector(v), NEW b \in Nat, b <= GetRemainingBits(v)
  PROVE  /\ IsVector(Used(v, b)) /\ Used(v, b) \in Vector
         /\ Used(v, b).words = v.words
         /\ Used(v, b).total - Used(v, b).used = GetRemainingBits(v) - b
         /\ Used(v, b).used = v.used + b
<1>1. v \in Vector /\ v.used \in Nat /\ v.total \in Nat /\ b <= v.total - v.used
      /\ v.total = (Len(v.words) - 1) * WordSize + v.current
  BY DEF IsVector, Vector, GetRemainingBits
<1>2. Used(v, b) = [v EXCEPT !.used = v.used + b]
  BY DEF Used
<1>3. /\ Used(v, b).words = v.words /\ Used(v, b).total = v.total
      /\ Used(v, b).current = v.current /\ Used(v, b).used = v.used + b
      /\ Used(v, b) \in Vector
  BY <1>1, <1>2 DEF Vector
<1>4. v.used + b <= v.total /\ v.total - (v.used + b) = (v.total - v.used) - b
  BY <1>1
<1> HIDE DEF Vector
<1> QED
  BY <1>1, <1>3, <1>4 DEF IsVector, GetRemainingBits

\* Within in terms of the network.
LEMMA WithinIs == \A n, k : Within(n, k) = Ball(neighbors, down, n)[k]
BY DEF Within, Ball, Spread, Open, Opens

\* The route that RouteInput finds in the cache before the first change.
LEMMA RouteBest ==
  ASSUME IInv, changes = 0, NEW n \in Node, NEW d \in Node
  PROVE  RouteCache[n][d] = None \/ Best(neighbors, down, n, d, RouteCache[n][d])
<1>1. CASE g_isCacheDirty
  BY <1>1 DEF RouteCache, NoEntry
<1>2. CASE ~ g_isCacheDirty
  BY <1>2 DEF RouteCache, IInv, Steady, Calm, BestRoutes
<1> QED
  BY <1>1, <1>2

\* The fields of a packet in flight.
LEMMA PacketFacts ==
  ASSUME TypeOK, NEW p \in packets
  PROVE  /\ p.at \in Node /\ p.from \in Node /\ IsVector(p.vector) /\ p.vector \in Vector
         /\ p.flow \in scenario.flows \ unsent
         /\ p.flow[1] \in Node /\ p.flow[2] \in Node /\ p.flow[1] # p.flow[2]
         /\ p.hops \in Nat /\ p.hops \in 1 .. p.vector.used
         /\ Joined(neighbors, p.from, p.at) /\ Joined(neighbors, p.at, p.from)
<1>1. scenario \in Scenarios /\ Flies(neighbors, scenario.flows \ unsent, p)
  BY TypeParts DEF Typed
<1>2. /\ p.at \in Node /\ p.from \in Node /\ IsVector(p.vector) /\ p.vector \in Vector
      /\ p.flow \in scenario.flows \ unsent /\ p.hops \in Nat /\ p.hops \in 1 .. p.vector.used
      /\ Joined(neighbors, p.from, p.at) /\ Joined(neighbors, p.at, p.from)
  BY <1>1 DEF Flies
<1>3. scenario.flows \subseteq Node \X Node /\ \A f \in scenario.flows : f[1] # f[2]
  BY <1>1, NixAssumption
<1>4. p.flow[1] \in Node /\ p.flow[2] \in Node /\ p.flow[1] # p.flow[2]
  BY <1>2, <1>3
<1> QED
  BY <1>2, <1>4

\* The cached route is the best one, as is the one the vector asks for.
LEMMA InvFollows == IInv => FollowsVector
<1> SUFFICES ASSUME IInv, changes = 0, NEW p \in packets, p.at # p.flow[2]
             PROVE  LET bits  == BitCount(TotalNeighbors(p.at))
                        route == RouteCache[p.at][p.flow[2]]
                    IN  /\ bits <= GetRemainingBits(p.vector)
                        /\ route \in {None, DeviceFor(p.at, ExtractNeighborIndex(p.vector, bits))}
  BY DEF FollowsVector
<1> DEFINE n == p.at
<1> DEFINE d == p.flow[2]
<1> DEFINE v == p.vector
<1>1. TypeOK /\ Counted /\ neighbors = scenario.neighbors /\ OnWay(neighbors, down, p)
  BY DEF IInv, Original, Steady, Calm
<1>2. n \in Node /\ d \in Node /\ IsVector(v)
  BY <1>1, PacketFacts
<1>3. Leads(neighbors, down, v.words, n, v.total - v.used, d) /\ n # d
  BY <1>1 DEF OnWay
<1>4. TotalNeighbors(n) = Len(neighbors[n])
  BY <1>1, <1>2, TotalIs
<1> HIDE DEF n, d, v
<1> DEFINE b == BitCount(Len(neighbors[n]))
<1> DEFINE i == DeviceFor(n, ExtractNeighborIndex(v, b))
<1>5. b <= GetRemainingBits(v) /\ Best(neighbors, down, n, d, i)
  BY <1>1, <1>2, <1>3, ReadOn
<1>6. RouteCache[n][d] = None \/ Best(neighbors, down, n, d, RouteCache[n][d])
  BY <1>2, RouteBest
<1>7. Ends(neighbors)
  BY <1>1 DEF TypeOK, IsNetwork, Ends
<1> HIDE DEF i
<1>8. RouteCache[n][d] = None \/ RouteCache[n][d] = i
  <2>1. PICK j : j = RouteCache[n][d]
    OBVIOUS
  <2>2. j = None \/ Best(neighbors, down, n, d, j)
    BY <1>6, <2>1
  <2>3. j = None \/ j = i
    BY <1>2, <1>5, <1>7, <2>2, BestUnique
  <2> QED
    BY <2>1, <2>3
<1> QED
  BY <1>4, <1>5, <1>8 DEF i, n, d, v

\* What has arrived was on a shortest way.
LEMMA InvShortest == IInv => DeliveredByShortestWay
<1> SUFFICES ASSUME IInv, changes = 0, NEW x \in delivered
             PROVE  /\ x[1][2] \in Within(x[1][1], x[2])
                    /\ x[1][2] \notin Within(x[1][1], x[2] - 1)
  BY DEF DeliveredByShortestWay
<1>1. Near(neighbors, down, x[1][1], x[1][2], x[2])
  BY DEF IInv, Steady, Calm
<1>2. x \in (scenario.flows \ unsent) \X Nat /\ scenario \in Scenarios
  BY DEF IInv, TypeOK
<1>3. x[1] \in scenario.flows /\ x[2] \in Nat
  BY <1>2
<1>4. x[1][1] \in Node /\ x[1][1] # x[1][2]
  BY <1>2, <1>3, NixAssumption
<1>5. x[2] # 0
  <2>1. Ball(neighbors, down, x[1][1])[0] = {x[1][1]}
    BY <1>4, BallDef
  <2> QED
    BY <1>1, <1>4, <2>1 DEF Near
<1>6. x[2] - 1 \in Nat /\ x[2] - 1 < x[2]
  BY <1>3, <1>5
<1> QED
  BY <1>1, <1>6, WithinIs DEF Near

\* What was sent is on its way, has arrived or has nowhere to go.
LEMMA InvNothingLost == IInv => NothingLost
<1> SUFFICES ASSUME IInv, changes = 0
             PROVE  /\ ~ fatal
                    /\ \A f \in scenario.flows \ unsent :
                         \/ \E p \in packets : p.flow = f
                         \/ \E x \in delivered : x[1] = f
                         \/ f[2] \notin Within(f[1], Cardinality(Node))
  BY DEF NothingLost
<1>1. /\ ~ fatal
      /\ \A f \in scenario.flows \ unsent : Accounted(neighbors, down, f, packets, delivered)
  BY DEF IInv, Steady, Calm
<1>2. Cardinality(Node) \in Nat
  BY NixAssumption, FS_CardinalityType
<1> QED
  BY <1>1, <1>2, WithinIs DEF Accounted

-----------------------------------------------------------------------------
(* Where a vector leads.                                                      *)

Walk(n, v) ==
  LET walk[k \in Nat] == IF k = 0 THEN [at |-> n, left |-> v] ELSE Hop(walk[k - 1])
  IN  walk

\* A walk that is still led to d.
Walks(here, d) ==
  /\ here \in [at : Node, left : Vector]
  /\ IsVector(here.left)
  /\ Leads(neighbors, down, here.left.words, here.at, here.left.total - here.left.used, d)

\* While no link has been added, the widths are those of the vectors.
LEMMA WidthsBefore ==
  ASSUME TypeOK, Counted, neighbors = scenario.neighbors
  PROVE  WidthsCurrent
  BY TotalIs DEF WidthsCurrent, FindTotalNeighbors

\* A vector that is used up has led to d.
LEMMA LeadsEnds ==
  ASSUME NEW nbr, NEW dn, Ends(nbr), NEW words, NEW n \in Node, NEW d, Leads(nbr, dn, words, n, 0, d)
  PROVE  n = d
<1> SUFFICES ASSUME n # d PROVE FALSE
  OBVIOUS
<1>1. BitCount(Len(nbr[n])) <= 0
  <2>1. PICK q : q = 0
    OBVIOUS
  <2>2. Leads(nbr, dn, words, n, q, d)
    BY <2>1
  <2>3. BitCount(Len(nbr[n])) <= q
    BY <2>2, LeadsOn
  <2> QED
    BY <2>1, <2>3
<1>2. BitCount(Len(nbr[n])) \in Nat /\ BitCount(Len(nbr[n])) >= 1
  <2>1. Len(nbr[n]) \in Nat
    BY DEF Ends
  <2> QED
    BY <2>1, Width
<1> QED
  BY <1>1, <1>2

\* A vector that leads from d to d is used up.
LEMMA LeadsHere ==
  ASSUME NEW nbr, NEW dn, NEW words, NEW q, NEW d, Leads(nbr, dn, words, d, q, d)
  PROVE  q = 0
<1>1. PICK R : LeadsBy(nbr, dn, words, d, q, d, R)
  BY DEF Leads
<1>2. Guides(nbr, dn, words, d, R, d, q)
  BY <1>1 DEF LeadsBy
<1> QED
  BY <1>2 DEF Guides

\* A hop of the walk takes at least one bit and is still led to d.
LEMMA HopStep ==
  ASSUME TypeOK, WidthsCurrent, NEW here, NEW d, Walks(here, d)
  PROVE  /\ Walks(Hop(here), d)
         /\ GetRemainingBits(here.left) \in Nat
         /\ GetRemainingBits(here.left) = 0 => Hop(here) = here
         /\ GetRemainingBits(here.left) # 0 =>
              GetRemainingBits(Hop(here).left) < GetRemainingBits(here.left)
<1> DEFINE n == here.at
<1> DEFINE v == here.left
<1> DEFINE b == BitCount(Len(neighbors[n]))
<1> DEFINE i == DeviceFor(n, ExtractNeighborIndex(v, b))
<1> DEFINE w == Used(v, b)
<1>1. /\ n \in Node /\ v \in Vector /\ IsVector(v) /\ n # None
      /\ Leads(neighbors, down, v.words, n, v.total - v.used, d)
  BY NixAssumption DEF Walks
<1>2. BitCount(TotalNeighbors(n)) = b
  BY <1>1 DEF WidthsCurrent, FindTotalNeighbors
<1>3. GetRemainingBits(v) \in Nat /\ GetRemainingBits(v) = v.total - v.used
  <2>1. v.total \in Nat /\ v.used \in Nat /\ v.used <= v.total
    BY <1>1 DEF IsVector, Vector
  <2> QED
    BY <2>1 DEF GetRemainingBits
<1>4. CASE GetRemainingBits(v) = 0
  <2>1. Hop(here) = here
    BY <1>4 DEF Hop
  <2> QED
    BY <1>3, <1>4, <2>1
<1>5. CASE GetRemainingBits(v) # 0
  <2>1. n # d
    <3> SUFFICES ASSUME n = d PROVE FALSE
      OBVIOUS
    <3>1. PICK q, x : q = v.total - v.used /\ x = v.words
      OBVIOUS
    <3>2. Leads(neighbors, down, x, d, q, d)
      BY <1>1, <3>1
    <3>3. q = 0
      BY <3>2, LeadsHere
    <3> QED
      BY <1>3, <1>5, <3>1, <3>3
  <2>2. /\ b \in Nat /\ b >= 1 /\ b <= GetRemainingBits(v)
        /\ i \in Open(n) /\ neighbors[n][i] \in Node
        /\ Leads(neighbors, down, v.words, neighbors[n][i], GetRemainingBits(v) - b, d)
    <3> HIDE DEF n, v
    <3> QED
      BY <1>1, <2>1, ReadOn
  <2>3. Hop(here) = [at |-> neighbors[n][i], left |-> w]
    <3>1. ~ (BitCount(TotalNeighbors(n)) > GetRemainingBits(v))
      BY <1>2, <1>3, <2>2
    <3> QED
      BY <1>1, <1>2, <1>5, <2>2, <3>1 DEF Hop
  <2> HIDE DEF i
  <2>4. /\ IsVector(w) /\ w \in Vector /\ w.words = v.words
        /\ w.total - w.used = GetRemainingBits(v) - b
    <3> HIDE DEF b, v
    <3> QED
      BY <1>1, <2>2, UsedIs
  <2> HIDE DEF w, b, v, n
  <2>5. Hop(here).at = neighbors[n][i] /\ Hop(here).left = w
        /\ Hop(here) \in [at : Node, left : Vector]
    BY <2>2, <2>3, <2>4
  <2>6. Walks(Hop(here), d)
    BY <2>2, <2>4, <2>5 DEF Walks
  <2>7. GetRemainingBits(w) = GetRemainingBits(v) - b
    BY <2>4 DEF GetRemainingBits
  <2>8. GetRemainingBits(w) < GetRemainingBits(v)
    BY <1>3, <2>2, <2>7
  <2> QED
    BY <1>3, <1>5, <2>5, <2>6, <2>8 DEF v
<1> QED
  BY <1>4, <1>5

\* The recursion of Walk.
LEMMA WalkDef ==
  ASSUME TypeOK, WidthsCurrent, NEW n, NEW v, NEW d, Walks([at |-> n, left |-> v], d)
  PROVE  /\ Walk(n, v)[0] = [at |-> n, left |-> v]
         /\ \A k \in Nat : Walk(n, v)[k + 1] = Hop(Walk(n, v)[k])
<1> DEFINE start == [at |-> n, left |-> v]
<1> DEFINE S == {x \in [at : Node, left : Vector] : Walks(x, d)}
<1> DEFINE F == [x \in S \X Nat |-> Hop(x[1])]
<1>1. ASSUME NEW x \in S PROVE Hop(x) \in S
  <2>1. Walks(Hop(x), d)
    BY HopStep
  <2> QED
    BY <2>1 DEF Walks
<1>2. F \in [S \X Nat -> S] /\ start \in S
  <2>1. start \in S
    BY DEF Walks
  <2> HIDE DEF S, start
  <2> QED
    BY <1>1, <2>1
<1>3. \A x \in S, k \in Nat : F[<<x, k>>] = Hop(x)
  OBVIOUS
<1> HIDE DEF F, S, start
<1>4. PICK f \in [Nat -> S] : Solves(f, start, F)
  BY <1>2, Recursion
<1>5. f = [i \in Nat |-> IF i = 0 THEN start ELSE Hop(f[i - 1])]
  <2>1. ASSUME NEW k \in Nat PROVE f[k] = IF k = 0 THEN start ELSE Hop(f[k - 1])
    <3>1. CASE k = 0
      BY <1>4, <3>1 DEF Solves
    <3>2. CASE k # 0
      <4>1. f[k] = F[<<f[k - 1], k>>]
        BY <1>4, <3>2 DEF Solves
      <4>2. f[k - 1] \in S
        BY <3>2
      <4> QED
        BY <4>1, <4>2, <1>3, <3>2
    <3> QED
      BY <3>1, <3>2
  <2> QED
    BY <2>1
<1> DEFINE B == Walk(n, v)
<1>6. B = [i \in Nat |-> IF i = 0 THEN start ELSE Hop(B[i - 1])]
  BY <1>5 DEF Walk, start
<1> HIDE DEF B
<1>7. B[0] = start
  BY <1>6
<1>8. ASSUME NEW k \in Nat PROVE B[k + 1] = Hop(B[k])
  <2>1. k + 1 \in Nat /\ k + 1 # 0 /\ (k + 1) - 1 = k
    OBVIOUS
  <2>2. B[k + 1] = Hop(B[(k + 1) - 1])
    BY <1>6, <2>1
  <2> QED
    BY <2>1, <2>2
<1> QED
  BY <1>7, <1>8 DEF B, start

\* A vector that leads to d is walked to d.
LEMMA FreshEnds ==
  ASSUME TypeOK, WidthsCurrent, NEW n \in Node, NEW d, NEW v, Fresh(neighbors, down, v, n, d)
  PROVE  EndOf(n, v) = d
<1> DEFINE start == [at |-> n, left |-> v]
<1> DEFINE B == Walk(n, v)
<1> DEFINE q == GetRemainingBits(v)
<1>1. /\ v \in Vector /\ IsVector(v) /\ v.used = 0 /\ v.total \in Nat
      /\ Leads(neighbors, down, v.words, n, v.total, d)
  BY DEF Fresh, Filled, IsVector, Vector
<1>2. v.total - v.used = v.total /\ q = v.total
  BY <1>1 DEF GetRemainingBits
<1>3. Walks(start, d)
  BY <1>1, <1>2 DEF Walks
<1>4. B[0] = start /\ \A k \in Nat : B[k + 1] = Hop(B[k])
  BY <1>3, WalkDef
<1>5. EndOf(n, v) = B[q].at
  BY DEF EndOf, Walk
<1> HIDE DEF B, q
<1> DEFINE r(k) == GetRemainingBits(B[k].left)
<1> DEFINE T == {k \in Nat : Walks(B[k], d) /\ r(k) \in Nat /\ (r(k) = 0 \/ r(k) + k <= q)}
<1>6. 0 \in T
  <2>1. B[0].left = v
    BY <1>4
  <2>2. r(0) = q
    BY <2>1 DEF q
  <2> HIDE DEF start
  <2> QED
    BY <1>1, <1>2, <1>3, <1>4, <2>2
<1>7. ASSUME NEW k \in Nat, k \in T PROVE k + 1 \in T
  <2>1. PICK x : x = B[k]
    OBVIOUS
  <2>2. Walks(x, d) /\ GetRemainingBits(x.left) \in Nat
        /\ (GetRemainingBits(x.left) = 0 \/ GetRemainingBits(x.left) + k <= q)
    BY <1>7, <2>1
  <2>3. PICK y : y = Hop(x)
    OBVIOUS
  <2>4. B[k + 1] = y
    BY <1>4, <2>1, <2>3
  <2>5. /\ Walks(y, d)
        /\ GetRemainingBits(x.left) = 0 => y = x
        /\ GetRemainingBits(x.left) # 0 => GetRemainingBits(y.left) < GetRemainingBits(x.left)
    BY <2>2, <2>3, HopStep
  <2>6. GetRemainingBits(y.left) \in Nat
    BY <2>5, HopStep
  <2>7. GetRemainingBits(y.left) = 0 \/ GetRemainingBits(y.left) + (k + 1) <= q
    BY <1>1, <1>2, <2>2, <2>5, <2>6
  <2> QED
    BY <2>4, <2>5, <2>6, <2>7
<1>8. q \in T
  <2> HIDE DEF T
  <2> QED
    BY <1>1, <1>2, <1>6, <1>7, Inductive
<1>9. PICK x : x = B[q]
  OBVIOUS
<1>10. Walks(x, d) /\ GetRemainingBits(x.left) = 0
  BY <1>1, <1>2, <1>8, <1>9
<1>11. x.at \in Node /\ Leads(neighbors, down, x.left.words, x.at, 0, d)
  BY <1>10 DEF Walks, GetRemainingBits
<1>12. Ends(neighbors)
  BY DEF TypeOK, IsNetwork, Ends
<1>13. x.at = d
  BY <1>11, <1>12, LeadsEnds
<1> QED
  BY <1>5, <1>9, <1>13

\* Cached vectors lead to their destinations.
LEMMA InvLive == IInv => CachedVectorsLive
<1> SUFFICES ASSUME IInv, ~ g_isCacheDirty, neighbors = scenario.neighbors \/ WidthsCurrent,
                    NEW n \in Node, NEW d \in Node, m_nixCache[n][d] # None
             PROVE  EndOf(n, m_nixCache[n][d]) = d
  BY DEF CachedVectorsLive
<1>1. PICK v : v = m_nixCache[n][d]
  OBVIOUS
<1>2. Fresh(neighbors, down, v, n, d)
  BY <1>1 DEF IInv, Live, LiveCache
<1>w. WidthsCurrent
  BY WidthsBefore DEF IInv
<1>3. EndOf(n, v) = d
  BY <1>2, <1>w, FreshEnds DEF IInv
<1> QED
  BY <1>1, <1>3

-----------------------------------------------------------------------------
(* The steps.                                                                 *)

\* The start.
LEMMA InitInv == Init => IInv
<1> SUFFICES ASSUME Init PROVE IInv
  OBVIOUS
<1> DEFINE nbr == neighbors
<1>1. scenario \in Scenarios /\ nbr = scenario.neighbors /\ IsNetwork(nbr) /\ scenario.changes \in Nat
  BY NixAssumption DEF Init
<1>2. /\ down = {} /\ changes = 0 /\ g_isCacheDirty = TRUE /\ m_nixCache = NoEntry
      /\ m_ipv4RouteCache = NoEntry /\ m_totalNeighbors = [n \in Node |-> 0]
      /\ unsent = scenario.flows /\ packets = {} /\ delivered = {} /\ fatal = FALSE
  BY DEF Init
<1>3. \A n \in Node : Len(nbr[n]) \in Nat
  BY <1>1 DEF IsNetwork
<1>4. Cached(nbr, NoEntry, NoEntry, [n \in Node |-> 0])
  <2>1. /\ NoEntry \in [Node -> [Node -> Vector \cup {None}]]
        /\ NoEntry \in [Node -> [Node -> Nat \cup {None}]]
        /\ \A n, d \in Node : NoEntry[n][d] = None
    BY DEF NoEntry
  <2> HIDE DEF nbr
  <2> QED
    BY <1>3, <2>1 DEF Cached
<1>5. TypeOK
  <2>1. Wired(nbr, down) /\ changes \in 0 .. scenario.changes
    BY <1>1, <1>2 DEF Wired
  <2>2. Typed(scenario, neighbors, down, changes, g_isCacheDirty, m_nixCache,
              m_ipv4RouteCache, m_totalNeighbors, unsent, packets, delivered, fatal)
    BY <1>1, <1>2, <1>4, <2>1 DEF Typed
  <2> QED
    BY <2>2, TypeParts
<1>6. Live
  BY <1>2 DEF Live
<1>7. Counted
  BY <1>1, <1>2, <1>3 DEF Counted, Counts
<1>8. Original
  BY <1>1 DEF Original
<1>9. Steady
  BY <1>2 DEF Steady, Calm
<1> QED
  BY <1>5, <1>6, <1>7, <1>8, <1>9 DEF IInv

-----------------------------------------------------------------------------
(* Changes of the network.                                                    *)

\* Devices are only added.
Wider(nbr, more) ==
  \A n \in Node : /\ Len(nbr[n]) \in Nat /\ Len(more[n]) \in Nat
                  /\ Len(nbr[n]) <= Len(more[n])
                  /\ DOMAIN nbr[n] \subseteq DOMAIN more[n]
                  /\ \A i \in DOMAIN nbr[n] : more[n][i] = nbr[n][i]

\* New devices do not disturb the types of the caches ...
LEMMA WiderCached ==
  ASSUME NEW nbr, NEW more, Wider(nbr, more), NEW nix, NEW route, NEW total,
         Cached(nbr, nix, route, total)
  PROVE  Cached(more, nix, route, total)
<1>1. ASSUME NEW n \in Node PROVE \A i \in 0 .. Len(nbr[n]) : i \in 0 .. Len(more[n])
  BY DEF Wider
<1> QED
  BY <1>1 DEF Cached

\* ... nor those of the packets.
LEMMA WiderFlies ==
  ASSUME NEW nbr, NEW more, Wider(nbr, more), NEW sent, NEW p, Flies(nbr, sent, p)
  PROVE  Flies(more, sent, p)
<1>1. p.at \in Node /\ p.from \in Node
  BY DEF Flies
<1>2. \A x, y \in Node : Joined(nbr, x, y) => Joined(more, x, y)
  BY DEF Joined, Wider
<1> QED
  BY <1>1, <1>2 DEF Flies

\* A change keeps the invariant if the network keeps its form.
LEMMA ChangeInv ==
  ASSUME IInv, Change, Wider(neighbors, neighbors'), Wired(neighbors', down')
  PROVE  IInv'
<1>1. /\ changes < scenario.changes /\ changes' = changes + 1 /\ g_isCacheDirty' = TRUE
      /\ scenario' = scenario /\ m_nixCache' = m_nixCache /\ m_ipv4RouteCache' = m_ipv4RouteCache
      /\ m_totalNeighbors' = m_totalNeighbors /\ unsent' = unsent /\ packets' = packets
      /\ delivered' = delivered /\ fatal' = fatal
  BY DEF Change
<1>2. Typed(scenario, neighbors, down, changes, g_isCacheDirty, m_nixCache,
            m_ipv4RouteCache, m_totalNeighbors, unsent, packets, delivered, fatal)
  BY TypeParts DEF IInv
<1>3. changes \in Nat /\ changes' \in 0 .. scenario.changes /\ changes' # 0
  <2>1. scenario.changes \in Nat /\ changes \in 0 .. scenario.changes
    BY <1>2, NixAssumption DEF Typed
  <2> QED
    BY <1>1, <2>1
<1>4. Cached(neighbors', m_nixCache, m_ipv4RouteCache, m_totalNeighbors)
  BY <1>2, WiderCached DEF Typed
<1>5. \A p \in packets : Flies(neighbors', scenario.flows \ unsent, p)
  BY <1>2, WiderFlies DEF Typed
<1>6. Typed(scenario', neighbors', down', changes', g_isCacheDirty', m_nixCache',
            m_ipv4RouteCache', m_totalNeighbors', unsent', packets', delivered', fatal')
  BY <1>1, <1>2, <1>3, <1>4, <1>5 DEF Typed
<1>7. TypeOK'
  BY <1>6, TypePartsNext
<1>8. Live'
  BY <1>1 DEF Live
<1>9. Counted'
  <2>1. Counts(scenario, neighbors, m_totalNeighbors)
    BY DEF IInv, Counted
  <2>2. ASSUME NEW n \in Node PROVE Len(scenario.neighbors[n]) <= Len(neighbors'[n])
    <3>1. Len(scenario.neighbors[n]) \in Nat
      BY <1>2, NixAssumption DEF Typed, IsNetwork
    <3>2. /\ Len(scenario.neighbors[n]) <= Len(neighbors[n]) /\ Len(neighbors[n]) <= Len(neighbors'[n])
          /\ Len(neighbors[n]) \in Nat /\ Len(neighbors'[n]) \in Nat
      BY <2>1 DEF Counts, Wider
    <3> QED
      BY <3>1, <3>2
  <2>3. Counts(scenario', neighbors', m_totalNeighbors')
    BY <1>1, <2>1, <2>2 DEF Counts
  <2> QED
    BY <2>3 DEF Counted
<1>10. Original' /\ Steady'
  BY <1>3 DEF Original, Steady
<1> QED
  BY <1>7, <1>8, <1>9, <1>10 DEF IInv

\* No device was added.
LEMMA WiderSelf ==
  ASSUME NEW nbr, IsNetwork(nbr)
  PROVE  Wider(nbr, nbr)
<1>1. \A n \in Node : Len(nbr[n]) \in Nat
  BY DEF IsNetwork
<1> QED
  BY <1>1 DEF Wider

\* An interface goes down.
LEMMA DownInv ==
  ASSUME IInv, NEW n \in Node, NEW i \in DOMAIN neighbors[n], NotifyInterfaceDown(n, i)
  PROVE  IInv'
<1>1. Wired(neighbors, down)
  BY TypeParts DEF IInv, Typed
<1>2. neighbors' = neighbors /\ down' = down \cup {<<n, i>>} /\ Change
  BY DEF NotifyInterfaceDown
<1>3. Wired(neighbors', down')
  BY <1>1, <1>2 DEF Wired
<1>4. Wider(neighbors, neighbors')
  BY <1>1, <1>2, WiderSelf DEF Wired
<1> QED
  BY <1>2, <1>3, <1>4, ChangeInv

\* An interface comes up.
LEMMA UpInv ==
  ASSUME IInv, NEW n, NEW i, NotifyInterfaceUp(n, i)
  PROVE  IInv'
<1>1. Wired(neighbors, down)
  BY TypeParts DEF IInv, Typed
<1>2. neighbors' = neighbors /\ down' = down \ {<<n, i>>} /\ Change
  BY DEF NotifyInterfaceUp
<1>3. Wired(neighbors', down')
  BY <1>1, <1>2 DEF Wired
<1>4. Wider(neighbors, neighbors')
  BY <1>1, <1>2, WiderSelf DEF Wired
<1> QED
  BY <1>2, <1>3, <1>4, ChangeInv

\* A new link keeps the network's form.
LEMMA NewLink ==
  ASSUME NEW nbr, IsNetwork(nbr), NEW m \in Node, NEW n \in Node, m # n,
         ~ Joined(nbr, m, n), Len(nbr[m]) < Pow[WordSize], Len(nbr[n]) < Pow[WordSize]
  PROVE  LET more == [nbr EXCEPT ![m] = Append(@, n), ![n] = Append(@, m)]
         IN  IsNetwork(more) /\ Wider(nbr, more)
<1> DEFINE more == [nbr EXCEPT ![m] = Append(@, n), ![n] = Append(@, m)]
<1>1. nbr \in [Node -> Seq(Node)] /\ \A x \in Node : nbr[x] \in Seq(Node) /\ Len(nbr[x]) \in Nat
  BY DEF IsNetwork
<1>2. /\ more[m] = Append(nbr[m], n) /\ more[n] = Append(nbr[n], m)
      /\ \A x \in Node : x # m /\ x # n => more[x] = nbr[x]
      /\ more \in [Node -> Seq(Node)]
  <2> DEFINE a == Append(nbr[m], n)
  <2> DEFINE b == Append(nbr[n], m)
  <2>1. a \in Seq(Node) /\ b \in Seq(Node)
    BY <1>1
  <2>2. more = [nbr EXCEPT ![m] = a, ![n] = b]
    BY <1>1
  <2> HIDE DEF a, b, more
  <2>3. /\ more[m] = a /\ more[n] = b /\ more \in [Node -> Seq(Node)]
        /\ \A x \in Node : x # m /\ x # n => more[x] = nbr[x]
    <3> DEFINE S == Seq(Node)
    <3>1. nbr \in [Node -> S] /\ a \in S /\ b \in S
      BY <1>1, <2>1
    <3> HIDE DEF S
    <3>2. /\ more[m] = a /\ more[n] = b /\ more \in [Node -> S]
          /\ \A x \in Node : x # m /\ x # n => more[x] = nbr[x]
      BY <2>2, <3>1
    <3> QED
      BY <3>2 DEF S
  <2> QED
    BY <2>3 DEF a, b
<1>3. Pow[WordSize] \in Nat
  BY WordAssumption, PowStep
<1> HIDE DEF more
\* The node at the other end of the new device of x.
<1> DEFINE o(x) == IF x = m THEN n ELSE m
<1>4. ASSUME NEW x \in {m, n}
      PROVE  /\ x \in Node /\ o(x) \in {m, n} /\ o(o(x)) = x /\ o(x) # x
             /\ more[x] = Append(nbr[x], o(x)) /\ Len(nbr[x]) < Pow[WordSize]
             /\ more[x] \in Seq(Node)
             /\ Len(more[x]) = Len(nbr[x]) + 1 /\ more[x][Len(nbr[x]) + 1] = o(x)
             /\ \A i \in 1 .. Len(nbr[x]) : more[x][i] = nbr[x][i]
             /\ \A i \in DOMAIN nbr[x] : nbr[x][i] # o(x)
  <2>1. x \in Node /\ o(x) \in {m, n} /\ o(o(x)) = x /\ o(x) # x /\ more[x] = Append(nbr[x], o(x))
        /\ Len(nbr[x]) < Pow[WordSize]
    BY <1>2, SMTT(30)
  <2>2. more[x] \in Seq(Node)
    BY <1>2, <2>1
  <2>3. ~ Joined(nbr, n, m)
    BY DEF Joined, IsNetwork
  <2>4. \A i \in DOMAIN nbr[x] : nbr[x][i] # o(x)
    BY <2>3 DEF Joined
  <2>5. nbr[x] \in Seq(Node) /\ o(x) \in Node
    BY <1>1, <2>1
  <2> HIDE DEF o
  <2>6. /\ Len(Append(nbr[x], o(x))) = Len(nbr[x]) + 1
        /\ Append(nbr[x], o(x))[Len(nbr[x]) + 1] = o(x)
        /\ \A i \in 1 .. Len(nbr[x]) : Append(nbr[x], o(x))[i] = nbr[x][i]
    BY <2>5
  <2> QED
    BY <2>1, <2>2, <2>4, <2>6
<1> HIDE DEF o
<1>5. ASSUME NEW x \in Node
      PROVE  /\ Len(more[x]) \in Nat /\ Len(nbr[x]) <= Len(more[x])
             /\ DOMAIN nbr[x] = 1 .. Len(nbr[x]) /\ DOMAIN more[x] = 1 .. Len(more[x])
             /\ DOMAIN nbr[x] \subseteq DOMAIN more[x]
             /\ \A i \in DOMAIN nbr[x] : more[x][i] = nbr[x][i]
             /\ Len(more[x]) <= Pow[WordSize]
  <2>0. DOMAIN nbr[x] = 1 .. Len(nbr[x]) /\ DOMAIN more[x] = 1 .. Len(more[x]) /\ Len(more[x]) \in Nat
        /\ Len(nbr[x]) \in Nat
    BY <1>1, <1>2
  <2>1. CASE x \in {m, n}
    <3>1. Len(more[x]) = Len(nbr[x]) + 1 /\ \A i \in 1 .. Len(nbr[x]) : more[x][i] = nbr[x][i]
          /\ Len(nbr[x]) < Pow[WordSize]
      BY <1>4, <2>1
    <3>2. 1 .. Len(nbr[x]) \subseteq 1 .. Len(more[x]) /\ Len(more[x]) <= Pow[WordSize]
      BY <1>3, <2>0, <3>1
    <3> QED
      BY <2>0, <3>1, <3>2
  <2>2. CASE x \notin {m, n}
    BY <1>2, <2>0, <2>2, SMTT(30) DEF IsNetwork
  <2> QED
    BY <2>1, <2>2
<1>6. Wider(nbr, more)
  BY <1>1, <1>5 DEF Wider
\* A device of x is an old one or the new one.
<1>7. ASSUME NEW x \in Node, NEW i \in DOMAIN more[x]
      PROVE  \/ i \in DOMAIN nbr[x] /\ more[x][i] = nbr[x][i]
             \/ x \in {m, n} /\ i = Len(nbr[x]) + 1 /\ more[x][i] = o(x) /\ i \notin DOMAIN nbr[x]
  <2>1. CASE x \in {m, n}
    <3>1. Len(more[x]) = Len(nbr[x]) + 1 /\ more[x][Len(nbr[x]) + 1] = o(x)
      BY <1>4, <2>1
    <3>2. i \in 1 .. Len(more[x]) /\ DOMAIN nbr[x] = 1 .. Len(nbr[x]) /\ Len(nbr[x]) \in Nat
      BY <1>1, <1>5
    <3>3. i \in 1 .. Len(nbr[x]) \/ (i = Len(nbr[x]) + 1 /\ i \notin 1 .. Len(nbr[x]))
      BY <3>1, <3>2
    <3> QED
      BY <1>5, <2>1, <3>1, <3>2, <3>3
  <2>2. CASE x \notin {m, n}
    BY <1>2, <2>2
  <2> QED
    BY <2>1, <2>2
<1>8. ASSUME NEW x \in Node, NEW i \in DOMAIN more[x], NEW j \in DOMAIN more[x], more[x][i] = more[x][j]
      PROVE  i = j
  <2>1. \A a, b \in DOMAIN nbr[x] : nbr[x][a] = nbr[x][b] => a = b
    BY DEF IsNetwork
  <2>2. x \in {m, n} => \A a \in DOMAIN nbr[x] : nbr[x][a] # o(x)
    BY <1>4
  <2>3. \/ i \in DOMAIN nbr[x] /\ more[x][i] = nbr[x][i]
        \/ x \in {m, n} /\ i = Len(nbr[x]) + 1 /\ more[x][i] = o(x)
    BY <1>7
  <2>4. \/ j \in DOMAIN nbr[x] /\ more[x][j] = nbr[x][j]
        \/ x \in {m, n} /\ j = Len(nbr[x]) + 1 /\ more[x][j] = o(x)
    BY <1>7
  <2> QED
    BY <1>8, <2>1, <2>2, <2>3, <2>4
<1>9. ASSUME NEW x \in Node, NEW i \in DOMAIN more[x]
      PROVE  more[x][i] # x /\ \E j \in DOMAIN more[more[x][i]] : more[more[x][i]][j] = x
  <2>1. CASE i \in DOMAIN nbr[x] /\ more[x][i] = nbr[x][i]
    <3> DEFINE y == nbr[x][i]
    <3>1. y \in Node /\ y # x /\ \E j \in DOMAIN nbr[y] : nbr[y][j] = x
      BY <1>1, <2>1 DEF IsNetwork
    <3> HIDE DEF y
    <3>2. \E j \in DOMAIN more[y] : more[y][j] = x
      BY <1>5, <3>1
    <3> QED
      BY <2>1, <3>1, <3>2 DEF y
  <2>2. CASE x \in {m, n} /\ more[x][i] = o(x)
    <3> DEFINE y == o(x)
    <3>1. y \in {m, n} /\ o(y) = x /\ y # x
      BY <1>4, <2>2
    <3> HIDE DEF y
    <3>2. y \in Node /\ Len(more[y]) = Len(nbr[y]) + 1 /\ more[y][Len(nbr[y]) + 1] = o(y)
      BY <1>4, <3>1
    <3>3. Len(nbr[y]) + 1 \in DOMAIN more[y]
      <4>1. DOMAIN more[y] = 1 .. Len(more[y]) /\ Len(nbr[y]) \in Nat
        BY <1>1, <1>5, <3>2
      <4> QED
        BY <3>2, <4>1
    <3> QED
      BY <2>2, <3>1, <3>2, <3>3 DEF y
  <2> QED
    BY <1>7, <2>1, <2>2
<1>10. IsNetwork(more)
  BY <1>2, <1>5, <1>8, <1>9 DEF IsNetwork
<1> QED
  BY <1>6, <1>10 DEF more

\* A link is added.
LEMMA AddInv ==
  ASSUME IInv, NEW l \in NewLinks, NotifyAddAddress(l[1], l[2])
  PROVE  IInv'
<1> DEFINE m == l[1]
<1> DEFINE n == l[2]
<1> DEFINE more == [neighbors EXCEPT ![m] = Append(@, n), ![n] = Append(@, m)]
<1>1. m \in Node /\ n \in Node /\ m # n
  BY NixAssumption
<1>2. Wired(neighbors, down)
  BY TypeParts DEF IInv, Typed
<1>3. /\ ~ Joined(neighbors, m, n) /\ neighbors' = more /\ down' = down /\ Change
      /\ Len(neighbors[m]) < Pow[WordSize] /\ Len(neighbors[n]) < Pow[WordSize]
  BY DEF NotifyAddAddress, Linked, Joined, FindTotalNeighbors
<1>4. IsNetwork(neighbors)
  BY <1>2 DEF Wired
<1> HIDE DEF m, n
<1>5. IsNetwork(more) /\ Wider(neighbors, more)
  BY <1>1, <1>3, <1>4, NewLink
<1> HIDE DEF more
<1>6. Wired(neighbors', down')
  BY <1>2, <1>3, <1>5 DEF Wired, Wider
<1> QED
  BY <1>3, <1>5, <1>6, ChangeInv

-----------------------------------------------------------------------------
(* Sending and forwarding.                                                    *)

\* The caches as RouteOutput and RouteInput find them.
LEMMA CachesNow ==
  ASSUME IInv
  PROVE  /\ Cached(neighbors, NixCache, RouteCache, m_totalNeighbors)
         /\ LiveCache(neighbors, down, NixCache)
         /\ changes = 0 => BestRoutes(neighbors, down, RouteCache)
<1>1. Cached(neighbors, m_nixCache, m_ipv4RouteCache, m_totalNeighbors)
  BY TypeParts DEF IInv, Typed
<1>2. CASE g_isCacheDirty
  <2>1. NixCache = NoEntry /\ RouteCache = NoEntry
    BY <1>2 DEF NixCache, RouteCache
  <2>2. /\ NoEntry \in [Node -> [Node -> Vector \cup {None}]]
        /\ NoEntry \in [Node -> [Node -> Nat \cup {None}]]
        /\ \A n, d \in Node : NoEntry[n][d] = None
    BY DEF NoEntry
  <2>3. Cached(neighbors, NoEntry, NoEntry, m_totalNeighbors)
    BY <1>1, <2>2 DEF Cached
  <2>4. LiveCache(neighbors, down, NoEntry) /\ BestRoutes(neighbors, down, NoEntry)
    BY <2>2 DEF LiveCache, BestRoutes
  <2> QED
    BY <2>1, <2>3, <2>4
<1>3. CASE ~ g_isCacheDirty
  <2>1. NixCache = m_nixCache /\ RouteCache = m_ipv4RouteCache
    BY <1>3 DEF NixCache, RouteCache
  <2> QED
    BY <1>1, <1>3, <2>1 DEF IInv, Live, Steady, Calm
<1> QED
  BY <1>2, <1>3

\* GetNixVector's result goes into the cache.
LEMMA NixSet ==
  ASSUME NEW nbr, NEW dn, NEW nix, NEW route, NEW total, Cached(nbr, nix, route, total),
         LiveCache(nbr, dn, nix), NEW n \in Node, NEW d \in Node, NEW v,
         v = None \/ Fresh(nbr, dn, v, n, d)
  PROVE  /\ Cached(nbr, [nix EXCEPT ![n][d] = v], route, total)
         /\ LiveCache(nbr, dn, [nix EXCEPT ![n][d] = v])
<1> DEFINE S == Vector \cup {None}
<1> DEFINE new == [nix EXCEPT ![n][d] = v]
<1>1. v \in S /\ (v = None \/ IsVector(v))
  BY DEF Fresh, Filled
<1>2. nix \in [Node -> [Node -> S]]
  BY DEF Cached
<1> HIDE DEF S
<1>3. /\ new \in [Node -> [Node -> S]]
      /\ \A m, e \in Node : new[m][e] = IF m = n /\ e = d THEN v ELSE nix[m][e]
  BY <1>1, <1>2
<1> HIDE DEF new
<1>4. Cached(nbr, new, route, total)
  BY <1>1, <1>3 DEF Cached, S
<1>5. LiveCache(nbr, dn, new)
  BY <1>3 DEF LiveCache
<1> QED
  BY <1>4, <1>5 DEF new

\* A route goes into the cache.
LEMMA RouteSet ==
  ASSUME NEW nbr, NEW nix, NEW route, NEW total, Cached(nbr, nix, route, total),
         NEW n \in Node, NEW d \in Node, Len(nbr[n]) \in Nat, NEW i \in 0 .. Len(nbr[n])
  PROVE  /\ Cached(nbr, nix, [route EXCEPT ![n][d] = i], total)
         /\ \A m, e \in Node : [route EXCEPT ![n][d] = i][m][e] = IF m = n /\ e = d THEN i ELSE route[m][e]
<1> DEFINE S == Nat \cup {None}
<1> DEFINE new == [route EXCEPT ![n][d] = i]
<1>1. i \in S
  OBVIOUS
<1>2. route \in [Node -> [Node -> S]]
  BY DEF Cached
<1> HIDE DEF S
<1>3. /\ new \in [Node -> [Node -> S]]
      /\ \A m, e \in Node : new[m][e] = IF m = n /\ e = d THEN i ELSE route[m][e]
  BY <1>1, <1>2
<1> HIDE DEF new
<1>4. Cached(nbr, nix, new, total)
  BY <1>3 DEF Cached, S
<1> QED
  BY <1>3, <1>4 DEF new

\* A count of neighbours is remembered.
LEMMA TotalSet ==
  ASSUME NEW nbr, NEW nix, NEW route, NEW total, Cached(nbr, nix, route, total),
         NEW n \in Node, Len(nbr[n]) \in Nat, NEW t \in 0 .. Len(nbr[n])
  PROVE  /\ Cached(nbr, nix, route, [total EXCEPT ![n] = t])
         /\ \A m \in Node : [total EXCEPT ![n] = t][m] = IF m = n THEN t ELSE total[m]
<1> DEFINE new == [total EXCEPT ![n] = t]
<1>1. total \in [Node -> Nat] /\ t \in Nat
  BY DEF Cached
<1>2. new \in [Node -> Nat] /\ \A m \in Node : new[m] = IF m = n THEN t ELSE total[m]
  BY <1>1
<1> HIDE DEF new
<1>3. Cached(nbr, nix, route, new)
  BY <1>2 DEF Cached
<1> QED
  BY <1>2, <1>3 DEF new

\* A node that has counted its neighbours.
LEMMA CountedSet ==
  ASSUME IInv, NEW n \in Node
  PROVE  Counts(scenario, neighbors, [m_totalNeighbors EXCEPT ![n] = TotalNeighbors(n)])
<1> DEFINE t == TotalNeighbors(n)
<1>1. Counts(scenario, neighbors, m_totalNeighbors) /\ m_totalNeighbors \in [Node -> Nat]
  BY DEF IInv, Counted, TypeOK
<1>2. t = 0 \/ Len(scenario.neighbors[n]) <= t
  BY <1>1 DEF TotalNeighbors, FindTotalNeighbors, Counts
<1> HIDE DEF t
<1> QED
  BY <1>1, <1>2 DEF Counts, t

\* An index leads to a device or to the loopback.
LEMMA DeviceType ==
  ASSUME TypeOK, NEW n \in Node, NEW index \in Nat
  PROVE  DeviceFor(n, index) \in 0 .. Len(neighbors[n])
<1>1. Len(neighbors[n]) \in Nat
  BY TotalType
<1> QED
  BY <1>1 DEF DeviceFor, FindTotalNeighbors

\* What leaves a node is a packet between two neighbours.
LEMMA LeavesFly ==
  ASSUME TypeOK, NEW n \in Node, NEW i \in 0 .. Len(neighbors[n]), NEW sent, NEW f \in sent,
         NEW v, IsVector(v), NEW hops \in Nat, hops \in 1 .. v.used
  PROVE  \A p \in Leaves(n, i, f, v, hops) : Flies(neighbors, sent, p)
<1> DEFINE m == neighbors[n][i]
<1> DEFINE p == [flow |-> f, at |-> m, from |-> n, vector |-> v, hops |-> hops]
<1>1. SUFFICES ASSUME i # 0 PROVE Flies(neighbors, sent, p)
  BY DEF Leaves
<1>2. neighbors[n] \in Seq(Node) /\ i \in DOMAIN neighbors[n]
  <2>1. neighbors[n] \in Seq(Node)
    BY DEF TypeOK, IsNetwork
  <2> QED
    BY <1>1, <2>1
<1>3. m \in Node /\ Joined(neighbors, n, m) /\ Joined(neighbors, m, n)
  BY <1>2, SMTT(30) DEF TypeOK, IsNetwork, Joined
<1>4. v \in Vector
  BY DEF IsVector
<1> HIDE DEF m
<1> QED
  BY <1>3, <1>4 DEF Flies

\* A packet does leave by the best device.
LEMMA LeavesBest ==
  ASSUME TypeOK, NEW n \in Node, NEW d, NEW i, Best(neighbors, down, n, d, i), NEW f, NEW v, NEW hops
  PROVE  Leaves(n, i, f, v, hops)
           = {[flow |-> f, at |-> neighbors[n][i], from |-> n, vector |-> v, hops |-> hops]}
<1>1. i \in Opens(neighbors, down, n) /\ neighbors[n] \in Seq(Node)
  BY DEF Best, TypeOK, IsNetwork
<1>2. i # 0 /\ <<n, i>> \notin down
  BY <1>1 DEF Opens
<1> QED
  BY <1>2 DEF Leaves

\* Sending keeps the types of the packets.
LEMMA SentMore ==
  ASSUME NEW nbr, NEW sent, NEW more, sent \subseteq more, NEW p, Flies(nbr, sent, p)
  PROVE  Flies(nbr, more, p)
BY DEF Flies

\* The first hop from n, before the first change.
LEMMA FirstHop ==
  ASSUME IInv, changes = 0, NEW f \in unsent, NEW v, Fresh(neighbors, down, v, f[1], f[2]),
         f[1] \in Node, f[2] \in Node, f[1] # f[2]
  PROVE  LET b == BitCount(TotalNeighbors(f[1]))
             i == DeviceFor(f[1], ExtractNeighborIndex(v, b))
             p == [flow |-> f, at |-> neighbors[f[1]][i], from |-> f[1],
                   vector |-> Used(v, b), hops |-> 1]
         IN  /\ Best(neighbors, down, f[1], f[2], i)
             /\ Leaves(f[1], i, f, Used(v, b), 1) = {p}
             /\ OnWay(neighbors, down, p)
<1> DEFINE n == f[1]
<1> DEFINE d == f[2]
<1> DEFINE b == BitCount(Len(neighbors[n]))
<1> DEFINE i == DeviceFor(n, ExtractNeighborIndex(v, b))
<1> DEFINE w == Used(v, b)
<1> DEFINE p == [flow |-> f, at |-> neighbors[n][i], from |-> n, vector |-> w, hops |-> 1]
<1>1. TypeOK /\ Counted /\ neighbors = scenario.neighbors /\ n \in Node /\ n # d
  BY DEF IInv, Original
<1>2. TotalNeighbors(n) = Len(neighbors[n])
  BY <1>1, TotalIs
<1>3. /\ IsVector(v) /\ v.used = 0 /\ v.total \in Nat
      /\ Leads(neighbors, down, v.words, n, v.total, d)
  BY DEF Fresh, Filled, IsVector, Vector
<1>4. Leads(neighbors, down, v.words, n, v.total - v.used, d)
  <2>1. v.total - v.used = v.total
    BY <1>3
  <2> QED
    BY <1>3, <2>1
<1> HIDE DEF n, d
<1>5. /\ b \in Nat /\ b <= GetRemainingBits(v)
      /\ Best(neighbors, down, n, d, i) /\ neighbors[n][i] \in Node
      /\ Leads(neighbors, down, v.words, neighbors[n][i], GetRemainingBits(v) - b, d)
  BY <1>1, <1>3, <1>4, ReadOn
<1>6. w.words = v.words /\ w.total - w.used = GetRemainingBits(v) - b
  <2> HIDE DEF b
  <2> QED
    BY <1>3, <1>5, UsedIs
<1>7. Ends(neighbors)
  BY <1>1 DEF TypeOK, IsNetwork, Ends
<1> HIDE DEF i, b, w
<1>8. PICK k \in Nat : Near(neighbors, down, n, d, k + 1) /\ Near(neighbors, down, neighbors[n][i], d, k)
  BY <1>1, <1>5, <1>7, BestFar
<1>9. p.flow = f /\ p.at = neighbors[n][i] /\ p.vector = w /\ p.hops = 1
  OBVIOUS
<1>10. 1 + k = k + 1
  OBVIOUS
<1>11. OnWay(neighbors, down, p)
  <2> HIDE DEF p
  <2>1. Leads(neighbors, down, p.vector.words, p.at, p.vector.total - p.vector.used, p.flow[2])
    BY <1>5, <1>6, <1>9 DEF d
  <2>2. /\ Near(neighbors, down, p.at, p.flow[2], k)
        /\ Near(neighbors, down, p.flow[1], p.flow[2], p.hops + k)
    BY <1>8, <1>9, <1>10 DEF d, n
  <2> QED
    BY <2>1, <2>2 DEF OnWay
<1>12. Leaves(n, i, f, w, 1) = {p}
  BY <1>1, <1>5, LeavesBest
<1> HIDE DEF p
<1> QED
  BY <1>2, <1>5, <1>11, <1>12 DEF p, w, i, b, n, d

\* A packet is sent.
LEMMA OutputInv ==
  ASSUME IInv, NEW f \in unsent, RouteOutput(f)
  PROVE  IInv'
<1> DEFINE n == f[1]
<1> DEFINE d == f[2]
<1> DEFINE cached == NixCache[n][d]
<1> DEFINE vector == IF cached # None THEN cached ELSE GetNixVector(n, d)
<1> DEFINE t == TotalNeighbors(n)
<1> DEFINE b == BitCount(t)
<1> DEFINE device == DeviceFor(n, ExtractNeighborIndex(vector, b))
<1> DEFINE out == Leaves(n, device, f, Used(vector, b), 1)
<1>1. /\ unsent' = unsent \ {f} /\ g_isCacheDirty' = FALSE
      /\ m_nixCache' = [NixCache EXCEPT ![n][d] = vector]
      /\ scenario' = scenario /\ neighbors' = neighbors /\ down' = down /\ changes' = changes
      /\ delivered' = delivered /\ fatal' = fatal
      /\ \/ /\ vector = None
            /\ m_ipv4RouteCache' = RouteCache
            /\ m_totalNeighbors' = m_totalNeighbors /\ packets' = packets
         \/ /\ vector # None
            /\ m_totalNeighbors' = [m_totalNeighbors EXCEPT ![n] = t]
            /\ m_ipv4RouteCache' = [RouteCache EXCEPT ![n][d] = device]
            /\ packets' = packets \cup out
  BY DEF RouteOutput, netVars
<1>2. Typed(scenario, neighbors, down, changes, g_isCacheDirty, m_nixCache,
            m_ipv4RouteCache, m_totalNeighbors, unsent, packets, delivered, fatal)
  BY TypeParts DEF IInv
<1>3. TypeOK /\ scenario \in Scenarios /\ f \in scenario.flows /\ IsNetwork(neighbors)
  BY <1>2 DEF IInv, Typed, Wired
<1>4. n \in Node /\ d \in Node /\ n # d
  BY <1>3, NixAssumption
<1>5. /\ Cached(neighbors, NixCache, RouteCache, m_totalNeighbors)
      /\ LiveCache(neighbors, down, NixCache)
      /\ changes = 0 => BestRoutes(neighbors, down, RouteCache)
  BY CachesNow
<1>6. \/ vector = None /\ \A k \in Nat : d \notin Ball(neighbors, down, n)[k]
      \/ Fresh(neighbors, down, vector, n, d)
  <2>1. CASE cached # None
    BY <1>4, <1>5, <2>1 DEF LiveCache
  <2>2. CASE cached = None
    <3>1. PICK x, y : x = n /\ y = d
      OBVIOUS
    <3>2. x \in Node /\ y \in Node
      BY <1>4, <3>1
    <3>3. \/ /\ GetNixVector(x, y) = None
             /\ \A k \in Nat : y \notin Ball(neighbors, down, x)[k]
          \/ Fresh(neighbors, down, GetNixVector(x, y), x, y)
      BY <1>3, <3>2, GetNixVectorLeads
    <3> QED
      BY <2>2, <3>1, <3>3
  <2> QED
    BY <2>1, <2>2
<1> HIDE DEF vector, n, d
<1>7. /\ Cached(neighbors, m_nixCache', RouteCache, m_totalNeighbors)
      /\ LiveCache(neighbors, down, m_nixCache')
  BY <1>1, <1>4, <1>5, <1>6, NixSet
<1> DEFINE sent == scenario.flows \ unsent
<1> DEFINE more == scenario.flows \ unsent'
<1>8. sent \subseteq more /\ f \in more /\ \A x \in more : x \in sent \/ x = f
  BY <1>1, <1>3
<1>9. Len(neighbors[n]) \in Nat /\ t \in 0 .. Len(neighbors[n]) /\ b \in Nat /\ b >= 1 /\ b <= WordSize
      /\ b <= BitCount(Len(neighbors[n]))
  BY <1>3, <1>4, TotalType
<1> HIDE DEF sent, more, t
\* The types of what a vector that was found leads to.
<1>10. ASSUME vector # None
       PROVE  /\ device \in 0 .. Len(neighbors[n])
              /\ \A p \in out : Flies(neighbors, more, p)
  <2>0. Fresh(neighbors, down, vector, n, d)
    BY <1>6, <1>10
  <2>1. /\ IsVector(vector) /\ vector.used = 0 /\ vector.total \in Nat
        /\ Leads(neighbors, down, vector.words, n, vector.total, d)
    BY <2>0 DEF Fresh, Filled, IsVector, Vector
  <2>2. vector.total - vector.used = vector.total
    BY <2>1
  <2>3. Leads(neighbors, down, vector.words, n, vector.total - vector.used, d)
    BY <2>1, <2>2
  <2>4. BitCount(Len(neighbors[n])) \in Nat /\ BitCount(Len(neighbors[n])) <= GetRemainingBits(vector)
        /\ GetRemainingBits(vector) \in Nat
    BY <1>3, <1>4, <2>1, <2>3, ReadOn
  <2> HIDE DEF b
  <2>5. b <= GetRemainingBits(vector) /\ b <= vector.total - vector.used
    BY <1>9, <2>4 DEF GetRemainingBits
  <2>6. ExtractNeighborIndex(vector, b) \in Nat
    BY <1>9, <2>1, <2>5, ExtractType
  <2>7. device \in 0 .. Len(neighbors[n])
    BY <1>3, <1>4, <2>6, DeviceType
  <2>8. IsVector(Used(vector, b)) /\ Used(vector, b).used = vector.used + b
    BY <1>9, <2>1, <2>5, UsedIs
  <2>9. 1 \in 1 .. Used(vector, b).used /\ 1 \in Nat
    BY <1>9, <2>1, <2>8
  <2> HIDE DEF device
  <2>10. \A p \in Leaves(n, device, f, Used(vector, b), 1) : Flies(neighbors, more, p)
    <3> DEFINE w == Used(vector, b)
    <3>1. IsVector(w) /\ 1 \in 1 .. w.used
      BY <2>8, <2>9
    <3> HIDE DEF w
    <3>2. PICK h : h = 1
      OBVIOUS
    <3>3. \A p \in Leaves(n, device, f, w, h) : Flies(neighbors, more, p)
      BY <1>3, <1>4, <1>8, <2>7, <3>1, <3>2, LeavesFly
    <3> QED
      BY <3>2, <3>3 DEF w
  <2> QED
    BY <2>7, <2>10
<1>11. Cached(neighbors, m_nixCache', m_ipv4RouteCache', m_totalNeighbors')
       /\ Counts(scenario, neighbors, m_totalNeighbors')
       /\ \A p \in packets' : Flies(neighbors, more, p)
  <2>1. \A p \in packets : Flies(neighbors, more, p)
    <3>1. \A p \in packets : Flies(neighbors, sent, p)
      BY <1>2 DEF Typed, sent
    <3> QED
      BY <1>8, <3>1, SentMore
  <2>2. Counts(scenario, neighbors, m_totalNeighbors)
    BY DEF IInv, Counted
  <2>3. CASE vector = None
    BY <1>1, <1>7, <2>1, <2>2, <2>3
  <2>4. CASE vector # None
    <3> HIDE DEF device, out
    <3>1. /\ m_totalNeighbors' = [m_totalNeighbors EXCEPT ![n] = t]
          /\ m_ipv4RouteCache' = [RouteCache EXCEPT ![n][d] = device]
          /\ packets' = packets \cup out
      BY <1>1, <2>4
    <3>2. Cached(neighbors, m_nixCache', m_ipv4RouteCache', m_totalNeighbors)
      BY <1>4, <1>7, <1>9, <1>10, <2>4, <3>1, RouteSet
    <3>3. Cached(neighbors, m_nixCache', m_ipv4RouteCache', m_totalNeighbors')
      BY <1>4, <1>9, <3>1, <3>2, TotalSet
    <3>4. Counts(scenario, neighbors, m_totalNeighbors')
      BY <1>4, <3>1, CountedSet DEF t
    <3> QED
      BY <1>10, <2>1, <2>4, <3>1, <3>3, <3>4
  <2> QED
    BY <2>3, <2>4
<1>12. TypeOK'
  <2>1. unsent' \subseteq scenario.flows /\ delivered \subseteq more \X Nat
    BY <1>1, <1>2, <1>8 DEF Typed, sent
  <2>2. g_isCacheDirty' \in BOOLEAN
    BY <1>1
  <2>3. Typed(scenario', neighbors', down', changes', g_isCacheDirty', m_nixCache',
              m_ipv4RouteCache', m_totalNeighbors', unsent', packets', delivered', fatal')
    BY <1>1, <1>2, <1>11, <2>1, <2>2 DEF Typed, more
  <2> QED
    BY <2>3, TypePartsNext
<1>13. Live'
  BY <1>1, <1>7 DEF Live
<1>14. Counted'
  BY <1>1, <1>11 DEF Counted
<1>15. Original'
  BY <1>1 DEF IInv, Original
<1>16. Steady'
  <2> SUFFICES ASSUME changes = 0
               PROVE  Calm(neighbors, down, m_ipv4RouteCache', FALSE, more, packets', delivered, fatal)
    BY <1>1 DEF Steady, more
  <2>1. Calm(neighbors, down, m_ipv4RouteCache, g_isCacheDirty, sent, packets, delivered, fatal)
    BY DEF IInv, Steady, sent
  <2>2. BestRoutes(neighbors, down, RouteCache)
    BY <1>5
  <2>3. CASE vector = None
    <3>1. None \notin Vector
      BY NixAssumption
    <3>2. \A k \in Nat : d \notin Ball(neighbors, down, n)[k]
      BY <1>6, <2>3, <3>1 DEF Fresh
    <3>3. Accounted(neighbors, down, f, packets, delivered)
      BY <3>2 DEF Accounted, n, d
    <3>4. m_ipv4RouteCache' = RouteCache /\ packets' = packets
      BY <1>1, <2>3
    <3> QED
      BY <1>8, <2>1, <2>2, <3>3, <3>4 DEF Calm
  <2>4. CASE vector # None
    <3>1. /\ m_ipv4RouteCache' = [RouteCache EXCEPT ![n][d] = device]
          /\ packets' = packets \cup out
      BY <1>1, <2>4
    <3>2. Fresh(neighbors, down, vector, f[1], f[2])
      BY <1>6, <2>4 DEF n, d
    <3> DEFINE p == [flow |-> f, at |-> neighbors[n][device], from |-> n,
                     vector |-> Used(vector, b), hops |-> 1]
    <3>3. Best(neighbors, down, n, d, device) /\ out = {p} /\ OnWay(neighbors, down, p)
      <4>1. f[1] \in Node /\ f[2] \in Node /\ f[1] # f[2]
        BY <1>4 DEF n, d
      <4> QED
        BY <3>2, <4>1, FirstHop DEF n, d, t
    <3>4. p.flow = f
      OBVIOUS
    <3> HIDE DEF device, out, p
    <3>5. packets' = packets \cup {p}
      BY <3>1, <3>3
    <3>6. BestRoutes(neighbors, down, m_ipv4RouteCache')
      <4>1. \A x, y \in Node : m_ipv4RouteCache'[x][y] = IF x = n /\ y = d THEN device ELSE RouteCache[x][y]
        <5>1. RouteCache \in [Node -> [Node -> Nat \cup {None}]]
          BY <1>5 DEF Cached
        <5> QED
          BY <1>4, <3>1, <5>1
      <4> QED
        BY <2>2, <3>3, <4>1 DEF BestRoutes
    <3>7. \A x \in more : Accounted(neighbors, down, x, packets', delivered)
      BY <1>8, <2>1, <3>4, <3>5 DEF Calm, Accounted
    <3>8. \A x \in packets' : OnWay(neighbors, down, x)
      BY <2>1, <3>3, <3>5 DEF Calm
    <3> QED
      BY <2>1, <3>6, <3>7, <3>8 DEF Calm
  <2> QED
    BY <2>3, <2>4
<1> QED
  BY <1>12, <1>13, <1>14, <1>15, <1>16 DEF IInv

\* A packet that is taken in is on record.
LEMMA DeliverInv ==
  ASSUME IInv, NEW p \in packets, LocalDeliver(p)
  PROVE  IInv'
<1>1. /\ packets' = packets \ {p} /\ delivered' = delivered \cup {<<p.flow, p.hops>>}
      /\ g_isCacheDirty' = FALSE /\ m_nixCache' = NixCache /\ m_ipv4RouteCache' = RouteCache
      /\ scenario' = scenario /\ neighbors' = neighbors /\ down' = down /\ changes' = changes
      /\ m_totalNeighbors' = m_totalNeighbors /\ unsent' = unsent /\ fatal' = fatal
      /\ p.at = p.flow[2]
  BY DEF LocalDeliver, netVars
<1>2. Typed(scenario, neighbors, down, changes, g_isCacheDirty, m_nixCache,
            m_ipv4RouteCache, m_totalNeighbors, unsent, packets, delivered, fatal)
  BY TypeParts DEF IInv
<1>3. /\ p.flow \in scenario.flows \ unsent /\ p.hops \in Nat
      /\ p.flow[1] \in Node /\ p.flow[2] \in Node
  BY PacketFacts DEF IInv
<1>4. /\ Cached(neighbors, NixCache, RouteCache, m_totalNeighbors)
      /\ LiveCache(neighbors, down, NixCache)
      /\ changes = 0 => BestRoutes(neighbors, down, RouteCache)
  BY CachesNow
<1>5. TypeOK'
  <2>1. delivered' \subseteq (scenario.flows \ unsent) \X Nat
    BY <1>1, <1>2, <1>3 DEF Typed
  <2>2. g_isCacheDirty' \in BOOLEAN /\ \A x \in packets' : x \in packets
    BY <1>1
  <2>3. Typed(scenario', neighbors', down', changes', g_isCacheDirty', m_nixCache',
              m_ipv4RouteCache', m_totalNeighbors', unsent', packets', delivered', fatal')
    BY <1>1, <1>2, <1>4, <2>1, <2>2 DEF Typed
  <2> QED
    BY <2>3, TypePartsNext
<1>6. Live' /\ Counted' /\ Original'
  BY <1>1, <1>4 DEF IInv, Live, Counted, Original
<1>7. Steady'
  <2> DEFINE sent == scenario.flows \ unsent
  <2> SUFFICES ASSUME changes = 0
               PROVE  Calm(neighbors, down, RouteCache, FALSE, sent, packets', delivered', fatal)
    BY <1>1 DEF Steady
  <2>1. Calm(neighbors, down, m_ipv4RouteCache, g_isCacheDirty, sent, packets, delivered, fatal)
    BY DEF IInv, Steady
  <2> HIDE DEF sent
  <2>2. PICK x : x = <<p.flow, p.hops>>
    OBVIOUS
  <2>3. x[1] = p.flow /\ x[2] = p.hops /\ delivered' = delivered \cup {x}
    BY <1>1, <2>2
  <2>4. Near(neighbors, down, p.flow[1], p.flow[2], p.hops)
    <3>1. PICK k \in Nat : /\ Near(neighbors, down, p.at, p.flow[2], k)
                           /\ Near(neighbors, down, p.flow[1], p.flow[2], p.hops + k)
      BY <2>1 DEF Calm, OnWay
    <3>2. Near(neighbors, down, p.flow[2], p.flow[2], k)
      BY <1>1, <3>1
    <3>3. k = 0
      BY <1>3, <3>2, NearHere
    <3>4. p.hops + k = p.hops
      BY <1>3, <3>3
    <3> QED
      BY <3>1, <3>4
  <2>5. \A y \in delivered' : Near(neighbors, down, y[1][1], y[1][2], y[2])
    BY <2>1, <2>3, <2>4 DEF Calm
  <2>6. \A f \in sent : Accounted(neighbors, down, f, packets', delivered')
    BY <1>1, <2>1, <2>3 DEF Calm, Accounted
  <2>7. \A y \in packets' : OnWay(neighbors, down, y)
    BY <1>1, <2>1 DEF Calm
  <2> QED
    BY <1>4, <2>1, <2>5, <2>6, <2>7 DEF Calm
<1> QED
  BY <1>5, <1>6, <1>7 DEF IInv

\* Nothing is refused before the first change.
LEMMA RefuseInv ==
  ASSUME IInv, NEW p \in packets, Refuse(p)
  PROVE  IInv'
<1>1. /\ packets' = packets \ {p} /\ delivered' = delivered
      /\ g_isCacheDirty' = g_isCacheDirty /\ m_nixCache' = m_nixCache
      /\ m_ipv4RouteCache' = m_ipv4RouteCache
      /\ scenario' = scenario /\ neighbors' = neighbors /\ down' = down /\ changes' = changes
      /\ m_totalNeighbors' = m_totalNeighbors /\ unsent' = unsent /\ fatal' = fatal
      /\ down # {}
  BY DEF Refuse, netVars, cacheVars
<1>2. Typed(scenario, neighbors, down, changes, g_isCacheDirty, m_nixCache,
            m_ipv4RouteCache, m_totalNeighbors, unsent, packets, delivered, fatal)
  BY TypeParts DEF IInv
<1>3. TypeOK'
  <2>1. \A x \in packets' : x \in packets
    BY <1>1
  <2>2. Typed(scenario', neighbors', down', changes', g_isCacheDirty', m_nixCache',
              m_ipv4RouteCache', m_totalNeighbors', unsent', packets', delivered', fatal')
    BY <1>1, <1>2, <2>1 DEF Typed
  <2> QED
    BY <2>2, TypePartsNext
<1>4. Live' /\ Counted' /\ Original'
  BY <1>1 DEF IInv, Live, Counted, Original
<1>5. Steady'
  BY <1>1 DEF IInv, Steady, Calm
<1> QED
  BY <1>3, <1>4, <1>5 DEF IInv

\* A hop in transit, before the first change.
LEMMA NextHop ==
  ASSUME IInv, changes = 0, NEW p \in packets, p.at # p.flow[2]
  PROVE  LET b == BitCount(TotalNeighbors(p.at))
             i == IF RouteCache[p.at][p.flow[2]] # None THEN RouteCache[p.at][p.flow[2]]
                  ELSE DeviceFor(p.at, ExtractNeighborIndex(p.vector, b))
             q == [flow |-> p.flow, at |-> neighbors[p.at][i], from |-> p.at,
                   vector |-> Used(p.vector, b), hops |-> p.hops + 1]
         IN  /\ b <= GetRemainingBits(p.vector) /\ GetRemainingBits(p.vector) \in Nat /\ b \in Nat
             /\ Best(neighbors, down, p.at, p.flow[2], i)
             /\ Leaves(p.at, i, p.flow, Used(p.vector, b), p.hops + 1) = {q}
             /\ OnWay(neighbors, down, q)
<1> DEFINE n == p.at
<1> DEFINE d == p.flow[2]
<1> DEFINE v == p.vector
<1> DEFINE b == BitCount(Len(neighbors[n]))
<1> DEFINE read == DeviceFor(n, ExtractNeighborIndex(v, b))
<1> DEFINE i == IF RouteCache[n][d] # None THEN RouteCache[n][d] ELSE read
<1> DEFINE w == Used(v, b)
<1> DEFINE q == [flow |-> p.flow, at |-> neighbors[n][i], from |-> n, vector |-> w,
                 hops |-> p.hops + 1]
<1>1. TypeOK /\ Counted /\ neighbors = scenario.neighbors /\ OnWay(neighbors, down, p)
  BY DEF IInv, Original, Steady, Calm
<1>2. n \in Node /\ d \in Node /\ IsVector(v) /\ p.hops \in Nat
  BY <1>1, PacketFacts
<1>3. TotalNeighbors(n) = Len(neighbors[n])
  BY <1>1, <1>2, TotalIs
<1>4. Leads(neighbors, down, v.words, n, v.total - v.used, d) /\ n # d
  BY <1>1 DEF OnWay
<1>5. PICK k \in Nat : /\ Near(neighbors, down, n, d, k)
                       /\ Near(neighbors, down, p.flow[1], d, p.hops + k)
  BY <1>1 DEF OnWay
<1>6. RouteCache[n][d] = None \/ Best(neighbors, down, n, d, RouteCache[n][d])
  BY <1>2, RouteBest
<1> HIDE DEF n, d, v
<1>7. /\ b \in Nat /\ b <= GetRemainingBits(v) /\ GetRemainingBits(v) \in Nat
      /\ Best(neighbors, down, n, d, read) /\ neighbors[n][read] \in Node
      /\ Leads(neighbors, down, v.words, neighbors[n][read], GetRemainingBits(v) - b, d)
  BY <1>1, <1>2, <1>4, ReadOn
<1>8. Ends(neighbors)
  BY <1>1 DEF TypeOK, IsNetwork, Ends
<1> HIDE DEF read
<1>9. i = read
  <2>1. PICK j : j = RouteCache[n][d]
    OBVIOUS
  <2>2. j = None \/ j = read
    BY <1>2, <1>6, <1>7, <1>8, <2>1, BestUnique
  <2> QED
    BY <2>1, <2>2
<1>10. w.words = v.words /\ w.total - w.used = GetRemainingBits(v) - b
  <2> HIDE DEF b
  <2> QED
    BY <1>2, <1>7, UsedIs
<1> HIDE DEF i, b, w
<1>11. k - 1 \in Nat /\ Near(neighbors, down, neighbors[n][i], d, k - 1)
  BY <1>2, <1>5, <1>7, <1>8, <1>9, BestNearer
<1>12. (p.hops + 1) + (k - 1) = p.hops + k
  BY <1>2, <1>11
<1>13. q.flow = p.flow /\ q.at = neighbors[n][i] /\ q.vector = w /\ q.hops = p.hops + 1
  OBVIOUS
<1>14. OnWay(neighbors, down, q)
  <2> HIDE DEF q
  <2>1. Leads(neighbors, down, q.vector.words, q.at, q.vector.total - q.vector.used, q.flow[2])
    BY <1>7, <1>9, <1>10, <1>13 DEF d
  <2>2. PICK j : j = k - 1
    OBVIOUS
  <2>3. /\ j \in Nat /\ Near(neighbors, down, q.at, q.flow[2], j)
        /\ Near(neighbors, down, q.flow[1], q.flow[2], q.hops + j)
    BY <1>5, <1>11, <1>12, <1>13, <2>2 DEF d
  <2> QED
    BY <2>1, <2>3 DEF OnWay
<1>15. Best(neighbors, down, n, d, i)
  BY <1>7, <1>9
<1>16. Leaves(n, i, p.flow, w, p.hops + 1) = {q}
  BY <1>1, <1>2, <1>15, LeavesBest
<1> HIDE DEF q
<1> QED
  BY <1>3, <1>7, <1>14, <1>15, <1>16 DEF q, w, i, read, b, n, d, v

\* A packet is forwarded, or the simulation ends.
LEMMA InputInv ==
  ASSUME IInv, NEW p \in packets, RouteInput(p)
  PROVE  IInv'
<1> DEFINE n == p.at
<1> DEFINE d == p.flow[2]
<1> DEFINE v == p.vector
<1> DEFINE t == TotalNeighbors(n)
<1> DEFINE b == BitCount(t)
<1> DEFINE cached == RouteCache[n][d]
<1> DEFINE device == IF cached # None THEN cached ELSE DeviceFor(n, ExtractNeighborIndex(v, b))
<1> DEFINE out == Leaves(n, device, p.flow, Used(v, b), p.hops + 1)
<1>1. /\ n # d /\ g_isCacheDirty' = FALSE /\ m_nixCache' = NixCache
      /\ m_totalNeighbors' = [m_totalNeighbors EXCEPT ![n] = t]
      /\ scenario' = scenario /\ neighbors' = neighbors /\ down' = down /\ changes' = changes
      /\ delivered' = delivered /\ unsent' = unsent
      /\ \/ /\ b <= GetRemainingBits(v)
            /\ m_ipv4RouteCache' = [RouteCache EXCEPT ![n][d] = device]
            /\ packets' = (packets \ {p}) \cup out
            /\ fatal' = fatal
         \/ /\ b > GetRemainingBits(v)
            /\ fatal' = TRUE /\ m_ipv4RouteCache' = RouteCache /\ packets' = packets
  BY DEF RouteInput, netVars
<1>2. Typed(scenario, neighbors, down, changes, g_isCacheDirty, m_nixCache,
            m_ipv4RouteCache, m_totalNeighbors, unsent, packets, delivered, fatal)
  BY TypeParts DEF IInv
<1>3. TypeOK
  BY DEF IInv
<1> DEFINE sent == scenario.flows \ unsent
<1>4. /\ n \in Node /\ d \in Node /\ IsVector(v) /\ p.flow \in sent
      /\ p.hops \in Nat /\ p.hops \in 1 .. v.used
  BY <1>3, PacketFacts
<1>5. /\ Cached(neighbors, NixCache, RouteCache, m_totalNeighbors)
      /\ LiveCache(neighbors, down, NixCache)
      /\ changes = 0 => BestRoutes(neighbors, down, RouteCache)
  BY CachesNow
<1>6. /\ Len(neighbors[n]) \in Nat /\ t \in 0 .. Len(neighbors[n])
      /\ b \in Nat /\ b >= 1 /\ b <= WordSize
  BY <1>3, <1>4, TotalType
<1>7. v.used \in Nat /\ v.total \in Nat /\ GetRemainingBits(v) = v.total - v.used
  BY <1>4 DEF IsVector, Vector, GetRemainingBits
<1> HIDE DEF n, d, v, t, b, cached, sent
\* The types of what is sent on.
<1>8. ASSUME b <= GetRemainingBits(v)
      PROVE  /\ device \in 0 .. Len(neighbors[n])
             /\ \A x \in out : Flies(neighbors, sent, x)
  <2>1. ExtractNeighborIndex(v, b) \in Nat
    BY <1>4, <1>6, <1>7, <1>8, ExtractType
  <2>2. DeviceFor(n, ExtractNeighborIndex(v, b)) \in 0 .. Len(neighbors[n])
    BY <1>3, <1>4, <2>1, DeviceType
  <2>3. device \in 0 .. Len(neighbors[n])
    BY <1>4, <1>5, <2>2 DEF Cached, cached
  <2> DEFINE w == Used(v, b)
  <2> DEFINE h == p.hops + 1
  <2>4. IsVector(w) /\ w.used = v.used + b
    BY <1>4, <1>6, <1>8, UsedIs
  <2> HIDE DEF device, w
  <2>5. h \in Nat /\ h \in 1 .. w.used
    BY <1>4, <1>6, <1>7, <2>4
  <2> HIDE DEF h
  <2>6. PICK f : f = p.flow
    OBVIOUS
  <2>7. \A x \in Leaves(n, device, f, w, h) : Flies(neighbors, sent, x)
    BY <1>3, <1>4, <2>3, <2>4, <2>5, <2>6, LeavesFly
  <2> QED
    BY <2>3, <2>6, <2>7 DEF w, h
<1>9. Cached(neighbors, NixCache, RouteCache, m_totalNeighbors')
  BY <1>1, <1>4, <1>5, <1>6, TotalSet
<1>10. Cached(neighbors, NixCache, m_ipv4RouteCache', m_totalNeighbors')
       /\ \A x \in packets' : Flies(neighbors, sent, x)
  <2>1. \A x \in packets : Flies(neighbors, sent, x)
    BY <1>2 DEF Typed, sent
  <2>2. CASE b > GetRemainingBits(v)
    <3>1. m_ipv4RouteCache' = RouteCache /\ packets' = packets
      BY <1>1, <1>6, <1>7, <2>2
    <3> QED
      BY <1>9, <2>1, <3>1
  <2>3. CASE b <= GetRemainingBits(v)
    <3> HIDE DEF device, out
    <3>1. /\ m_ipv4RouteCache' = [RouteCache EXCEPT ![n][d] = device]
          /\ packets' = (packets \ {p}) \cup out
      BY <1>1, <1>6, <1>7, <2>3
    <3>2. Cached(neighbors, NixCache, m_ipv4RouteCache', m_totalNeighbors')
      BY <1>4, <1>6, <1>8, <1>9, <2>3, <3>1, RouteSet
    <3> QED
      BY <1>8, <2>1, <2>3, <3>1, <3>2
  <2> QED
    BY <1>6, <1>7, <2>2, <2>3
<1>11. TypeOK'
  <2>1. fatal' \in BOOLEAN /\ g_isCacheDirty' \in BOOLEAN
    BY <1>1, <1>2 DEF Typed
  <2>2. Typed(scenario', neighbors', down', changes', g_isCacheDirty', m_nixCache',
              m_ipv4RouteCache', m_totalNeighbors', unsent', packets', delivered', fatal')
    BY <1>1, <1>2, <1>10, <2>1 DEF Typed, sent
  <2> QED
    BY <2>2, TypePartsNext
<1>12. Counted'
  <2>1. Counts(scenario, neighbors, m_totalNeighbors')
    BY <1>1, <1>4, CountedSet DEF t
  <2> QED
    BY <1>1, <2>1 DEF Counted
<1>13. Live' /\ Original'
  BY <1>1, <1>5 DEF IInv, Live, Original
<1>14. Steady'
  <2> SUFFICES ASSUME changes = 0
               PROVE  Calm(neighbors, down, m_ipv4RouteCache', FALSE, sent, packets', delivered, fatal')
    BY <1>1 DEF Steady, sent
  <2>1. Calm(neighbors, down, m_ipv4RouteCache, g_isCacheDirty, sent, packets, delivered, fatal)
    BY DEF IInv, Steady, sent
  <2>2. BestRoutes(neighbors, down, RouteCache)
    BY <1>5
  <2> DEFINE q == [flow |-> p.flow, at |-> neighbors[n][device], from |-> n,
                   vector |-> Used(v, b), hops |-> p.hops + 1]
  <2>3. /\ b <= GetRemainingBits(v) /\ Best(neighbors, down, n, d, device)
        /\ out = {q} /\ OnWay(neighbors, down, q)
    <3>1. p.at # p.flow[2]
      BY <1>1 DEF n, d
    <3> QED
      BY <3>1, NextHop DEF n, d, v, t, b, cached
  <2>4. q.flow = p.flow
    OBVIOUS
  <2> HIDE DEF device, out, q
  <2>5. /\ m_ipv4RouteCache' = [RouteCache EXCEPT ![n][d] = device]
        /\ packets' = (packets \ {p}) \cup {q} /\ fatal' = fatal
    BY <1>1, <1>6, <1>7, <2>3
  <2>6. BestRoutes(neighbors, down, m_ipv4RouteCache')
    <3>1. RouteCache \in [Node -> [Node -> Nat \cup {None}]]
      BY <1>5 DEF Cached
    <3>2. \A x, y \in Node : m_ipv4RouteCache'[x][y] = IF x = n /\ y = d THEN device ELSE RouteCache[x][y]
      BY <1>4, <2>5, <3>1
    <3> QED
      BY <2>2, <2>3, <3>2 DEF BestRoutes
  <2>7. \A f \in sent : Accounted(neighbors, down, f, packets', delivered)
    BY <2>1, <2>4, <2>5 DEF Calm, Accounted
  <2>8. \A x \in packets' : OnWay(neighbors, down, x)
    BY <2>1, <2>3, <2>5 DEF Calm
  <2> QED
    BY <2>1, <2>5, <2>6, <2>7, <2>8 DEF Calm
<1> QED
  BY <1>11, <1>12, <1>13, <1>14 DEF IInv

\* Every step keeps the invariant.
LEMMA NextInv == IInv /\ [Next]_vars => IInv'
<1> SUFFICES ASSUME IInv, [Next]_vars PROVE IInv'
  OBVIOUS
<1>1. ASSUME NEW f \in unsent, RouteOutput(f) PROVE IInv'
  BY <1>1, OutputInv
<1>2. ASSUME NEW p \in packets, RouteInput(p) PROVE IInv'
  BY <1>2, InputInv
<1>3. ASSUME NEW p \in packets, LocalDeliver(p) PROVE IInv'
  BY <1>3, DeliverInv
<1>4. ASSUME NEW p \in packets, Refuse(p) PROVE IInv'
  BY <1>4, RefuseInv
<1>5. ASSUME NEW n \in Node, NEW i \in DOMAIN neighbors[n], NotifyInterfaceDown(n, i) PROVE IInv'
  BY <1>5, DownInv
<1>6. ASSUME NEW n \in Node, NEW i \in DOMAIN neighbors[n], NotifyInterfaceUp(n, i) PROVE IInv'
  BY <1>6, UpInv
<1>7. ASSUME NEW l \in NewLinks, NotifyAddAddress(l[1], l[2]) PROVE IInv'
  BY <1>7, AddInv
<1>8. ASSUME UNCHANGED vars PROVE IInv'
  <2>1. /\ scenario' = scenario /\ neighbors' = neighbors /\ down' = down /\ changes' = changes
        /\ g_isCacheDirty' = g_isCacheDirty /\ m_nixCache' = m_nixCache
        /\ m_ipv4RouteCache' = m_ipv4RouteCache /\ m_totalNeighbors' = m_totalNeighbors
        /\ unsent' = unsent /\ packets' = packets /\ delivered' = delivered /\ fatal' = fatal
    BY <1>8 DEF vars, netVars, cacheVars
  <2>2. TypeOK'
    <3>1. Typed(scenario, neighbors, down, changes, g_isCacheDirty, m_nixCache,
                m_ipv4RouteCache, m_totalNeighbors, unsent, packets, delivered, fatal)
      BY TypeParts DEF IInv
    <3> QED
      BY <2>1, <3>1, TypePartsNext
  <2> QED
    BY <2>1, <2>2 DEF IInv, Live, Counted, Original, Steady
<1> QED
  BY <1>1, <1>2, <1>3, <1>4, <1>5, <1>6, <1>7, <1>8 DEF Next, Send, Receive

\* The inductive invariant holds: the caches, the counts of neighbours and the
\* packets agree with the network as it is.
THEOREM NixInvariant == Spec => []IInv
BY InitInv, NextInv, PTL DEF Spec

\* The types of all variables; every vector is as long as its words say and is
\* never read beyond its end, and a packet has made at most as many hops as bits
\* were read from its vector.
THEOREM NixTypes == Spec => []TypeOK
<1>1. IInv => TypeOK
  BY DEF IInv
<1> QED
  BY <1>1, NixInvariant, PTL

\* Until the network changes, a route that RouteInput finds in the cache is the
\* one the packet's own vector asks for, and the index is there to be read.
THEOREM VectorsFollowed == Spec => []FollowsVector
BY InvFollows, NixInvariant, PTL

\* Until the network changes, a packet arrives after as many hops as its
\* destination is away: BFS, BuildNixVector and RouteInput find a shortest way.
THEOREM ShortestWays == Spec => []DeliveredByShortestWay
BY InvShortest, NixInvariant, PTL

\* Until the network changes, no packet for a node that can be reached gets lost
\* and the simulation does not end with a fatal error.
THEOREM NoPacketLost == Spec => []NothingLost
BY InvNothingLost, NixInvariant, PTL

\* Unless a flush is due, every cached nix-vector leads to its destination over
\* open interfaces, read by every node with the width it has remembered: whatever
\* interfaces went down and up, and whatever links were added, as long as these
\* leave the remembered widths those of the vectors.
THEOREM CachesLive == Spec => []CachedVectorsLive
BY InvLive, NixInvariant, PTL
=============================================================================
