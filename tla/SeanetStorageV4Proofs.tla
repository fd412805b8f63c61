------------------------ MODULE SeanetStorageV4Proofs ------------------------
(***************************************************************************)
(* Proofs about SeanetStorageV4: the resolution server cuts a list of any   *)
(* length into replies of any size without loss, and the clients' events     *)
(* and the shared list keep their types.                                    *)
(*                                                                          *)
(* RequestHandle's loop is a recursive function of the number of addresses   *)
(* it has gone through.  That there is such a function, and what it holds    *)
(* after every turn, is shown by induction: a set of numbers that holds 0    *)
(* and the successors of its members holds all (Inductive).                 *)
(***************************************************************************)
EXTENDS SeanetStorageV4, WellFoundedInduction, TLAPS

-----------------------------------------------------------------------------
(* Induction and division.                                                   *)

Less == {ss \in Nat \X Nat : ss[1] < ss[2]}

LEMMA Inductive ==
  ASSUME NEW S, 0 \in S, \A n \in Nat : n \in S => n + 1 \in S
  PROVE  Nat \subseteq S
<1> DEFINE T == Nat \ S
<1> SUFFICES ASSUME T # {} PROVE FALSE
  OBVIOUS
<1>1. IsWellFoundedOn(Less, Nat)
  BY NatLessThanWellFounded DEF OpToRel, Less
<1>2. T \subseteq Nat
  OBVIOUS
<1>3. PICK x \in T : \A y \in T : ~ (<<y, x>> \in Less)
  <2> HIDE DEF T
  <2> QED
    BY <1>1, <1>2, WFMin
<1>4. x \in Nat /\ x # 0 /\ x \notin S
  OBVIOUS
<1>5. x - 1 \in Nat /\ x - 1 < x /\ (x - 1) + 1 = x
  BY <1>4
<1>6. <<x - 1, x>> \in Less
  BY <1>4, <1>5 DEF Less
<1>7. x - 1 \in S
  BY <1>3, <1>5, <1>6
<1> QED
  BY <1>4, <1>5, <1>7

LEMMA Remainder ==
  ASSUME NEW b \in Nat \ {0}, NEW q \in Nat, NEW r \in Nat, r < b
  PROVE  (b * q + r) % b = r
<1> DEFINE n == b * q + r
<1> DEFINE p == n \div b
<1> DEFINE s == n % b
<1>1. n \in Nat
  OBVIOUS
<1>2. p \in Nat /\ s \in Nat /\ s < b /\ n = b * p + s
  BY <1>1
<1>3. n = b * q + r
  OBVIOUS
<1> HIDE DEF p, s, n
<1>4. CASE p < q
  <2>1. b * (p + 1) <= b * q
    BY <1>2, <1>4
  <2> QED
    BY <1>2, <1>3, <2>1
<1>5. CASE q < p
  <2>1. b * (q + 1) <= b * p
    BY <1>2, <1>5
  <2> QED
    BY <1>2, <1>3, <2>1
<1>6. CASE q = p
  <2>1. s = r
    BY <1>2, <1>3, <1>6
  <2> QED
    BY <2>1 DEF n, s
<1> QED
  BY <1>2, <1>4, <1>5, <1>6

-----------------------------------------------------------------------------
(* RequestHandle's loop.                                                     *)

Start == [res |-> <<>>, sent |-> <<>>]

\* f is what the loop holds after each of the first n turns.
Runs(list, n, f) ==
  f = [i \in 0 .. n |-> IF i = 0 THEN Start ELSE Turn(list, f[i - 1], i)]

LEMMA RunExists ==
  ASSUME NEW list, NEW n \in Nat
  PROVE  \E f : Runs(list, n, f)
<1> DEFINE S == {m \in Nat : \E f : Runs(list, m, f)}
<1>1. 0 \in S
  <2> DEFINE f == [i \in 0 .. 0 |-> Start]
  <2>1. \A i \in 0 .. 0 : i = 0
    OBVIOUS
  <2>2. Runs(list, 0, f)
    BY <2>1 DEF Runs
  <2> QED
    BY <2>2
<1>2. ASSUME NEW m \in Nat, m \in S PROVE m + 1 \in S
  <2>1. PICK f : Runs(list, m, f)
    BY <1>2
  <2> DEFINE g == [i \in 0 .. m + 1 |-> IF i <= m THEN f[i] ELSE Turn(list, f[m], m + 1)]
  <2>2. \A i \in 0 .. m : f[i] = IF i = 0 THEN Start ELSE Turn(list, f[i - 1], i)
    BY <2>1 DEF Runs
  <2>3. ASSUME NEW i \in 0 .. m + 1
        PROVE  g[i] = IF i = 0 THEN Start ELSE Turn(list, g[i - 1], i)
    <3>1. CASE i = 0
      BY <2>2, <3>1
    <3>2. CASE i # 0 /\ i <= m
      <4>1. i \in 0 .. m /\ i - 1 \in 0 .. m + 1 /\ i - 1 <= m
        BY <3>2
      <4>2. g[i] = f[i] /\ g[i - 1] = f[i - 1]
        BY <3>2, <4>1
      <4> HIDE DEF g
      <4> QED
        BY <2>2, <3>2, <4>1, <4>2
    <3>3. CASE i = m + 1
      <4>1. ~ (i <= m) /\ i - 1 = m /\ m \in 0 .. m + 1 /\ m <= m /\ i # 0
        BY <3>3
      <4>2. g[i] = Turn(list, f[m], m + 1) /\ g[m] = f[m]
        BY <3>3, <4>1
      <4> HIDE DEF g
      <4> QED
        BY <3>3, <4>1, <4>2
    <3> QED
      BY <3>1, <3>2, <3>3
  <2>4. g = [i \in 0 .. m + 1 |-> g[i]]
    OBVIOUS
  <2> HIDE DEF g
  <2>5. Runs(list, m + 1, g)
    BY <2>3, <2>4 DEF Runs
  <2> QED
    BY <2>5
<1> HIDE DEF S
<1>3. n \in S
  BY <1>1, <1>2, Inductive
<1> QED
  BY <1>3 DEF S

LEMMA LoopRuns ==
  ASSUME NEW list \in Seq(Registrant)
  PROVE  \E f : Runs(list, Len(list), f) /\ Loop(list) = f[Len(list)]
<1>1. Len(list) \in Nat
  OBVIOUS
<1>2. \E f : f = [i \in 0 .. Len(list) |->
                    IF i = 0 THEN [res |-> <<>>, sent |-> <<>>] ELSE Turn(list, f[i - 1], i)]
  BY <1>1, RunExists DEF Runs, Start
<1> QED
  BY <1>2 DEF Loop, Runs, Start

Sent == [flag : {"PACKET_FINISH", "PACKET_NOT_FINISH"}, num : Nat, addresses : Seq(Registrant)]

\* A full reply that begins after the first o addresses of the list.
Full(list, m, o) ==
  /\ m.num = Chunk
  /\ Len(m.addresses) = Chunk
  /\ \A k \in 1 .. Chunk : m.addresses[k] = list[o + k]
  /\ (m.flag = "PACKET_FINISH") <=> (o + Chunk = Len(list))

\* After i turns: the full replies were sent one after the other, and res holds
\* the addresses since.
LoopOK(list, s, i) ==
  /\ s.res \in Seq(Registrant) /\ s.sent \in Seq(Sent)
  /\ i = Chunk * Len(s.sent) + Len(s.res) /\ Len(s.res) < Chunk
  /\ \A k \in 1 .. Len(s.res) : s.res[k] = list[Chunk * Len(s.sent) + k]
  /\ \A j \in 1 .. Len(s.sent) : Full(list, s.sent[j], Chunk * (j - 1))

LEMMA Appended ==
  ASSUME NEW S, NEW q \in Seq(S), NEW x \in S
  PROVE  /\ Append(q, x) \in Seq(S) /\ Len(q) \in Nat /\ Len(Append(q, x)) = Len(q) + 1
         /\ \A k \in 1 .. Len(q) : Append(q, x)[k] = q[k]
         /\ Append(q, x)[Len(q) + 1] = x
  OBVIOUS

LEMMA TurnOK ==
  ASSUME NEW list \in Seq(Registrant), NEW i \in 1 .. Len(list), NEW s,
         LoopOK(list, s, i - 1)
  PROVE  LoopOK(list, Turn(list, s, i), i)
<1> DEFINE n == Len(s.sent)
<1> DEFINE m == Len(s.res)
<1> DEFINE res == Append(s.res, list[i])
<1> DEFINE new == Turn(list, s, i)
<1> DEFINE flag == IF i = Len(list) THEN "PACKET_FINISH" ELSE "PACKET_NOT_FINISH"
<1>0. Chunk \in Nat \ {0} /\ Len(list) \in Nat /\ i \in Nat /\ list[i] \in Registrant
  BY StorageV4Assumption
<1>1. /\ s.res \in Seq(Registrant) /\ s.sent \in Seq(Sent)
      /\ n \in Nat /\ m \in Nat
      /\ i - 1 = Chunk * n + m /\ m < Chunk
      /\ \A k \in 1 .. m : s.res[k] = list[Chunk * n + k]
      /\ \A j \in 1 .. n : Full(list, s.sent[j], Chunk * (j - 1))
  BY DEF LoopOK
<1>2. /\ res \in Seq(Registrant) /\ Len(res) = m + 1
      /\ \A k \in 1 .. m : res[k] = s.res[k]
      /\ res[m + 1] = list[i]
  <2>1. s.res \in Seq(Registrant) /\ list[i] \in Registrant
    BY <1>0, <1>1
  <2> HIDE DEF n
  <2> QED
    BY <2>1, Appended
<1>3. new = IF i % Chunk # 0 THEN [res |-> res, sent |-> s.sent]
            ELSE [res |-> <<>>, sent |-> Append(s.sent, Reply(flag, res))]
  BY DEF Turn
<1>n. n = Len(s.sent) /\ m = Len(s.res)
  OBVIOUS
<1>f. /\ flag \in {"PACKET_FINISH", "PACKET_NOT_FINISH"}
      /\ (flag = "PACKET_FINISH") <=> (i = Len(list))
  OBVIOUS
<1> HIDE DEF n, m, res, new, flag
<1>4. i = Chunk * n + (m + 1) /\ Chunk * n \in Nat
  BY <1>0, <1>1
<1>5. \A k \in 1 .. m + 1 : res[k] = list[Chunk * n + k]
  <2>1. ASSUME NEW k \in 1 .. m + 1 PROVE res[k] = list[Chunk * n + k]
    <3>1. CASE k \in 1 .. m
      BY <1>1, <1>2, <3>1
    <3>2. CASE k = m + 1
      BY <1>2, <1>4, <3>2
    <3> QED
      BY <1>1, <3>1, <3>2
  <2> QED
    BY <2>1
<1>6. CASE m + 1 < Chunk
  <2>0. m + 1 \in Nat
    BY <1>1
  <2>1. i % Chunk = m + 1
    BY <1>0, <1>1, <1>4, <1>6, <2>0, Remainder
  <2>2. new = [res |-> res, sent |-> s.sent]
    BY <1>1, <1>3, <2>1
  <2>3. new.res = res /\ new.sent = s.sent
    BY <2>2
  <2>4. LoopOK(list, new, i)
    BY <1>1, <1>2, <1>4, <1>5, <1>6, <1>n, <2>3 DEF LoopOK
  <2> QED
    BY <2>4 DEF new
<1>7. CASE m + 1 = Chunk
  <2>1. i = Chunk * (n + 1) + 0 /\ n + 1 \in Nat /\ 0 < Chunk
    BY <1>0, <1>1, <1>4, <1>7
  <2>2. i % Chunk = 0
    BY <1>0, <2>1, Remainder
  <2> DEFINE r == Reply(flag, res)
  <2>3. new = [res |-> <<>>, sent |-> Append(s.sent, r)]
    BY <1>3, <2>2
  <2>4. r.num = Chunk /\ r.addresses = res /\ r.flag = flag /\ r \in Sent
    BY <1>0, <1>2, <1>7, <1>f DEF Reply, Sent
  <2> HIDE DEF r
  <2>5. new.res = <<>> /\ new.sent = Append(s.sent, r)
    BY <2>3
  <2>6. /\ new.sent \in Seq(Sent) /\ Len(new.sent) = n + 1 /\ new.sent[n + 1] = r
        /\ \A j \in 1 .. n : new.sent[j] = s.sent[j]
    BY <1>1, <1>n, <2>4, <2>5
  <2>7. Full(list, r, Chunk * n)
    <3>1. Chunk * n + Chunk = i
      BY <1>0, <1>1, <1>4, <1>7
    <3> QED
      BY <1>2, <1>5, <1>7, <1>f, <2>4, <3>1 DEF Full
  <2>8. ASSUME NEW j \in 1 .. n + 1 PROVE Full(list, new.sent[j], Chunk * (j - 1))
    <3>1. CASE j \in 1 .. n
      BY <1>1, <2>6, <3>1
    <3>2. CASE j = n + 1
      <4>1. j - 1 = n
        BY <1>1, <3>2
      <4> QED
        BY <2>6, <2>7, <3>2, <4>1
    <3> QED
      BY <1>1, <3>1, <3>2
  <2>9. new.res \in Seq(Registrant) /\ Len(new.res) = 0 /\ 1 .. Len(new.res) = {}
    BY <2>5
  <2>10. i = Chunk * Len(new.sent) + Len(new.res) /\ Len(new.res) < Chunk
    BY <1>0, <2>1, <2>6, <2>9
  <2>11. LoopOK(list, new, i)
    BY <2>6, <2>8, <2>9, <2>10 DEF LoopOK
  <2> QED
    BY <2>11 DEF new
<1> QED
  BY <1>0, <1>1, <1>6, <1>7

LEMMA LoopFacts ==
  ASSUME NEW list \in Seq(Registrant)
  PROVE  LoopOK(list, Loop(list), Len(list))
<1>0. Len(list) \in Nat /\ Chunk \in Nat \ {0}
  BY StorageV4Assumption
<1>1. PICK f : Runs(list, Len(list), f) /\ Loop(list) = f[Len(list)]
  BY LoopRuns
<1>2. \A i \in 0 .. Len(list) : f[i] = IF i = 0 THEN Start ELSE Turn(list, f[i - 1], i)
  BY <1>1 DEF Runs
<1> DEFINE S == {i \in Nat : i <= Len(list) => LoopOK(list, f[i], i)}
<1>3. 0 \in S
  <2>1. f[0] = Start
    BY <1>0, <1>2
  <2>2. LoopOK(list, Start, 0)
    <3>1. Start.res = <<>> /\ Start.sent = <<>>
      BY DEF Start
    <3>2. Len(<<>>) = 0 /\ 1 .. 0 = {}
      OBVIOUS
    <3> QED
      BY <1>0, <3>1, <3>2 DEF LoopOK
  <2> QED
    BY <2>1, <2>2
<1>4. ASSUME NEW i \in Nat, i \in S PROVE i + 1 \in S
  <2> SUFFICES ASSUME i + 1 <= Len(list) PROVE LoopOK(list, f[i + 1], i + 1)
    OBVIOUS
  <2>1. i + 1 \in 0 .. Len(list) /\ i + 1 \in 1 .. Len(list) /\ i + 1 # 0 /\ (i + 1) - 1 = i
        /\ i <= Len(list)
    BY <1>0
  <2>2. f[i + 1] = Turn(list, f[i], i + 1)
    BY <1>2, <2>1
  <2>3. LoopOK(list, f[i], i)
    BY <1>4, <2>1
  <2> QED
    BY <2>1, <2>2, <2>3, TurnOK
<1> HIDE DEF S
<1>5. Len(list) \in S
  BY <1>0, <1>3, <1>4, Inductive
<1> QED
  BY <1>0, <1>1, <1>5 DEF S

-----------------------------------------------------------------------------
(* The replies.                                                              *)

\* Reply m holds part of the list, beginning after its first o addresses.
Carries(list, m, o) ==
  /\ m.num \in 1 .. Chunk
  /\ o + m.num <= Len(list)
  /\ m.addresses = SubSeq(list, o + 1, o + m.num)

CutUp(list, sent) ==
  /\ \A i \in DOMAIN sent :
       /\ Carries(list, sent[i], Offset(i))
       /\ (sent[i].flag = "PACKET_FINISH") <=> (i = Len(sent))
  /\ \A k \in DOMAIN list : \E i \in DOMAIN sent :
       k \in Offset(i) + 1 .. Offset(i) + sent[i].num

\* Every place in the list belongs to one reply.
LEMMA Place ==
  ASSUME NEW k \in Nat \ {0}
  PROVE  \E j \in Nat \ {0} : Offset(j) \in Nat /\ Offset(j) + 1 <= k /\ k <= Offset(j) + Chunk
<1>0. Chunk \in Nat \ {0}
  BY StorageV4Assumption
<1> DEFINE q == (k - 1) \div Chunk
<1> DEFINE r == (k - 1) % Chunk
<1>1. k - 1 \in Nat
  OBVIOUS
<1>2. q \in Nat /\ r \in Nat /\ r < Chunk /\ k - 1 = Chunk * q + r
  BY <1>0, <1>1
<1> HIDE DEF q, r
<1>3. Offset(q + 1) = Chunk * q /\ Chunk * q \in Nat /\ q + 1 \in Nat \ {0}
  BY <1>0, <1>2 DEF Offset
<1>4. Chunk * q + 1 <= k /\ k <= Chunk * q + Chunk
  BY <1>0, <1>2, <1>3
<1> QED
  BY <1>3, <1>4

LEMMA SameAsPart ==
  ASSUME NEW list \in Seq(Registrant), NEW q \in Seq(Registrant), NEW o \in Nat,
         o + Len(q) <= Len(list), \A k \in 1 .. Len(q) : q[k] = list[o + k]
  PROVE  q = SubSeq(list, o + 1, o + Len(q))
<1> DEFINE t == SubSeq(list, o + 1, o + Len(q))
<1>1. Len(q) \in Nat /\ Len(list) \in Nat
  OBVIOUS
<1>2. /\ t = [k \in 1 .. Len(q) |-> list[o + k]]
  BY <1>1
<1>3. q = [k \in 1 .. Len(q) |-> q[k]]
  OBVIOUS
<1> QED
  BY <1>2, <1>3

LEMMA RepliesCut ==
  ASSUME NEW list \in Seq(Registrant)
  PROVE  CutUp(list, RepliesTo(list))
<1> DEFINE s == Loop(list)
<1> DEFINE n == Len(s.sent)
<1> DEFINE m == Len(s.res)
<1> DEFINE L == Len(list)
<1> DEFINE sent == RepliesTo(list)
<1>0. Chunk \in Nat \ {0} /\ L \in Nat
  BY StorageV4Assumption
<1>1. /\ s.res \in Seq(Registrant) /\ s.sent \in Seq(Sent)
      /\ L = Chunk * n + m /\ m < Chunk
      /\ \A k \in 1 .. m : s.res[k] = list[Chunk * n + k]
      /\ \A j \in 1 .. n : Full(list, s.sent[j], Chunk * (j - 1))
  BY LoopFacts DEF LoopOK
<1>2. sent = IF L % Chunk = 0 THEN s.sent ELSE Append(s.sent, Reply("PACKET_FINISH", s.res))
  BY DEF RepliesTo
<1>n. n \in Nat /\ m \in Nat /\ n = Len(s.sent) /\ m = Len(s.res) /\ L = Len(list)
  BY <1>1
<1> HIDE DEF s, n, m, L, sent
<1>3. L % Chunk = m
  BY <1>0, <1>1, <1>n, Remainder
<1>4. ASSUME NEW j \in 1 .. n
      PROVE  /\ s.sent[j].num = Chunk /\ Offset(j) \in Nat /\ Offset(j) = Chunk * (j - 1)
             /\ Offset(j) + Chunk <= Chunk * n
             /\ (Offset(j) + Chunk = Chunk * n) <=> (j = n)
             /\ s.sent[j].addresses = SubSeq(list, Offset(j) + 1, Offset(j) + Chunk)
             /\ (s.sent[j].flag = "PACKET_FINISH") <=> (Offset(j) + Chunk = L)
  <2> DEFINE r == s.sent[j]
  <2>1. Full(list, r, Chunk * (j - 1)) /\ r \in Sent
    BY <1>1, <1>n
  <2> HIDE DEF r
  <2> DEFINE o == Offset(j)
  <2>2. j - 1 \in Nat /\ j \in Nat /\ o = Chunk * (j - 1) /\ o \in Nat
    BY <1>0, <1>n DEF Offset
  <2>3. o + Chunk = Chunk * j
    BY <1>0, <2>2
  <2>4. Chunk * j <= Chunk * n /\ (Chunk * j = Chunk * n <=> j = n)
    <3>1. CASE j = n
      BY <1>0, <1>n, <3>1
    <3>2. CASE j < n
      <4>1. Chunk * (j + 1) <= Chunk * n
        BY <1>0, <1>n, <2>2, <3>2, SMTT(30)
      <4>2. Chunk * (j + 1) = Chunk * j + Chunk /\ Chunk * j \in Nat /\ Chunk * n \in Nat
        BY <1>0, <1>n, <2>2
      <4> QED
        BY <1>0, <3>2, <4>1, <4>2
    <3> QED
      BY <1>n, <2>2, <3>1, <3>2
  <2> HIDE DEF o
  <2>5. /\ r.num = Chunk /\ Len(r.addresses) = Chunk /\ r.addresses \in Seq(Registrant)
        /\ \A k \in 1 .. Chunk : r.addresses[k] = list[o + k]
        /\ (r.flag = "PACKET_FINISH") <=> (o + Chunk = L)
    BY <1>n, <2>1, <2>2 DEF Full, Sent
  <2>6. o + Chunk <= L
    <3> DEFINE N == Chunk * n
    <3>1. N \in Nat /\ L = N + m /\ o + Chunk <= N
      BY <1>0, <1>1, <1>n, <2>3, <2>4
    <3> HIDE DEF N
    <3> QED
      BY <1>0, <1>n, <2>2, <3>1
  <2>7. r.addresses = SubSeq(list, o + 1, o + Chunk)
    BY <1>0, <1>n, <2>2, <2>5, <2>6, SameAsPart
  <2> QED
    BY <2>2, <2>3, <2>4, <2>5, <2>7 DEF r, o
<1>c. Chunk * n \in Nat
  BY <1>0, <1>n
<1>6. ASSUME NEW k \in 1 .. L
      PROVE  \/ \E j \in 1 .. n : k \in Offset(j) + 1 .. Offset(j) + Chunk
             \/ k \in Chunk * n + 1 .. Chunk * n + m
  <2>1. k \in Nat \ {0} /\ k <= L
    BY <1>0
  <2>2. PICK j \in Nat \ {0} : Offset(j) \in Nat /\ Offset(j) + 1 <= k /\ k <= Offset(j) + Chunk
    BY <2>1, Place
  <2>3. k \in Offset(j) + 1 .. Offset(j) + Chunk
    BY <1>0, <2>1, <2>2
  <2>4. CASE n < j
    <3>1. Chunk * n <= Chunk * (j - 1) /\ Offset(j) = Chunk * (j - 1)
      BY <1>0, <1>n, <2>4, SMTT(30) DEF Offset
    <3> DEFINE N == Chunk * n
    <3>2. N \in Nat /\ N <= Offset(j) /\ L = N + m
      BY <1>1, <1>c, <3>1
    <3> HIDE DEF N
    <3>3. k \in N + 1 .. N + m
      BY <1>n, <2>1, <2>2, <3>2
    <3> QED
      BY <3>3 DEF N
  <2>5. n < j \/ j \in 1 .. n
    BY <1>n
  <2> QED
    BY <2>3, <2>4, <2>5
<1>5. CASE m = 0
  <2>1. sent = s.sent /\ Len(sent) = n /\ DOMAIN sent = 1 .. n /\ Chunk * n = L
    BY <1>1, <1>2, <1>3, <1>5, <1>c, <1>n
  <2>2. ASSUME NEW j \in 1 .. n
        PROVE  /\ Carries(list, sent[j], Offset(j))
               /\ (sent[j].flag = "PACKET_FINISH") <=> (j = Len(sent))
    <3>1. /\ sent[j].num = Chunk /\ Offset(j) + Chunk <= L
          /\ sent[j].addresses = SubSeq(list, Offset(j) + 1, Offset(j) + Chunk)
          /\ (sent[j].flag = "PACKET_FINISH") <=> (j = Len(sent))
      BY <1>4, <2>1
    <3> QED
      BY <1>0, <1>n, <3>1 DEF Carries
  <2>3. ASSUME NEW k \in 1 .. L
        PROVE  \E j \in 1 .. n : k \in Offset(j) + 1 .. Offset(j) + sent[j].num
    <3>1. k \notin Chunk * n + 1 .. Chunk * n + m
      BY <1>5, <1>c
    <3> QED
      BY <1>4, <1>6, <2>1, <3>1
  <2>4. DOMAIN list = 1 .. L
    BY <1>n
  <2>5. CutUp(list, sent)
    BY <2>1, <2>2, <2>3, <2>4 DEF CutUp
  <2> QED
    BY <2>5 DEF sent
<1>7. CASE m # 0
  <2> DEFINE r == Reply("PACKET_FINISH", s.res)
  <2>1. r.num = m /\ r.addresses = s.res /\ r.flag = "PACKET_FINISH" /\ r \in Sent
    BY <1>1, <1>n DEF Reply, Sent
  <2>2. sent = Append(s.sent, r)
    BY <1>2, <1>3, <1>7
  <2> HIDE DEF r
  <2>3. /\ Len(sent) = n + 1 /\ sent \in Seq(Sent) /\ sent[n + 1] = r
        /\ \A j \in 1 .. n : sent[j] = s.sent[j]
    BY <1>1, <1>n, <2>1, <2>2, Appended
  <2>4. DOMAIN sent = 1 .. n + 1 /\ DOMAIN list = 1 .. L
    BY <1>n, <2>3
  <2> DEFINE N == Chunk * n
  <2>5. N \in Nat /\ L = N + m /\ Offset(n + 1) = N
    BY <1>0, <1>1, <1>c, <1>n DEF Offset
  <2>6. \A k \in 1 .. m : s.res[k] = list[N + k]
    BY <1>1
  <2> HIDE DEF N
  <2>7. ASSUME NEW j \in 1 .. n
        PROVE  /\ Carries(list, sent[j], Offset(j))
               /\ (sent[j].flag = "PACKET_FINISH") <=> (j = Len(sent))
    <3>1. /\ sent[j].num = Chunk /\ Offset(j) \in Nat /\ Offset(j) + Chunk <= N
          /\ sent[j].addresses = SubSeq(list, Offset(j) + 1, Offset(j) + Chunk)
          /\ (sent[j].flag = "PACKET_FINISH") <=> (Offset(j) + Chunk = L)
      BY <1>4, <2>3 DEF N
    <3>2. Offset(j) + Chunk < L /\ j # n + 1
      BY <1>0, <1>7, <1>n, <2>5, <3>1
    <3> QED
      BY <1>0, <1>n, <2>3, <3>1, <3>2 DEF Carries
  <2>8. Carries(list, r, N)
    <3>1. s.res = SubSeq(list, N + 1, N + m)
      <4> DEFINE t == s.res
      <4>1. t \in Seq(Registrant) /\ Len(t) = m
        BY <1>1, <1>n
      <4>2. N + m <= Len(list) /\ \A k \in 1 .. m : t[k] = list[N + k]
        BY <1>n, <2>5, <2>6
      <4> HIDE DEF t
      <4>3. t = SubSeq(list, N + 1, N + m)
        BY <2>5, <4>1, <4>2, SameAsPart
      <4> QED
        BY <4>3 DEF t
    <3> QED
      BY <1>0, <1>1, <1>7, <1>n, <2>1, <2>5, <3>1 DEF Carries
  <2>9. ASSUME NEW j \in 1 .. n + 1
        PROVE  /\ Carries(list, sent[j], Offset(j))
               /\ (sent[j].flag = "PACKET_FINISH") <=> (j = Len(sent))
    <3>1. CASE j = n + 1
      BY <2>1, <2>3, <2>5, <2>8, <3>1
    <3>2. j \in 1 .. n \/ j = n + 1
      BY <1>n
    <3> QED
      BY <2>7, <3>1, <3>2
  <2>10. ASSUME NEW k \in 1 .. L
         PROVE  \E j \in 1 .. n + 1 : k \in Offset(j) + 1 .. Offset(j) + sent[j].num
    <3>1. CASE k \in N + 1 .. N + m
      <4>1. n + 1 \in 1 .. n + 1 /\ k \in Offset(n + 1) + 1 .. Offset(n + 1) + sent[n + 1].num
        BY <1>n, <2>1, <2>3, <2>5, <3>1
      <4> QED
        BY <4>1
    <3>2. CASE \E j \in 1 .. n : k \in Offset(j) + 1 .. Offset(j) + Chunk
      <4>1. PICK j \in 1 .. n : k \in Offset(j) + 1 .. Offset(j) + Chunk
        BY <3>2
      <4>2. sent[j].num = Chunk
        BY <1>4, <2>3
      <4>3. j \in 1 .. n + 1
        BY <1>n
      <4> QED
        BY <4>1, <4>2, <4>3
    <3> QED
      BY <1>6, <3>1, <3>2 DEF N
  <2>11. CutUp(list, sent)
    BY <2>4, <2>9, <2>10 DEF CutUp
  <2> QED
    BY <2>11 DEF sent
<1> QED
  BY <1>5, <1>7

-----------------------------------------------------------------------------
(* The inductive invariant.                                                  *)

Inv ==
  /\ TypeOK
  /\ m_sent \in [Client -> Nat]
  /\ \A c \in Client :
       status[c] = "created" => m_sendEvent[c] = "expired" /\ m_readEvent[c] = "expired"
  /\ \A p \in net : p.who \in Client
  /\ resolution_table \in Seq(Switch)
  /\ RepliesCarryTheList

LEMMA InvInit == Init => Inv
<1> SUFFICES ASSUME Init PROVE Inv
  OBVIOUS
<1> USE DEF Init
<1>0. m_count \in [Client -> Nat] /\ MaxRegist \in Nat
  BY StorageV4Assumption
<1>1. \A c \in Client : m_sent[c] \in 0 .. m_count[c]
  BY <1>0
<1>2. ToSet(resolution_table) \subseteq m_eid_table /\ IsInjective(resolution_table)
  BY DEF ToSet, IsInjective
<1>3. m_eid_na_table \in Seq(Registrant) /\ Len(m_eid_na_table) <= MaxRegist
  BY <1>0
<1>4. TypeOK
  BY <1>1, <1>2, <1>3 DEF TypeOK
<1>5. RepliesCarryTheList
  BY DEF RepliesCarryTheList
<1> QED
  BY <1>4, <1>5 DEF Inv

\* The shared list holds no switch twice.
LEMMA AddFacts ==
  ASSUME NEW list \in Seq(Switch), IsInjective(list), NEW s \in Switch
  PROVE  /\ AddEIDNAINFO(list, s) \in Seq(Switch)
         /\ IsInjective(AddEIDNAINFO(list, s))
         /\ ToSet(AddEIDNAINFO(list, s)) \subseteq ToSet(list) \cup {s}
<1>1. CASE s \in ToSet(list)
  BY <1>1 DEF AddEIDNAINFO
<1>2. CASE s \notin ToSet(list)
  <2> DEFINE new == Append(list, s)
  <2>1. AddEIDNAINFO(list, s) = new
    BY <1>2 DEF AddEIDNAINFO
  <2>2. /\ new \in Seq(Switch) /\ Len(list) \in Nat /\ Len(new) = Len(list) + 1
        /\ \A k \in 1 .. Len(list) : new[k] = list[k]
        /\ new[Len(list) + 1] = s
    BY Appended
  <2>3. DOMAIN list = 1 .. Len(list)
    OBVIOUS
  <2> HIDE DEF new
  <2>4. DOMAIN new = 1 .. Len(list) + 1
    BY <2>2
  <2>5. \A i \in 1 .. Len(list) : list[i] # s /\ list[i] \in ToSet(list)
    BY <1>2, <2>3 DEF ToSet
  <2>6. ASSUME NEW i \in DOMAIN new
        PROVE  \/ i \in 1 .. Len(list) /\ new[i] = list[i]
               \/ i = Len(list) + 1 /\ new[i] = s
    BY <2>2, <2>4
  <2>7. \A i, j \in 1 .. Len(list) : list[i] = list[j] => i = j
    BY <2>3 DEF IsInjective
  <2>8. IsInjective(new)
    BY <2>5, <2>6, <2>7 DEF IsInjective
  <2>9. ToSet(new) \subseteq ToSet(list) \cup {s}
    BY <2>5, <2>6 DEF ToSet
  <2> QED
    BY <2>1, <2>2, <2>8, <2>9
<1> QED
  BY <1>1, <1>2

\* A step of the clients leaves the tables and the replies alone.
LEMMA ClientStep ==
  ASSUME Inv, NEW c \in Client,
         StartApplication(c) \/ StopApplication(c) \/ Write(c) \/ Read(c)
  PROVE  Inv'
<1> USE DEF clientVars, tableVars
<1>0. /\ status \in [Client -> {"created", "running", "stopped"}]
      /\ m_sendEvent \in [Client -> {"Write", "Read", "expired"}]
      /\ m_readEvent \in [Client -> {"Write", "expired"}]
      /\ m_sent \in [Client -> Nat] /\ m_count \in [Client -> Nat]
      /\ \A d \in Client :
           /\ m_sent[d] \in 0 .. m_count[d]
           /\ "expired" \in {m_sendEvent[d], m_readEvent[d]}
           /\ status[d] = "stopped" => {m_sendEvent[d], m_readEvent[d]} = {"expired"}
           /\ status[d] = "created" => m_sendEvent[d] = "expired" /\ m_readEvent[d] = "expired"
  BY StorageV4Assumption DEF Inv, TypeOK
<1>1. UNCHANGED <<tableVars, replies>>
  BY DEF StartApplication, StopApplication, Write, Read
<1>2. \A p \in net' : p \in net \/ p.who = c
  BY DEF StartApplication, StopApplication, Write, Read, Packet
<1>3. /\ m_neigh_delay_table' \in [Client -> SUBSET Switch]
      /\ m_eid_table' \subseteq Switch
      /\ ToSet(resolution_table') \subseteq m_eid_table'
      /\ IsInjective(resolution_table')
      /\ m_eid_na_table' \in Seq(Registrant) /\ Len(m_eid_na_table') <= MaxRegist
      /\ resolution_table' \in Seq(Switch)
      /\ RepliesCarryTheList'
      /\ \A p \in net' : p.who \in Client
  BY <1>1, <1>2 DEF Inv, TypeOK, RepliesCarryTheList
<1> DEFINE Goal ==
      /\ status' \in [Client -> {"created", "running", "stopped"}]
      /\ m_sendEvent' \in [Client -> {"Write", "Read", "expired"}]
      /\ m_readEvent' \in [Client -> {"Write", "expired"}]
      /\ m_sent' \in [Client -> Nat]
      /\ \A d \in Client :
           /\ m_sent'[d] \in 0 .. m_count[d]
           /\ "expired" \in {m_sendEvent'[d], m_readEvent'[d]}
           /\ status'[d] = "stopped" => {m_sendEvent'[d], m_readEvent'[d]} = {"expired"}
           /\ status'[d] = "created" => m_sendEvent'[d] = "expired" /\ m_readEvent'[d] = "expired"
<1>4. ASSUME StartApplication(c) PROVE Goal
  BY <1>0, <1>4 DEF StartApplication
<1>5. ASSUME StopApplication(c) PROVE Goal
  BY <1>0, <1>5 DEF StopApplication
<1>6. ASSUME Write(c) PROVE Goal
  BY <1>0, <1>6, SMTT(30) DEF Write
<1>7. ASSUME Read(c) PROVE Goal
  BY <1>0, <1>7 DEF Read
<1> HIDE DEF Goal
<1>8. Goal
  BY <1>4, <1>5, <1>6, <1>7
<1> QED
  BY <1>3, <1>8 DEF Inv, TypeOK, Goal

LEMMA InvStep == Inv /\ [Next]_vars => Inv'
<1> SUFFICES ASSUME Inv, [Next]_vars PROVE Inv'
  OBVIOUS
<1> USE DEF clientVars, tableVars
<1>1. ASSUME UNCHANGED <<clientVars, m_neigh_delay_table, m_eid_table, resolution_table>>,
             m_eid_na_table' \in Seq(Registrant), Len(m_eid_na_table') <= MaxRegist,
             \A p \in net' : p.who \in Client, RepliesCarryTheList'
      PROVE  Inv'
  BY <1>1 DEF Inv, TypeOK
<1>2. m_eid_na_table \in Seq(Registrant) /\ Len(m_eid_na_table) <= MaxRegist
      /\ RepliesCarryTheList /\ \A p \in net : p.who \in Client
  BY DEF Inv, TypeOK
<1>3. ASSUME UNCHANGED replies PROVE RepliesCarryTheList'
  BY <1>2, <1>3 DEF RepliesCarryTheList
<1>4. ASSUME NEW p \in net, ClientNeighReply(p) PROVE Inv'
  <2>1. p.who \in Client /\ Home[p.who] \in Switch
    BY <1>2, StorageV4Assumption
  <2>2. m_neigh_delay_table' \in [Client -> SUBSET Switch]
    BY <1>4, <2>1 DEF ClientNeighReply, Inv, TypeOK
  <2>3. RepliesCarryTheList' /\ \A q \in net' : q.who \in Client
    BY <1>2, <1>3, <1>4 DEF ClientNeighReply
  <2>4. UNCHANGED <<clientVars, m_eid_table, resolution_table, m_eid_na_table>>
    BY <1>4 DEF ClientNeighReply
  <2> QED
    BY <2>2, <2>3, <2>4 DEF Inv, TypeOK
<1>5. ASSUME NEW p \in net, ReceiveDataHandle(p) PROVE Inv'
  <2> DEFINE s == Home[p.who]
  <2>1. p.who \in Client /\ s \in Switch
    BY <1>2, StorageV4Assumption
  <2> HIDE DEF s
  <2>2. /\ m_eid_table' = m_eid_table \cup {s}
        /\ resolution_table' = AddEIDNAINFO(resolution_table, s)
        /\ UNCHANGED <<clientVars, m_neigh_delay_table, m_eid_na_table>>
    BY <1>5 DEF ReceiveDataHandle, s
  <2>3. /\ resolution_table \in Seq(Switch) /\ IsInjective(resolution_table)
        /\ ToSet(resolution_table) \subseteq m_eid_table /\ m_eid_table \subseteq Switch
    BY DEF Inv, TypeOK
  <2>4. /\ resolution_table' \in Seq(Switch) /\ IsInjective(resolution_table')
        /\ ToSet(resolution_table') \subseteq m_eid_table' /\ m_eid_table' \subseteq Switch
    BY <2>1, <2>2, <2>3, AddFacts
  <2>5. RepliesCarryTheList' /\ \A q \in net' : q.who \in Client
    BY <1>2, <1>3, <1>5 DEF ReceiveDataHandle
  <2> QED
    BY <2>2, <2>4, <2>5 DEF Inv, TypeOK
<1>6. ASSUME NEW p \in net, RequestHandle(p) PROVE Inv'
  <2> DEFINE list == m_eid_na_table
  <2> DEFINE sent == RepliesTo(list)
  <2>1. \A r \in replies' : r \in replies \/ (r.list = list /\ r.sent = sent)
    BY <1>6 DEF RequestHandle
  <2>2. CutUp(list, sent)
    BY <1>2, RepliesCut
  <2>3. \A q \in net' : q \in net \/ q.who = p.who
    BY <1>6 DEF RequestHandle
  <2>4. UNCHANGED <<clientVars, tableVars>>
    BY <1>6 DEF RequestHandle
  <2> HIDE DEF sent, list
  <2>5. RepliesCarryTheList'
    BY <1>2, <2>1, <2>2 DEF RepliesCarryTheList, CutUp, Carries
  <2> QED
    BY <1>1, <1>2, <2>3, <2>4, <2>5
<1>7. ASSUME NEW a \in Registrant, Register(a) PROVE Inv'
  <2>1. m_eid_na_table' = Append(m_eid_na_table, a) /\ Len(m_eid_na_table) < MaxRegist
        /\ MaxRegist \in Nat
    BY <1>7, StorageV4Assumption DEF Register
  <2>2. m_eid_na_table' \in Seq(Registrant) /\ Len(m_eid_na_table') <= MaxRegist
    BY <1>2, <2>1
  <2>3. RepliesCarryTheList' /\ net' = net
        /\ UNCHANGED <<clientVars, m_neigh_delay_table, m_eid_table, resolution_table>>
    BY <1>3, <1>7 DEF Register
  <2> QED
    BY <1>1, <1>2, <2>2, <2>3
<1>8. ASSUME NEW p \in net, ResolutionReplyHandle(p) \/ NeighInfoReply(p) \/ Lose(p) PROVE Inv'
  <2>1. \A q \in net' : q \in net \/ q.who = p.who
    BY <1>8 DEF ResolutionReplyHandle, NeighInfoReply, Lose, Packet
  <2>2. UNCHANGED <<clientVars, tableVars, replies>>
    BY <1>8 DEF ResolutionReplyHandle, NeighInfoReply, Lose
  <2> QED
    BY <1>1, <1>2, <1>3, <2>1, <2>2
<1>9. CASE UNCHANGED vars
  BY <1>1, <1>2, <1>3, <1>9 DEF vars
<1> QED
  BY <1>4, <1>5, <1>6, <1>7, <1>8, <1>9, ClientStep DEF Next, ReceiveCallback, FrontEnd

LEMMA Invariant == Spec => []Inv
<1> QED
  BY InvInit, InvStep, PTL DEF Spec

\* The types of the storage service over IPv4, for any number of clients, switches
\* and registrations: m_sent never passes m_count, of a client's two events at
\* most one is pending and none once it has stopped, and the shared list names
\* each switch once, and only switches that store the data.
THEOREM StorageV4TypeCorrect == Spec => []TypeOK
<1>1. Inv => TypeOK
  BY DEF Inv
<1> QED
  BY <1>1, Invariant, PTL

\* For every list and every size of a reply, RequestHandle's replies carry the whole
\* list, each address once and in order, none of them empty, and exactly the last
\* is marked PACKET_FINISH.
THEOREM RepliesCarryTheListAlways == Spec => []RepliesCarryTheList
<1>1. Inv => RepliesCarryTheList
  BY DEF Inv
<1> QED
  BY <1>1, Invariant, PTL
=============================================================================
