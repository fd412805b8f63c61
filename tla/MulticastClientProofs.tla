------------------------ MODULE MulticastClientProofs ------------------------
(***************************************************************************)
(* Proofs about the EIDs of MulticastClient, for every number of clients,   *)
(* every EID_UNIT, base and byte range: which numbering of the clients makes *)
(* the writers' groups distinct, and the readers ask for all of them and for *)
(* nothing else.                                                            *)
(***************************************************************************)
EXTENDS MulticastClient, TLAPS

-----------------------------------------------------------------------------
(* Division with remainder.                                                  *)

LEMMA DivMod ==
  ASSUME NEW n \in Nat, NEW b \in Nat \ {0}
  PROVE  /\ n \div b \in Nat /\ n % b \in Nat /\ n % b < b
         /\ n = b * (n \div b) + (n % b)
  OBVIOUS

LEMMA DivModUnique ==
  ASSUME NEW b \in Nat \ {0}, NEW q \in Nat, NEW r \in Nat, r < b,
         NEW n \in Nat, n = b * q + r
  PROVE  n \div b = q /\ n % b = r
<1> DEFINE p == n \div b
<1> DEFINE s == n % b
<1>1. p \in Nat /\ s \in Nat /\ s < b /\ n = b * p + s
  BY DivMod
<1> HIDE DEF p, s
<1>2. CASE p < q
  <2>1. b * (p + 1) <= b * q
    BY <1>1, <1>2
  <2> QED
    BY <1>1, <2>1
<1>3. CASE q < p
  <2>1. b * (q + 1) <= b * p
    BY <1>1, <1>3
  <2> QED
    BY <1>1, <2>1
<1>4. CASE q = p
  BY <1>1, <1>4 DEF p, s
<1> QED
  BY <1>1, <1>2, <1>3, <1>4

\* A number below the modulus is its own remainder.
LEMMA ModSmall ==
  ASSUME NEW b \in Nat \ {0}, NEW n \in Nat, n < b
  PROVE  n % b = n
  BY DivModUnique

\* EID_UNIT is a whole number of hundreds, at least one, and they fit into a byte.
Hundreds == EID_UNIT \div Base

LEMMA HundredsFacts ==
  /\ Hundreds \in Nat \ {0} /\ Hundreds < Byte
  /\ EID_UNIT = Base * Hundreds
  /\ Base \in Nat \ {0} /\ Byte \in Nat \ {0} /\ EID_UNIT \in Nat \ {0}
  /\ total_switch_num \in Nat \ {0} /\ AllCount \in Nat /\ AllCount <= EID_UNIT
<1>1. /\ Base \in Nat \ {0} /\ Byte \in Nat \ {0} /\ EID_UNIT \in Nat \ {0}
      /\ total_switch_num \in Nat \ {0} /\ AllCount \in Nat /\ AllCount <= EID_UNIT
      /\ EID_UNIT % Base = 0 /\ Hundreds < Byte
  BY ClientAssumption DEF Hundreds
<1>2. Hundreds \in Nat /\ EID_UNIT = Base * Hundreds + (EID_UNIT % Base)
  BY <1>1, DivMod DEF Hundreds
<1>3. EID_UNIT = Base * Hundreds
  BY <1>1, <1>2
<1>4. Hundreds # 0
  BY <1>1, <1>2, <1>3
<1> QED
  BY <1>1, <1>2, <1>3, <1>4

\* The hundreds of a number of at most EID_UNIT are at most those of EID_UNIT.
LEMMA HundredsOf ==
  ASSUME NEW n \in Nat, n <= EID_UNIT
  PROVE  (n \div Base) % Byte = n \div Base
<1> DEFINE q == n \div Base
<1> DEFINE H == Hundreds
<1>1. q \in Nat /\ n >= Base * q
  BY DivMod, HundredsFacts
<1>2. H \in Nat /\ H < Byte /\ Base * H >= n /\ Base \in Nat \ {0} /\ Byte \in Nat \ {0}
  BY HundredsFacts
<1> HIDE DEF q, H
<1>3. q <= H
  <2> SUFFICES ASSUME q >= H + 1 PROVE FALSE
    BY <1>1, <1>2
  <2>1. Base * q >= Base * (H + 1)
    BY <1>1, <1>2
  <2> QED
    BY <1>1, <1>2, <2>1
<1>4. q % Byte = q
  BY <1>1, <1>2, <1>3, ModSmall
<1> QED
  BY <1>4 DEF q

\* A writer gives every group an EID of its own.
LEMMA WriteEIDApart ==
  ASSUME NEW m \in Nat, NEW n \in Nat, m <= EID_UNIT, n <= EID_UNIT,
         NEW c \in Client, NEW d \in Client, WriteEID(c, m) = WriteEID(d, n)
  PROVE  m = n /\ switch_index[c] % Byte = switch_index[d] % Byte
<1>1. /\ switch_index[c] % Byte = switch_index[d] % Byte
      /\ (m \div Base) % Byte = (n \div Base) % Byte
      /\ m % Base = n % Base
  BY DEF WriteEID
<1>2. m \div Base = n \div Base
  BY <1>1, HundredsOf
<1>3. Base \in Nat \ {0}
  BY HundredsFacts
<1>4. m = Base * (m \div Base) + (m % Base) /\ n = Base * (n \div Base) + (n % Base)
  BY <1>3, DivMod
<1> QED
  BY <1>1, <1>2, <1>4

-----------------------------------------------------------------------------
(* The inductive invariant.                                                  *)

Kinds(c) == IF function_type[c] = "All" THEN {"Write", "Read"} ELSE {function_type[c]}

Limit(c) == CASE function_type[c] = "Read"  -> total_switch_num * EID_UNIT
              [] function_type[c] = "Write" -> EID_UNIT
              [] function_type[c] = "All"   -> AllCount

\* What client c sends as its n-th packet in one of its chains.
Nth(kind, c, n) ==
  [kind |-> kind, who |-> c, n |-> n,
   eid |-> IF kind = "Write" THEN WriteEID(c, n) ELSE ReadEID(c, n)]

Types ==
  /\ status \in [Client -> {"created", "running", "stopped"}]
  /\ m_sent \in [Client -> Nat]
  /\ m_count \in [Client -> Nat]
  /\ scheduled \in [Client -> SUBSET {"Write", "Read"}]

\* A client has nothing scheduled and has sent nothing before it starts; then it
\* runs the chains of its type up to its limit.
Chains ==
  \A c \in Client :
    /\ status[c] = "created" => m_sent[c] = 0 /\ scheduled[c] = {}
    /\ status[c] # "created" => m_count[c] = Limit(c) /\ m_sent[c] <= Limit(c)
    /\ scheduled[c] \subseteq Kinds(c)

\* Every packet is the n-th of its client, for an n that was counted.
Numbered ==
  \A x \in sent : \E c \in Client, n \in Nat, kind \in {"Write", "Read"} :
    x = Nth(kind, c, n) /\ 1 <= n /\ n <= m_sent[c] /\ kind \in Kinds(c)

\* Two chains on one counter never use a number twice.
NumbersUsedOnce == \A x, y \in sent : x.who = y.who /\ x.n = y.n => x = y

\* And they leave none out.
NoneLeftOut ==
  \A c \in Client : \A n \in Nat : 1 <= n /\ n <= m_sent[c] =>
    \E x \in sent : x.who = c /\ x.n = n

Inv == Types /\ Chains /\ Numbered /\ NumbersUsedOnce /\ NoneLeftOut

LEMMA InvInit == Init => Inv
<1> SUFFICES ASSUME Init PROVE Inv
  OBVIOUS
<1>1. Types
  BY ClientAssumption DEF Init, Types
<1>2. Chains
  BY DEF Init, Chains
<1>3. Numbered /\ NumbersUsedOnce
  BY DEF Init, Numbered, NumbersUsedOnce
<1>4. NoneLeftOut
  <2> SUFFICES ASSUME NEW c \in Client, NEW n \in Nat, 1 <= n, n <= m_sent[c] PROVE FALSE
    BY DEF NoneLeftOut
  <2>1. m_sent[c] = 0
    BY DEF Init
  <2> QED
    BY <2>1
<1> QED
  BY <1>1, <1>2, <1>3, <1>4 DEF Inv

LEMMA LimitFacts == \A c \in Client : Limit(c) \in Nat
<1> SUFFICES ASSUME NEW c \in Client PROVE Limit(c) \in Nat
  OBVIOUS
<1>1. function_type[c] \in {"Write", "Read", "All"}
  BY ClientAssumption
<1>2. total_switch_num * EID_UNIT \in Nat /\ EID_UNIT \in Nat /\ AllCount \in Nat
  BY HundredsFacts
<1> QED
  BY <1>1, <1>2 DEF Limit

LEMMA StartStep == ASSUME Inv, NEW c \in Client, StartApplication(c) PROVE Inv'
<1>0. /\ Types /\ Chains /\ Numbered /\ NumbersUsedOnce /\ NoneLeftOut
  BY DEF Inv
<1>1. m_sent[c] = 0 /\ function_type[c] \in {"Write", "Read", "All"}
  BY <1>0, ClientAssumption DEF StartApplication, Chains
<1>2. /\ m_sent' = m_sent /\ sent' = sent
      /\ status' = [status EXCEPT ![c] = "running"]
      /\ m_count' = [m_count EXCEPT ![c] = Limit(c)]
      /\ scheduled' = [scheduled EXCEPT ![c] = Kinds(c)]
  BY <1>0, <1>1 DEF StartApplication, Limit, Kinds, Types
<1>3. Limit(c) \in Nat /\ Kinds(c) \subseteq {"Write", "Read"}
  BY <1>1, LimitFacts DEF Kinds
<1>4. Types'
  BY <1>0, <1>2, <1>3 DEF Types
<1>5. Chains'
  <2> SUFFICES ASSUME NEW d \in Client
               PROVE  /\ status'[d] = "created" => m_sent'[d] = 0 /\ scheduled'[d] = {}
                      /\ status'[d] # "created" =>
                           m_count'[d] = Limit(d) /\ m_sent'[d] <= Limit(d)
                      /\ scheduled'[d] \subseteq Kinds(d)
    BY DEF Chains, Limit, Kinds
  <2>1. CASE d = c
    BY <1>0, <1>1, <1>2, <1>3, <2>1 DEF Types
  <2>2. CASE d # c
    BY <1>0, <1>2, <2>2 DEF Types, Chains
  <2> QED
    BY <2>1, <2>2
<1>6. Numbered' /\ NumbersUsedOnce' /\ NoneLeftOut'
  BY <1>0, <1>2 DEF Numbered, NumbersUsedOnce, NoneLeftOut, Nth, WriteEID, ReadEID, Kinds
<1> QED
  BY <1>4, <1>5, <1>6 DEF Inv

LEMMA StopStep == ASSUME Inv, NEW c \in Client, StopApplication(c) PROVE Inv'
<1>1. /\ Types /\ Chains /\ Numbered /\ NumbersUsedOnce /\ NoneLeftOut
  BY DEF Inv
<1>2. Types'
  BY <1>1 DEF Types, StopApplication
<1>3. Chains'
  BY <1>1 DEF Types, Chains, StopApplication, Limit, Kinds
<1>4. Numbered' /\ NumbersUsedOnce' /\ NoneLeftOut'
  BY <1>1 DEF StopApplication, Numbered, NumbersUsedOnce, NoneLeftOut, Nth, WriteEID, ReadEID,
     Kinds
<1> QED
  BY <1>2, <1>3, <1>4 DEF Inv

\* A chain at its limit ends.
LEMMA EndStep ==
  ASSUME Inv, NEW c \in Client, NEW kind,
         scheduled' = [scheduled EXCEPT ![c] = @ \ {kind}],
         UNCHANGED <<status, m_sent, m_count, sent>>
  PROVE  Inv'
<1>1. /\ Types /\ Chains /\ Numbered /\ NumbersUsedOnce /\ NoneLeftOut
  BY DEF Inv
<1>2. Types'
  BY <1>1 DEF Types
<1>3. Chains'
  BY <1>1 DEF Types, Chains, Limit, Kinds
<1>4. Numbered' /\ NumbersUsedOnce' /\ NoneLeftOut'
  BY <1>1 DEF Numbered, NumbersUsedOnce, NoneLeftOut, Nth, WriteEID, ReadEID, Kinds
<1> QED
  BY <1>2, <1>3, <1>4 DEF Inv

\* A chain below its limit takes the next number.
LEMMA SendStep ==
  ASSUME Inv, NEW c \in Client, NEW kind \in {"Write", "Read"},
         kind \in scheduled[c], m_sent[c] < m_count[c],
         m_sent' = [m_sent EXCEPT ![c] = @ + 1],
         sent' = sent \cup {Nth(kind, c, m_sent[c] + 1)},
         UNCHANGED <<status, m_count, scheduled>>
  PROVE  Inv'
<1>0. /\ Types /\ Chains /\ Numbered /\ NumbersUsedOnce /\ NoneLeftOut
  BY DEF Inv
<1> DEFINE k == m_sent[c] + 1
<1> DEFINE new == Nth(kind, c, k)
<1>1. /\ m_sent[c] \in Nat /\ m_count[c] \in Nat /\ k \in Nat
      /\ \A d \in Client : m_sent[d] \in Nat /\ m_sent'[d] = IF d = c THEN k ELSE m_sent[d]
  BY <1>0 DEF Types
<1>2. /\ kind \in Kinds(c)
      /\ m_count[c] = Limit(c) /\ k <= Limit(c)
  BY <1>0, <1>1 DEF Chains
<1>3. new.who = c /\ new.n = k
  BY DEF Nth
<1>4. sent' = sent \cup {new}
  OBVIOUS
<1> HIDE DEF k, new
<1>5. Types'
  BY <1>0, <1>1 DEF Types, k
<1>6. Chains'
  <2> SUFFICES ASSUME NEW d \in Client
               PROVE  /\ status[d] = "created" => m_sent'[d] = 0 /\ scheduled[d] = {}
                      /\ status[d] # "created" =>
                           m_count[d] = Limit(d) /\ m_sent'[d] <= Limit(d)
                      /\ scheduled[d] \subseteq Kinds(d)
    BY DEF Chains, Limit, Kinds
  <2>1. CASE d = c
    BY <1>0, <1>1, <1>2, <2>1 DEF Chains
  <2>2. CASE d # c
    BY <1>0, <1>1, <2>2 DEF Chains
  <2> QED
    BY <2>1, <2>2
<1>7. Numbered'
  <2>1. ASSUME NEW x \in sent'
        PROVE  \E d \in Client, n \in Nat, j \in {"Write", "Read"} :
                 x = Nth(j, d, n) /\ 1 <= n /\ n <= m_sent'[d] /\ j \in Kinds(d)
    <3>1. CASE x \in sent
      <4>1. PICK d \in Client, n \in Nat, j \in {"Write", "Read"} :
              x = Nth(j, d, n) /\ 1 <= n /\ n <= m_sent[d] /\ j \in Kinds(d)
        BY <1>0, <3>1 DEF Numbered
      <4>2. n <= m_sent'[d]
        BY <1>1, <4>1 DEF k
      <4> QED
        BY <4>1, <4>2
    <3>2. CASE x = new
      <4>1. 1 <= k /\ k <= m_sent'[c]
        BY <1>1 DEF k
      <4> QED
        BY <1>1, <1>2, <3>2, <4>1 DEF new
    <3> QED
      BY <1>4, <2>1, <3>1, <3>2
  <2> QED
    BY <2>1 DEF Numbered, Nth, WriteEID, ReadEID, Kinds
<1>8. \A x \in sent : ~ (x.who = c /\ x.n = k)
  <2> SUFFICES ASSUME NEW x \in sent, x.who = c, x.n = k PROVE FALSE
    OBVIOUS
  <2>1. PICK d \in Client, n \in Nat, j \in {"Write", "Read"} :
          x = Nth(j, d, n) /\ 1 <= n /\ n <= m_sent[d] /\ j \in Kinds(d)
    BY <1>0 DEF Numbered
  <2>2. d = c /\ n = k
    BY <2>1 DEF Nth
  <2> QED
    BY <1>1, <2>1, <2>2 DEF k
<1>9. NumbersUsedOnce'
  BY <1>0, <1>3, <1>4, <1>8 DEF NumbersUsedOnce
<1>10. NoneLeftOut'
  <2> SUFFICES ASSUME NEW d \in Client, NEW n \in Nat, 1 <= n, n <= m_sent'[d]
               PROVE  \E x \in sent' : x.who = d /\ x.n = n
    BY DEF NoneLeftOut
  <2>1. CASE d = c /\ n = k
    BY <1>3, <1>4, <2>1
  <2>2. CASE n <= m_sent[d]
    <3>1. \E x \in sent : x.who = d /\ x.n = n
      BY <1>0, <2>2 DEF NoneLeftOut
    <3> QED
      BY <1>4, <3>1
  <2>3. (d = c /\ n = k) \/ n <= m_sent[d]
    BY <1>1 DEF k
  <2> QED
    BY <2>1, <2>2, <2>3
<1> QED
  BY <1>5, <1>6, <1>7, <1>9, <1>10 DEF Inv

LEMMA InvStep == Inv /\ [Next]_vars => Inv'
<1> SUFFICES ASSUME Inv, [Next]_vars PROVE Inv'
  OBVIOUS
<1>1. ASSUME NEW c \in Client, Write(c) PROVE Inv'
  <2>1. CASE m_sent[c] < m_count[c]
    <3>1. Nth("Write", c, m_sent[c] + 1)
            = [kind |-> "Write", who |-> c, n |-> m_sent[c] + 1, eid |-> WriteEID(c, m_sent[c] + 1)]
      BY DEF Nth
    <3> QED
      BY <1>1, <2>1, <3>1, SendStep DEF Write, Call, Inv, Types
  <2>2. CASE ~ (m_sent[c] < m_count[c])
    BY <1>1, <2>2, EndStep DEF Write, Call
  <2> QED
    BY <2>1, <2>2
<1>2. ASSUME NEW c \in Client, Read(c) PROVE Inv'
  <2>1. CASE m_sent[c] < m_count[c]
    <3>1. Nth("Read", c, m_sent[c] + 1)
            = [kind |-> "Read", who |-> c, n |-> m_sent[c] + 1, eid |-> ReadEID(c, m_sent[c] + 1)]
      BY DEF Nth
    <3> QED
      BY <1>2, <2>1, <3>1, SendStep DEF Read, Call, Inv, Types
  <2>2. CASE ~ (m_sent[c] < m_count[c])
    BY <1>2, <2>2, EndStep DEF Read, Call
  <2> QED
    BY <2>1, <2>2
<1>3. CASE UNCHANGED vars
  <2>1. Types' /\ Chains'
    BY <1>3 DEF vars, Inv, Types, Chains, Kinds, Limit
  <2>2. Numbered'
    BY <1>3 DEF vars, Inv, Numbered, Nth, WriteEID, ReadEID, Kinds
  <2>3. NumbersUsedOnce' /\ NoneLeftOut'
    BY <1>3 DEF vars, Inv, NumbersUsedOnce, NoneLeftOut
  <2> QED
    BY <2>1, <2>2, <2>3 DEF Inv
<1> QED
  BY <1>1, <1>2, <1>3, StartStep, StopStep DEF Next

LEMMA Invariance == Spec => []Inv
<1> QED
  BY InvInit, InvStep, PTL DEF Spec

-----------------------------------------------------------------------------
(* Writers.                                                                  *)

\* The writing clients have different numbers that fit into a byte
\* (multicast.cc gives the i-th writer the number i).
WritersApart ==
  \A c, d \in {w \in Client : function_type[w] # "Read"} :
    switch_index[c] < Byte /\ (switch_index[c] = switch_index[d] => c = d)

\* No group is written twice, however the chains of all clients interleave and
\* although a client of type All reads and writes on one counter: the hundreds of
\* EID_UNIT fit into a byte, and no number is used twice.
THEOREM GroupsWrittenOnceAlways == WritersApart => (Spec => []GroupsWrittenOnce)
<1> SUFFICES ASSUME WritersApart PROVE Spec => []GroupsWrittenOnce
  OBVIOUS
<1>1. Inv => GroupsWrittenOnce
  <2> SUFFICES ASSUME Inv, NEW x \in sent, NEW y \in sent,
                      x.kind = "Write", y.kind = "Write", x.eid = y.eid
               PROVE  x = y
    BY DEF GroupsWrittenOnce
  <2>1. ASSUME NEW z \in sent, z.kind = "Write"
        PROVE  \E c \in Client, n \in Nat :
                 /\ z.who = c /\ z.n = n /\ z.eid = WriteEID(c, n)
                 /\ function_type[c] # "Read" /\ n <= EID_UNIT
    <3>1. PICK c \in Client, n \in Nat, kind \in {"Write", "Read"} :
            z = Nth(kind, c, n) /\ 1 <= n /\ n <= m_sent[c] /\ kind \in Kinds(c)
      BY DEF Inv, Numbered
    <3>2. kind = "Write" /\ z.who = c /\ z.n = n /\ z.eid = WriteEID(c, n)
      BY <2>1, <3>1 DEF Nth
    <3>3. function_type[c] \in {"Write", "All"}
      BY <3>1, <3>2, ClientAssumption DEF Kinds
    <3>4. Limit(c) \in Nat /\ Limit(c) <= EID_UNIT
      BY <3>3, HundredsFacts DEF Limit
    <3>5. m_sent[c] \in Nat /\ m_sent[c] <= Limit(c)
      <4>1. m_sent[c] \in Nat /\ m_sent[c] # 0
        BY <3>1 DEF Inv, Types
      <4> QED
        BY <4>1 DEF Inv, Chains
    <3>6. n <= EID_UNIT
      BY <3>1, <3>4, <3>5, HundredsFacts
    <3> QED
      BY <3>2, <3>3, <3>6
  <2>2. PICK c \in Client, m \in Nat :
          /\ x.who = c /\ x.n = m /\ x.eid = WriteEID(c, m)
          /\ function_type[c] # "Read" /\ m <= EID_UNIT
    BY <2>1
  <2>3. PICK d \in Client, n \in Nat :
          /\ y.who = d /\ y.n = n /\ y.eid = WriteEID(d, n)
          /\ function_type[d] # "Read" /\ n <= EID_UNIT
    BY <2>1
  <2>4. m = n /\ switch_index[c] % Byte = switch_index[d] % Byte
    <3>1. WriteEID(c, m) = WriteEID(d, n)
      BY <2>2, <2>3, Zenon
    <3>2. m <= EID_UNIT /\ n <= EID_UNIT
      BY <2>2, <2>3
    <3> QED
      BY <3>1, <3>2, WriteEIDApart
  <2>5. /\ switch_index[c] \in Nat /\ switch_index[c] < Byte
        /\ switch_index[d] \in Nat /\ switch_index[d] < Byte
    BY <2>2, <2>3, ClientAssumption DEF WritersApart
  <2>6. switch_index[c] = switch_index[d]
    BY <2>4, <2>5, ModSmall, HundredsFacts
  <2>7. c = d
    BY <2>2, <2>3, <2>6 DEF WritersApart
  <2> QED
    BY <2>2, <2>3, <2>4, <2>7 DEF Inv, NumbersUsedOnce
<1> QED
  BY <1>1, Invariance, PTL

-----------------------------------------------------------------------------
(* Readers.                                                                  *)

\* Every number below total_switch_num is that of a writer.
WritersComplete ==
  \A i \in 0 .. total_switch_num - 1 :
    \E w \in Client : function_type[w] = "Write" /\ switch_index[w] = i

\* The number of a read is that of a group, unless both its digits are 0.
LEMMA ReadEIDNamesGroup ==
  ASSUME WritersComplete, NEW c \in Client, NEW n \in Nat,
         <<ReadEID(c, n)[2], ReadEID(c, n)[3]>> # <<0, 0>>
  PROVE  ReadEID(c, n) \in Groups
<1> DEFINE i == ((n \div EID_UNIT + switch_index[c]) % Byte) % total_switch_num
<1> DEFINE h == ((n \div Base) % Byte) % Hundreds
<1> DEFINE r == n % Base
<1> DEFINE k == Base * h + r
<1>1. ReadEID(c, n) = <<i, h, r>>
  BY DEF ReadEID, Hundreds
<1>2. /\ i \in Nat /\ i < total_switch_num /\ i < Byte
  <2> DEFINE a == n \div EID_UNIT + switch_index[c]
  <2>1. a \in Nat
    BY DivMod, HundredsFacts, ClientAssumption
  <2> HIDE DEF a
  <2>2. a % Byte \in Nat /\ a % Byte < Byte
    BY <2>1, DivMod, HundredsFacts
  <2> DEFINE b == a % Byte
  <2> HIDE DEF b
  <2>3. b % total_switch_num \in Nat /\ b % total_switch_num < total_switch_num
        /\ b % total_switch_num <= b
    BY <2>2, DivMod, HundredsFacts DEF b
  <2> QED
    BY <2>2, <2>3, HundredsFacts DEF a, b
<1>3. h \in Nat /\ h < Hundreds
  <2> DEFINE a == n \div Base
  <2>1. a \in Nat
    BY DivMod, HundredsFacts
  <2> HIDE DEF a
  <2> DEFINE b == a % Byte
  <2>2. b \in Nat
    BY <2>1, DivMod, HundredsFacts
  <2> HIDE DEF b
  <2>3. b % Hundreds \in Nat /\ b % Hundreds < Hundreds
    BY <2>2, DivMod, HundredsFacts
  <2> QED
    BY <2>3 DEF a, b
<1>4. r \in Nat /\ r < Base
  BY DivMod, HundredsFacts
<1>5. h # 0 \/ r # 0
  BY <1>1
<1> HIDE DEF i, h, r
<1>6. k \in Nat /\ k >= 1 /\ k <= EID_UNIT
  <2>1. Base \in Nat \ {0} /\ Hundreds \in Nat /\ EID_UNIT = Base * Hundreds
    BY HundredsFacts
  <2>2. Base * h \in Nat /\ (h # 0 => Base * h >= 1)
    BY <1>3, <2>1
  <2>3. Base * (h + 1) <= Base * Hundreds
    BY <1>3, <2>1
  <2>4. Base * (h + 1) = Base * h + Base
    BY <1>3, <2>1
  <2> QED
    BY <1>4, <1>5, <2>1, <2>2, <2>3, <2>4
<1>7. k \div Base = h /\ k % Base = r
  BY <1>3, <1>4, <1>6, DivModUnique, HundredsFacts
<1> HIDE DEF k
<1>8. PICK w \in Client : function_type[w] = "Write" /\ switch_index[w] = i
  <2>1. i \in 0 .. total_switch_num - 1
    BY <1>2, HundredsFacts
  <2> QED
    BY <2>1 DEF WritersComplete
<1>9. i % Byte = i /\ h % Byte = h
  BY <1>2, <1>3, HundredsFacts, ModSmall
<1>10. WriteEID(w, k) = <<i, h, r>>
  BY <1>7, <1>8, <1>9 DEF WriteEID
<1>11. k \in 1 .. EID_UNIT /\ switch_index[w] < total_switch_num
  BY <1>2, <1>6, <1>8, HundredsFacts
<1>12. WriteEID(w, k) \in Groups
  BY <1>8, <1>11 DEF Groups
<1> QED
  BY <1>1, <1>10, <1>12

\* A reader, or a client that reads and writes, only asks for groups that some
\* writer writes, whatever its own number: casts and moduli keep both digits in
\* the writers' range, and only the group numbered 0 is one nobody writes.
THEOREM ReadsNameGroupsAlways == WritersComplete => (Spec => []ReadsNameGroups)
<1> SUFFICES ASSUME WritersComplete PROVE Spec => []ReadsNameGroups
  OBVIOUS
<1>1. Inv => ReadsNameGroups
  <2> SUFFICES ASSUME Inv, NEW x \in sent, x.kind = "Read",
                      <<x.eid[2], x.eid[3]>> # <<0, 0>>
               PROVE  x.eid \in Groups
    BY DEF ReadsNameGroups
  <2>1. PICK c \in Client, n \in Nat, kind \in {"Write", "Read"} : x = Nth(kind, c, n)
    BY DEF Inv, Numbered
  <2>2. x.eid = ReadEID(c, n)
    BY <2>1 DEF Nth
  <2> QED
    BY <2>2, ReadEIDNamesGroup
<1> QED
  BY <1>1, Invariance, PTL

\* A reader's own number leaves room in a byte for those of the writers.
ReadersFit ==
  \A c \in Client : function_type[c] = "Read" => switch_index[c] + total_switch_num <= Byte

\* Counting j from a reader's number s goes round all t writers.
LEMMA GoesRound ==
  ASSUME NEW t \in Nat \ {0}, NEW s \in Nat, NEW w \in Nat, w < t
  PROVE  \E j \in Nat : j < t /\ (j + s) % t = w
<1> DEFINE q == s \div t
<1> DEFINE r == s % t
<1>1. q \in Nat /\ r \in Nat /\ r < t /\ s = t * q + r
  BY DivMod
<1> HIDE DEF q, r
<1>2. CASE r <= w
  <2> DEFINE j == w - r
  <2> DEFINE a == j + s
  <2>1. j \in Nat /\ j < t /\ a = t * q + w /\ a \in Nat
    BY <1>1, <1>2
  <2> HIDE DEF j, a
  <2>2. a % t = w
    BY <1>1, <2>1, DivModUnique
  <2> QED
    BY <2>1, <2>2 DEF a
<1>3. CASE w < r
  <2> DEFINE j == w + t - r
  <2> DEFINE a == j + s
  <2> DEFINE b == q + 1
  <2>1. j \in Nat /\ j < t /\ a = t * q + t + w /\ a \in Nat
    BY <1>1, <1>3
  <2>2. t * b = t * q + t /\ b \in Nat
    BY <1>1
  <2> HIDE DEF j, a, b
  <2>3. a % t = w
    BY <1>1, <2>1, <2>2, DivModUnique
  <2> QED
    BY <2>1, <2>3 DEF a
<1> QED
  BY <1>1, <1>2, <1>3

\* A reader meets group n of writer w within its total_switch_num * EID_UNIT
\* numbers, provided that all their hundreds fit into a byte.
LEMMA ReadEIDReaches ==
  ASSUME NEW c \in Client, switch_index[c] + total_switch_num <= Byte,
         total_switch_num * EID_UNIT < Byte * Base,
         NEW w \in Nat, w < total_switch_num, NEW n \in Nat, n < EID_UNIT
  PROVE  \E j \in Nat : /\ j < total_switch_num
                        /\ ReadEID(c, EID_UNIT * j + n) = <<w, n \div Base, n % Base>>
<1> DEFINE s == switch_index[c]
<1> DEFINE T == total_switch_num
<1> DEFINE U == EID_UNIT
<1> DEFINE H == Hundreds
<1> DEFINE p == n \div Base
<1> DEFINE r == n % Base
<1>1. /\ s \in Nat /\ s + T <= Byte /\ w < T /\ n < U /\ T * U < Byte * Base
      /\ T \in Nat \ {0} /\ U \in Nat \ {0} /\ H \in Nat \ {0}
      /\ Base \in Nat \ {0} /\ Byte \in Nat \ {0} /\ U = Base * H
  BY ClientAssumption, HundredsFacts
<1>2. p \in Nat /\ r \in Nat /\ r < Base /\ n = Base * p + r
  BY <1>1, DivMod
<1>3. PICK j \in Nat : j < T /\ (j + s) % T = w
  BY <1>1, GoesRound
<1> DEFINE k == U * j + n
<1>4. ReadEID(c, EID_UNIT * j + n)
        = <<((k \div U + s) % Byte) % T, ((k \div Base) % Byte) % H, k % Base>>
  BY DEF ReadEID, Hundreds
<1>5. <<w, n \div Base, n % Base>> = <<w, p, r>>
  OBVIOUS
<1> HIDE DEF s, T, U, H, p, r
<1>6. k \in Nat /\ k < U * (j + 1) /\ U * (j + 1) <= T * U
  <2>1. U * j \in Nat /\ U * (j + 1) = U * j + U
    BY <1>1
  <2>2. U * (j + 1) <= U * T
    BY <1>1, <1>3
  <2> QED
    BY <1>1, <2>1, <2>2
<1>7. k \div U = j
  BY <1>1, <1>6, DivModUnique
<1> DEFINE g == H * j + p
<1>8. g \in Nat /\ k = Base * g + r
  <2>1. H * j \in Nat /\ Base * g = Base * (H * j) + Base * p
    BY <1>1, <1>2
  <2>2. Base * (H * j) = U * j
    BY <1>1
  <2> QED
    BY <1>1, <1>2, <2>1, <2>2
<1>9. p < H
  <2> SUFFICES ASSUME p >= H PROVE FALSE
    BY <1>1, <1>2
  <2>1. Base * p >= Base * H
    BY <1>1, <1>2
  <2> QED
    BY <1>1, <1>2, <2>1
<1>10. g = H * j + p
  OBVIOUS
<1> HIDE DEF k, g
<1>11. g % H = p
  <2>1. H \in Nat \ {0} /\ p \in Nat /\ p < H /\ g \in Nat /\ g = H * j + p
    BY <1>1, <1>2, <1>10, <1>8, <1>9
  <2> QED
    BY <2>1, DivModUnique
<1>12. k \div Base = g /\ k % Base = r
  <2>1. /\ Base \in Nat \ {0} /\ g \in Nat /\ r \in Nat /\ r < Base
        /\ k \in Nat /\ k = Base * g + r
    BY <1>1, <1>2, <1>6, <1>8
  <2> QED
    BY <2>1, DivModUnique, SMTT(30)
<1>13. g < Byte
  <2> SUFFICES ASSUME g >= Byte PROVE FALSE
    BY <1>1, <1>8
  <2>1. Base * g >= Base * Byte
    BY <1>1, <1>8
  <2>2. k < Byte * Base /\ Byte * Base = Base * Byte
    BY <1>1, <1>6
  <2> QED
    BY <1>1, <1>2, <1>6, <1>8, <2>1, <2>2
<1>14. g % Byte = g /\ (j + s) % Byte = j + s
  <2>1. j + s \in Nat /\ j + s < Byte
    BY <1>1, <1>3
  <2> QED
    BY <1>1, <1>8, <1>13, <2>1, ModSmall
<1>15. ReadEID(c, EID_UNIT * j + n) = <<w, p, r>>
  BY <1>3, <1>4, <1>7, <1>11, <1>12, <1>14
<1> QED
  BY <1>3, <1>5, <1>15 DEF T

\* The hundreds of all the groups fit into the byte that Read keeps them in.  At
\* 7000 groups a writer this allows three writers; with the more of the shipped
\* experiment the cast wraps and readers leave groups out.
HundredsFit == total_switch_num * EID_UNIT < Byte * Base

\* Where the numbers of the writers and the hundreds of the groups fit into a
\* byte, a reader that has come to its end has asked every writer for every
\* group but the last, in whatever order the chains of the clients ran: its
\* numbers leave none out, and each writer's come round once.
THEOREM SweepCompleteAlways == ReadersFit /\ HundredsFit => (Spec => []SweepComplete)
<1> SUFFICES ASSUME ReadersFit, HundredsFit PROVE Spec => []SweepComplete
  OBVIOUS
<1>1. Inv => SweepComplete
  <2> SUFFICES ASSUME Inv, NEW c \in Client,
                      function_type[c] = "Read", status[c] # "created", m_sent[c] = m_count[c],
                      NEW w \in 0 .. total_switch_num - 1, NEW n \in 1 .. EID_UNIT - 1
               PROVE  <<w, n \div Base, n % Base>> \in ReadBy(c)
    BY DEF SweepComplete
  <2>1. /\ w \in Nat /\ w < total_switch_num /\ n \in Nat /\ 1 <= n /\ n < EID_UNIT
        /\ switch_index[c] + total_switch_num <= Byte
    BY HundredsFacts DEF ReadersFit
  <2>2. PICK j \in Nat : /\ j < total_switch_num
                         /\ ReadEID(c, EID_UNIT * j + n) = <<w, n \div Base, n % Base>>
    BY <2>1, ReadEIDReaches DEF HundredsFit
  <2> DEFINE k == EID_UNIT * j + n
  <2>3. m_sent[c] = total_switch_num * EID_UNIT
    BY DEF Inv, Chains, Limit
  <2>4. k \in Nat /\ 1 <= k /\ k <= m_sent[c]
    <3>1. EID_UNIT \in Nat \ {0} /\ total_switch_num \in Nat
      BY HundredsFacts
    <3>2. EID_UNIT * j \in Nat /\ EID_UNIT * (j + 1) = EID_UNIT * j + EID_UNIT
      BY <3>1
    <3>3. EID_UNIT * (j + 1) <= EID_UNIT * total_switch_num
      BY <2>2, <3>1
    <3>4. EID_UNIT * total_switch_num = total_switch_num * EID_UNIT
      BY <3>1
    <3> QED
      BY <2>1, <2>3, <3>1, <3>2, <3>3, <3>4
  <2>5. ReadEID(c, k) = <<w, n \div Base, n % Base>>
    BY <2>2
  <2> HIDE DEF k
  <2>6. PICK x \in sent : x.who = c /\ x.n = k
    BY <2>4 DEF Inv, NoneLeftOut
  <2>7. PICK d \in Client, m \in Nat, kind \in {"Write", "Read"} :
          x = Nth(kind, d, m) /\ kind \in Kinds(d)
    BY DEF Inv, Numbered
  <2>8. d = c /\ m = k /\ kind = "Read"
    BY <2>6, <2>7 DEF Nth, Kinds
  <2>9. x.kind = "Read" /\ x.eid = ReadEID(c, k)
    BY <2>7, <2>8 DEF Nth
  <2>10. x.eid \in ReadBy(c)
    BY <2>6, <2>9 DEF ReadBy
  <2> QED
    BY <2>5, <2>9, <2>10
<1> QED
  BY <1>1, Invariance, PTL
=============================================================================
