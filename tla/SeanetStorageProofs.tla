------------------------- MODULE SeanetStorageProofs -------------------------
(***************************************************************************)
(* Proofs about SeanetStorage for any number of switches, clients and EIDs, *)
(* any queue limit and table size, with or without loss and stops.          *)
(***************************************************************************)
EXTENDS SeanetStorage, TLAPS

-----------------------------------------------------------------------------
(* The inductive invariant.                                                  *)

Asks == {"RESEIVE_DATA", "REQUEST_EID_NA", "REQUEST_DATA"}

\* What holds of every packet on its way or in a queue.  Beyond the checked
\* properties: a request comes from the client that began the exchange, and
\* data comes from a switch.
SoundPacket ==
  {p \in Packet :
    /\ Handled(p)
    /\ p.kind \in Asks => p.src = p.id[1]
    /\ p.kind = "REPLY_DATA" => p.src \in Switch
    /\ p.kind \in {"REPLY_EID_NA", "REPLY_DATA"} => p.dst = p.id[1]
    /\ p.kind = "REGIST_EID_NA" => Stores(p.src, p.eid)
    /\ p.kind = "REQUEST_DATA" => Stores(p.dst, p.eid)
    /\ \A i \in 1..Len(p.list) : Stores(p.list[i], p.eid)}

PacketsSound == Packets \subseteq SoundPacket

\* TypeOK without what it says of single packets.
StateOK ==
  /\ status \in [Node -> {"created", "running", "stopped"}]
  /\ packetin \in [Server -> Seq(Packet)]
  /\ addressin \in [Server -> Seq(Node)]
  /\ \A s \in Server : Len(packetin[s]) <= MaxSize
  /\ m_eid_table \in [Switch -> SUBSET EID]
  /\ m_eid_na_table \in [EID -> Seq(Switch)]
  /\ \A e \in EID : Len(m_eid_na_table[e]) <= TableSize
  /\ m_sendEvent \in [Client -> {"Write", "Read", "expired"}]
  /\ m_readEvent \in [Client -> {"Write", "expired"}]
  /\ sends \in [Client -> 0..MaxSends]
  /\ answered \subseteq Client \X (Client \X Nat) \X Switch

TableStored ==
  \A e \in EID : \A i \in 1..Len(m_eid_na_table[e]) : Stores(m_eid_na_table[e][i], e)

AnsweredAskers == \A x \in answered : x[1] = x[2][1]

\* A client that was not started has no event.
CreatedIdle ==
  \A c \in Client :
    status[c] = "created" => m_sendEvent[c] = "expired" /\ m_readEvent[c] = "expired"

Inv ==
  /\ StateOK
  /\ PacketsSound
  /\ QueuesInStep
  /\ TableStored
  /\ AnsweredAskers
  /\ EventsAlternate
  /\ CreatedIdle

\* The inductive invariant contains every property that the runs check.
LEMMA InvImplies ==
  Inv => TypeOK /\ QueuesInStep /\ RegisteredHaveStored /\ AnswersReachAsker /\ EventsAlternate
<1> SUFFICES ASSUME Inv
             PROVE  TypeOK /\ QueuesInStep /\ RegisteredHaveStored /\ AnswersReachAsker
                      /\ EventsAlternate
  OBVIOUS
<1>1. Packets \subseteq SoundPacket
  BY DEF Inv, PacketsSound
<1>2. net \subseteq Packet
  BY <1>1 DEF Packets, SoundPacket
<1>3. TypeOK
  BY <1>1, <1>2 DEF Inv, StateOK, TypeOK, SoundPacket
<1>4. RegisteredHaveStored
  BY <1>1 DEF Inv, TableStored, RegisteredHaveStored, SoundPacket
<1>5. AnswersReachAsker
  BY <1>1 DEF Inv, AnsweredAskers, AnswersReachAsker, SoundPacket
<1> QED
  BY <1>3, <1>4, <1>5 DEF Inv

-----------------------------------------------------------------------------
(* The queues and the address list.                                          *)

\* Enqueue adds its argument at the end or, at the limit, nothing.
LEMMA EnqueueProperties ==
  ASSUME NEW S, NEW q \in Seq(S), NEW x \in S, Len(q) <= MaxSize
  PROVE  /\ Enqueue(q, x) \in Seq(S)
         /\ Len(Enqueue(q, x)) <= MaxSize
         /\ Len(Enqueue(q, x)) = IF Len(q) < MaxSize THEN Len(q) + 1 ELSE Len(q)
         /\ \A i \in 1..Len(q) : Enqueue(q, x)[i] = q[i]
         /\ Len(q) < MaxSize => Enqueue(q, x)[Len(q) + 1] = x
<1>1. MaxSize \in Nat /\ Len(q) \in Nat
  BY StorageAssumption
<1>2. CASE Len(q) < MaxSize
  BY <1>1, <1>2 DEF Enqueue
<1>3. CASE ~(Len(q) < MaxSize)
  BY <1>1, <1>3 DEF Enqueue
<1> QED
  BY <1>2, <1>3

\* Dequeue takes the first element away and moves the others up by one place.
LEMMA DequeueProperties ==
  ASSUME NEW S, NEW q \in Seq(S)
  PROVE  /\ Dequeue(q) \in Seq(S)
         /\ Len(Dequeue(q)) = IF q = <<>> THEN 0 ELSE Len(q) - 1
         /\ Len(Dequeue(q)) <= Len(q)
         /\ \A i \in 1..Len(Dequeue(q)) : Dequeue(q)[i] = q[i + 1] /\ i + 1 \in 1..Len(q)
<1>1. CASE q = <<>>
  BY <1>1 DEF Dequeue
<1>2. CASE q # <<>>
  BY <1>2 DEF Dequeue
<1> QED
  BY <1>1, <1>2

\* AddEIDNATable adds the address at the end or, when the slots are taken,
\* nothing.
LEMMA AddEIDNATableProperties ==
  ASSUME NEW list \in Seq(Switch), NEW a \in Switch, Len(list) <= TableSize
  PROVE  /\ AddEIDNATable(list, a) \in Seq(Switch)
         /\ Len(AddEIDNATable(list, a)) <= TableSize
         /\ \A i \in 1..Len(AddEIDNATable(list, a)) :
              \/ AddEIDNATable(list, a)[i] = a
              \/ i \in 1..Len(list) /\ AddEIDNATable(list, a)[i] = list[i]
<1>1. TableSize \in Nat /\ Len(list) \in Nat
  BY StorageAssumption
<1>2. CASE Len(list) < TableSize
  <2>1. AddEIDNATable(list, a) = Append(list, a)
    BY <1>2 DEF AddEIDNATable
  <2>2. /\ Append(list, a) \in Seq(Switch)
        /\ Len(Append(list, a)) = Len(list) + 1
        /\ \A i \in 1..Len(list) : Append(list, a)[i] = list[i]
        /\ Append(list, a)[Len(list) + 1] = a
    OBVIOUS
  <2>3. \A i \in 1..Len(list) + 1 : i \in 1..Len(list) \/ i = Len(list) + 1
    BY <1>1
  <2> QED
    BY <1>1, <1>2, <2>1, <2>2, <2>3
<1>3. CASE ~(Len(list) < TableSize)
  BY <1>1, <1>3 DEF AddEIDNATable
<1> QED
  BY <1>2, <1>3

\* What a switch stores, it keeps: a packet that was sound stays sound, so a
\* step preserves PacketsSound if the packets it adds are sound.
LEMMA SoundStays ==
  ASSUME PacketsSound, NEW New, New \subseteq SoundPacket',
         \A n \in Switch : m_eid_table[n] \subseteq m_eid_table'[n],
         Packets' \subseteq Packets \cup New
  PROVE  PacketsSound'
<1>1. SoundPacket \subseteq SoundPacket'
  BY DEF SoundPacket, Handled, Stores
<1> QED
  BY <1>1 DEF PacketsSound

\* A step that leaves the queues alone has no packets but the old ones and those
\* it sends.
LEMMA PacketsSent ==
  ASSUME NEW New, net' \subseteq net \cup New, UNCHANGED packetin
  PROVE  Packets' \subseteq Packets \cup New
<1>1. UNION {Queued(s) : s \in Server}' = UNION {Queued(s) : s \in Server}
  BY DEF Queued
<1> QED
  BY <1>1 DEF Packets

-----------------------------------------------------------------------------
(* One lemma per kind of step.                                               *)

\* Start and stop of a server touch neither packets nor clients.
LEMMA ServerStatusStep ==
  ASSUME Inv, NEW s \in Server, StartServer(s) \/ StopServer(s)
  PROVE  Inv'
<1> USE DEF StartServer, StopServer, queueVars, tableVars, clientVars
<1>1. s \in Node /\ s \notin Client
  BY StorageAssumption DEF Node
<1>2. /\ UNCHANGED <<packetin, addressin, m_eid_table, m_eid_na_table, m_sendEvent, m_readEvent,
                     sends, net, answered>>
      /\ \/ status' = [status EXCEPT ![s] = "running"]
         \/ status' = [status EXCEPT ![s] = "stopped"]
  OBVIOUS
<1>3. StateOK'
  BY <1>1, <1>2 DEF Inv, StateOK
<1>4. \A c \in Client : status'[c] = status[c]
  BY <1>1, <1>2 DEF Inv, StateOK, Node
<1>5. PacketsSound'
  <2>1. Packets' \subseteq Packets \cup {}
    BY <1>2, PacketsSent
  <2>2. \A n \in Switch : m_eid_table[n] \subseteq m_eid_table'[n]
    BY <1>2
  <2> QED
    BY <2>1, <2>2, SoundStays DEF Inv
<1>6. QueuesInStep' /\ TableStored' /\ AnsweredAskers'
  BY <1>2 DEF Inv, QueuesInStep, TableStored, AnsweredAskers, Stores
<1>7. EventsAlternate' /\ CreatedIdle'
  BY <1>2, <1>4 DEF Inv, EventsAlternate, CreatedIdle
<1> QED
  BY <1>3, <1>5, <1>6, <1>7 DEF Inv

\* Start and stop of a client schedule or cancel its events.
LEMMA ClientStatusStep ==
  ASSUME Inv, NEW c \in Client, StartClient(c) \/ StopClient(c)
  PROVE  Inv'
<1>1. c \in Node
  BY DEF Node
<1>2. UNCHANGED <<packetin, addressin, m_eid_table, m_eid_na_table, sends, net, answered>>
  BY DEF StartClient, StopClient, queueVars, tableVars
<1>3. StateOK'
  BY <1>1, <1>2 DEF Inv, StateOK, StartClient, StopClient
<1>5. PacketsSound'
  <2>1. Packets' \subseteq Packets \cup {}
    BY <1>2, PacketsSent
  <2>2. \A n \in Switch : m_eid_table[n] \subseteq m_eid_table'[n]
    BY <1>2
  <2> QED
    BY <2>1, <2>2, SoundStays DEF Inv
<1>6. QueuesInStep' /\ TableStored' /\ AnsweredAskers'
  BY <1>2 DEF Inv, QueuesInStep, TableStored, AnsweredAskers, Stores
<1>7. \A d \in Client :
        \/ /\ d # c
           /\ status'[d] = status[d]
           /\ m_sendEvent'[d] = m_sendEvent[d] /\ m_readEvent'[d] = m_readEvent[d]
        \/ /\ status'[d] = "running"
           /\ m_sendEvent'[d] = "Write" /\ m_readEvent'[d] = "expired"
        \/ /\ status'[d] = "stopped"
           /\ m_sendEvent'[d] = "expired" /\ m_readEvent'[d] = "expired"
  <2> SUFFICES ASSUME NEW d \in Client
               PROVE  \/ /\ d # c
                         /\ status'[d] = status[d]
                         /\ m_sendEvent'[d] = m_sendEvent[d] /\ m_readEvent'[d] = m_readEvent[d]
                      \/ /\ status'[d] = "running"
                         /\ m_sendEvent'[d] = "Write" /\ m_readEvent'[d] = "expired"
                      \/ /\ status'[d] = "stopped"
                         /\ m_sendEvent'[d] = "expired" /\ m_readEvent'[d] = "expired"
    OBVIOUS
  <2>1. d \in Node
    BY DEF Node
  <2>2. CASE StartClient(c)
    BY <2>1, <2>2 DEF Inv, StateOK, StartClient, CreatedIdle
  <2>3. CASE StopClient(c)
    BY <2>1, <2>3 DEF Inv, StateOK, StopClient
  <2> QED
    BY <2>2, <2>3
<1>8. EventsAlternate' /\ CreatedIdle'
  BY <1>7 DEF Inv, EventsAlternate, CreatedIdle
<1> QED
  BY <1>3, <1>5, <1>6, <1>8 DEF Inv

\* Write and Read send one packet of the client's own and hand the turn over.
LEMMA ClientSendStep ==
  ASSUME Inv, NEW c \in Client, Write(c) \/ Read(c)
  PROVE  Inv'
<1>1. PICK kind, to :
        /\ Begin(c, kind, to)
        /\ \/ kind = "RESEIVE_DATA" /\ to = Home[c]
           \/ kind = "REQUEST_EID_NA" /\ to = Res
  BY DEF Write, Read
<1> DEFINE m == [kind |-> kind, eid |-> TheEID, id |-> <<c, sends[c]>>,
                 src |-> c, dst |-> to, list |-> <<>>]
<1>2. /\ UNCHANGED <<status, packetin, addressin, m_eid_table, m_eid_na_table, answered>>
      /\ sends' = [sends EXCEPT ![c] = @ + 1]
      /\ sends[c] < MaxSends
      /\ net' = net \cup {m}
  BY <1>1 DEF Begin, queueVars, tableVars
<1>3. /\ m_sendEvent' \in [Client -> {"Write", "Read", "expired"}]
      /\ m_readEvent' \in [Client -> {"Write", "expired"}]
      /\ \A d \in Client \ {c} :
           m_sendEvent'[d] = m_sendEvent[d] /\ m_readEvent'[d] = m_readEvent[d]
      /\ \/ m_sendEvent[c] # "expired"
         \/ m_readEvent[c] # "expired"
      /\ "expired" \in {m_sendEvent'[c], m_readEvent'[c]}
  BY DEF Inv, StateOK, Write, Read, Rescheduled
<1>4. sends' \in [Client -> 0..MaxSends]
  BY <1>2, StorageAssumption DEF Inv, StateOK
<1>5. StateOK'
  BY <1>2, <1>3, <1>4 DEF Inv, StateOK
<1>6. m \in SoundPacket'
  <2>1. c \in Node /\ to \in Node
    BY <1>1, StorageAssumption DEF Node, Server
  <2>2. sends[c] \in Nat
    BY StorageAssumption DEF Inv, StateOK
  <2>3. m \in Packet
    BY <1>1, <2>1, <2>2, StorageAssumption DEF Packet, Kind
  <2>4. Handled(m)
    BY <1>1, StorageAssumption DEF Handled
  <2>5. m.id[1] = c /\ Len(m.list) = 0
    OBVIOUS
  <2> QED
    BY <1>1, <2>3, <2>4, <2>5 DEF SoundPacket, Handled
<1>7. PacketsSound'
  <2>1. Packets' \subseteq Packets \cup {m}
    BY <1>2, PacketsSent
  <2>2. \A n \in Switch : m_eid_table[n] \subseteq m_eid_table'[n]
    BY <1>2
  <2> QED
    BY <1>6, <2>1, <2>2, SoundStays DEF Inv
<1>8. QueuesInStep' /\ TableStored' /\ AnsweredAskers'
  BY <1>2 DEF Inv, QueuesInStep, TableStored, AnsweredAskers, Stores
<1>9. status[c] # "created" /\ status[c] # "stopped"
  BY <1>3 DEF Inv, EventsAlternate, CreatedIdle
<1>10. EventsAlternate' /\ CreatedIdle'
  BY <1>2, <1>3, <1>9 DEF Inv, EventsAlternate, CreatedIdle
<1> QED
  BY <1>5, <1>7, <1>8, <1>10 DEF Inv

\* A client consumes a reply, a packet is lost or refused: the queues and the
\* tables stay.
LEMMA ConsumeStep ==
  ASSUME Inv, NEW p \in net, ReceiveCallback(p) \/ Unbound(p) \/ Lose(p)
  PROVE  Inv'
<1> DEFINE ask == Message("REQUEST_DATA", p, p.dst, p.list[1], <<>>)
<1>1. UNCHANGED <<status, packetin, addressin, m_eid_table, m_eid_na_table, m_sendEvent,
                  m_readEvent, sends>>
  BY DEF ReceiveCallback, ResolutionReplyHandle, SwitchReplyHandle, Unbound, Lose,
         queueVars, tableVars, clientVars
<1>2. p \in SoundPacket
  BY DEF Inv, PacketsSound, Packets
<1>3. answered' \subseteq Client \X (Client \X Nat) \X Switch /\ AnsweredAskers'
  <2>1. CASE SwitchReplyHandle(p)
    <3>1. /\ <<p.dst, p.id, p.src>> \in Client \X (Client \X Nat) \X Switch
          /\ p.dst = p.id[1]
      BY <1>2, <2>1 DEF SwitchReplyHandle, SoundPacket, Packet
    <3> QED
      BY <2>1, <3>1 DEF SwitchReplyHandle, Inv, StateOK, AnsweredAskers
  <2>2. CASE UNCHANGED answered
    BY <2>2 DEF Inv, StateOK, AnsweredAskers
  <2> QED
    BY <2>1, <2>2 DEF ReceiveCallback, ResolutionReplyHandle, Unbound, Lose
<1>4. StateOK'
  BY <1>1, <1>3 DEF Inv, StateOK
<1>5. PacketsSound'
  <2>0. \A n \in Switch : m_eid_table[n] \subseteq m_eid_table'[n]
    BY <1>1
  <2>1. CASE net' \subseteq net
    <3>1. Packets' \subseteq Packets \cup {}
      BY <1>1, <2>1, PacketsSent
    <3> QED
      BY <2>0, <3>1, SoundStays DEF Inv
  <2>2. CASE ResolutionReplyHandle(p) /\ p.list # <<>>
    <3>1. Packets' \subseteq Packets \cup {ask}
      BY <1>1, <2>2, PacketsSent DEF ResolutionReplyHandle
    <3>2. /\ p.list \in Seq(Switch) /\ 1 \in 1..Len(p.list)
          /\ p.dst \in Client /\ p.dst = p.id[1]
      BY <1>2, <2>2 DEF ResolutionReplyHandle, SoundPacket, Packet
    <3>3. p.list[1] \in Switch /\ Stores(p.list[1], p.eid)
      BY <1>2, <3>2 DEF SoundPacket
    <3>4. ask \in Packet
      BY <1>2, <3>2, <3>3 DEF SoundPacket, Packet, Kind, Message, Node, Server
    <3>5. Stores(p.list[1], p.eid)'
      BY <1>1, <3>3 DEF Stores
    <3>6. ask \in SoundPacket'
      BY <3>2, <3>3, <3>4, <3>5 DEF SoundPacket, Handled, Message
    <3> QED
      BY <2>0, <3>1, <3>6, SoundStays DEF Inv
  <2> QED
    BY <2>1, <2>2 DEF ReceiveCallback, ResolutionReplyHandle, SwitchReplyHandle, Unbound, Lose
<1>6. QueuesInStep' /\ TableStored' /\ EventsAlternate' /\ CreatedIdle'
  BY <1>1 DEF Inv, QueuesInStep, TableStored, Stores, EventsAlternate, CreatedIdle
<1> QED
  BY <1>3, <1>4, <1>5, <1>6 DEF Inv

\* FrontEnd moves a packet and its sender from the network to the two queues, or
\* drops both: the queues have the same length and the same limit.
LEMMA FrontEndStep ==
  ASSUME Inv, NEW p \in net, FrontEnd(p)
  PROVE  Inv'
<1> DEFINE d == p.dst
<1>1. UNCHANGED <<status, m_eid_table, m_eid_na_table, m_sendEvent, m_readEvent, sends, answered>>
  BY DEF FrontEnd, tableVars, clientVars
<1>2. p \in SoundPacket /\ p \in Packet /\ d \in Server /\ p.src \in Node
  BY DEF Inv, PacketsSound, Packets, SoundPacket, Packet, FrontEnd
<1>3. /\ packetin' = [packetin EXCEPT ![d] = Enqueue(packetin[d], p)]
      /\ addressin' = [addressin EXCEPT ![d] = Enqueue(addressin[d], p.src)]
      /\ net' = net \ {p}
  BY DEF FrontEnd
<1>4. /\ packetin \in [Server -> Seq(Packet)] /\ addressin \in [Server -> Seq(Node)]
      /\ packetin[d] \in Seq(Packet) /\ addressin[d] \in Seq(Node)
      /\ Len(packetin[d]) \in Nat
      /\ Len(packetin[d]) <= MaxSize /\ Len(addressin[d]) = Len(packetin[d])
      /\ MaxSize \in Nat
  BY <1>2, StorageAssumption DEF Inv, StateOK, QueuesInStep
<1> DEFINE pq == Enqueue(packetin[d], p)
           aq == Enqueue(addressin[d], p.src)
<1>5. /\ pq \in Seq(Packet)
      /\ Len(pq) <= MaxSize
      /\ Len(pq) = IF Len(packetin[d]) < MaxSize THEN Len(packetin[d]) + 1 ELSE Len(packetin[d])
      /\ \A i \in 1..Len(packetin[d]) : pq[i] = packetin[d][i]
      /\ Len(packetin[d]) < MaxSize => pq[Len(packetin[d]) + 1] = p
  BY <1>2, <1>4, EnqueueProperties
<1>6. /\ aq \in Seq(Node)
      /\ Len(aq) = IF Len(packetin[d]) < MaxSize THEN Len(packetin[d]) + 1 ELSE Len(packetin[d])
      /\ \A i \in 1..Len(packetin[d]) : aq[i] = addressin[d][i]
      /\ Len(packetin[d]) < MaxSize => aq[Len(packetin[d]) + 1] = p.src
  <2> DEFINE q == addressin[d]
             x == p.src
  <2>1. q \in Seq(Node) /\ x \in Node /\ Len(q) <= MaxSize /\ Len(q) = Len(packetin[d])
    BY <1>2, <1>4
  <2> HIDE DEF q, x
  <2>2. /\ Enqueue(q, x) \in Seq(Node)
        /\ Len(Enqueue(q, x)) = IF Len(q) < MaxSize THEN Len(q) + 1 ELSE Len(q)
        /\ \A i \in 1..Len(q) : Enqueue(q, x)[i] = q[i]
        /\ Len(q) < MaxSize => Enqueue(q, x)[Len(q) + 1] = x
    BY <2>1, EnqueueProperties
  <2> QED
    BY <2>1, <2>2 DEF q, x
<1> HIDE DEF pq, aq
<1>7. /\ packetin' \in [Server -> Seq(Packet)] /\ addressin' \in [Server -> Seq(Node)]
      /\ packetin'[d] = pq /\ addressin'[d] = aq
      /\ \A s \in Server \ {d} : packetin'[s] = packetin[s] /\ addressin'[s] = addressin[s]
  BY <1>2, <1>3, <1>4, <1>5, <1>6 DEF pq, aq
<1>8. \A i \in 1..Len(pq) :
        \/ i \in 1..Len(packetin[d]) /\ pq[i] = packetin[d][i] /\ aq[i] = addressin[d][i]
        \/ pq[i] = p /\ aq[i] = p.src
  <2> SUFFICES ASSUME NEW i \in 1..Len(pq)
               PROVE  \/ i \in 1..Len(packetin[d]) /\ pq[i] = packetin[d][i] /\ aq[i] = addressin[d][i]
                      \/ pq[i] = p /\ aq[i] = p.src
    OBVIOUS
  <2> DEFINE n == Len(packetin[d])
  <2>1. n \in Nat /\ MaxSize \in Nat /\ Len(pq) = IF n < MaxSize THEN n + 1 ELSE n
    BY <1>4, <1>5
  <2>2. i \in 1..n \/ (n < MaxSize /\ i = n + 1)
    <3> DEFINE m == Len(pq)
    <3>1. i \in 1..m /\ m = IF n < MaxSize THEN n + 1 ELSE n
      BY <2>1
    <3> HIDE DEF m, n
    <3> QED
      BY <2>1, <3>1
  <2>3. CASE i \in 1..n
    BY <2>3, <1>5, <1>6
  <2>4. CASE n < MaxSize /\ i = n + 1
    BY <2>4, <1>5, <1>6
  <2> QED
    BY <2>2, <2>3, <2>4
<1>9. StateOK'
  <2>1. \A s \in Server : Len(packetin'[s]) <= MaxSize
    BY <1>5, <1>7 DEF Inv, StateOK
  <2> QED
    BY <1>1, <1>7, <2>1 DEF Inv, StateOK
<1>10. QueuesInStep'
  <2> SUFFICES ASSUME NEW s \in Server
               PROVE  /\ Len(packetin'[s]) = Len(addressin'[s])
                      /\ \A i \in 1..Len(packetin'[s]) :
                           packetin'[s][i].src = addressin'[s][i] /\ packetin'[s][i].dst = s
    BY DEF QueuesInStep
  <2>1. CASE s # d
    <3>1. packetin'[s] = packetin[s] /\ addressin'[s] = addressin[s]
      BY <1>7, <2>1
    <3>2. /\ Len(packetin[s]) = Len(addressin[s])
          /\ \A i \in 1..Len(packetin[s]) :
               packetin[s][i].src = addressin[s][i] /\ packetin[s][i].dst = s
      BY DEF Inv, QueuesInStep
    <3> QED
      BY <3>1, <3>2
  <2>2. CASE s = d
    <3>1. packetin'[s] = pq /\ addressin'[s] = aq
      BY <1>7, <2>2
    <3>2. Len(pq) = Len(aq)
      BY <1>5, <1>6
    <3>3. ASSUME NEW i \in 1..Len(pq)
          PROVE  pq[i].src = aq[i] /\ pq[i].dst = s
      <4>1. CASE i \in 1..Len(packetin[d]) /\ pq[i] = packetin[d][i] /\ aq[i] = addressin[d][i]
        <5>1. packetin[d][i].src = addressin[d][i] /\ packetin[d][i].dst = d
          BY <1>2, <4>1 DEF Inv, QueuesInStep
        <5> QED
          BY <4>1, <5>1, <2>2
      <4>2. CASE pq[i] = p /\ aq[i] = p.src
        BY <4>2, <2>2
      <4> QED
        BY <1>8, <4>1, <4>2
    <3> QED
      BY <3>1, <3>2, <3>3
  <2> QED
    BY <2>1, <2>2
<1>11. PacketsSound'
  <2>1. \A s \in Server : Queued(s)' \subseteq Packets
    <3> SUFFICES ASSUME NEW s \in Server, NEW i \in 1..Len(packetin'[s])
                 PROVE  packetin'[s][i] \in Packets
      BY DEF Queued
    <3>1. CASE s # d
      BY <1>7, <3>1 DEF Packets, Queued
    <3>2. CASE s = d
      <4>1. i \in 1..Len(pq) /\ packetin'[s][i] = pq[i]
        BY <1>7, <3>2
      <4>2. CASE pq[i] = p
        BY <4>1, <4>2 DEF Packets
      <4>3. CASE i \in 1..Len(packetin[d]) /\ pq[i] = packetin[d][i]
        BY <1>2, <4>1, <4>3 DEF Packets, Queued
      <4> QED
        BY <1>8, <4>1, <4>2, <4>3
    <3> QED
      BY <3>1, <3>2
  <2>2. Packets' \subseteq Packets \cup {}
    BY <1>3, <2>1 DEF Packets
  <2>3. \A n \in Switch : m_eid_table[n] \subseteq m_eid_table'[n]
    BY <1>1
  <2> QED
    BY <2>2, <2>3, SoundStays DEF Inv
<1>12. TableStored' /\ AnsweredAskers' /\ EventsAlternate' /\ CreatedIdle'
  BY <1>1 DEF Inv, TableStored, AnsweredAskers, Stores, EventsAlternate, CreatedIdle
<1> QED
  BY <1>9, <1>10, <1>11, <1>12 DEF Inv

\* A handler called with a sound packet and its sender keeps the tables in order
\* and sends at most one packet, which is sound.
LEMMA HandleKeeps ==
  ASSUME Inv, NEW s \in Server, NEW p \in SoundPacket, p.dst = s, Handle(s, p, p.src)
  PROVE  /\ m_eid_table' \in [Switch -> SUBSET EID]
         /\ m_eid_na_table' \in [EID -> Seq(Switch)]
         /\ \A e \in EID : Len(m_eid_na_table'[e]) <= TableSize
         /\ TableStored'
         /\ \A n \in Switch : m_eid_table[n] \subseteq m_eid_table'[n]
         /\ net' \subseteq net \cup SoundPacket'
<1>1. /\ p \in Packet /\ p.eid \in EID /\ p.src \in Node /\ p.id \in Client \X Nat
      /\ p.kind \in Kind
  BY DEF SoundPacket, Packet
<1>2. /\ m_eid_table \in [Switch -> SUBSET EID]
      /\ m_eid_na_table \in [EID -> Seq(Switch)]
      /\ \A e \in EID : Len(m_eid_na_table[e]) <= TableSize
      /\ TableStored
  BY DEF Inv, StateOK
<1>3. CASE ReceiveDataHandle(s, p, p.src)
  <2> DEFINE m == Message("REGIST_EID_NA", p, s, Res, <<>>)
  <2>1. /\ s \in Switch
        /\ m_eid_table' = [m_eid_table EXCEPT ![s] = m_eid_table[s] \cup {p.eid}]
        /\ net' = net \cup {m}
        /\ m_eid_na_table' = m_eid_na_table
    BY <1>3 DEF ReceiveDataHandle
  <2>2. /\ m_eid_table' \in [Switch -> SUBSET EID]
        /\ p.eid \in m_eid_table'[s]
        /\ \A n \in Switch : m_eid_table[n] \subseteq m_eid_table'[n]
    BY <1>1, <1>2, <2>1
  <2>3. m \in Packet
    BY <1>1, <2>1 DEF Message, Packet, Kind, Node, Server
  <2>4. m \in SoundPacket'
    BY <1>1, <2>1, <2>2, <2>3 DEF SoundPacket, Message, Handled, Stores, Asks
  <2>5. TableStored'
    BY <1>2, <2>1, <2>2 DEF TableStored, Stores
  <2> QED
    BY <1>2, <2>1, <2>2, <2>4, <2>5
<1>4. CASE RequestDataHandle(s, p, p.src)
  <2> DEFINE m == Message("REPLY_DATA", p, s, p.src, <<>>)
  <2>1. /\ s \in Switch /\ p.src = p.id[1] /\ p.src \in Client
        /\ UNCHANGED <<m_eid_table, m_eid_na_table>>
        /\ net' \subseteq net \cup {m}
    BY <1>1, <1>4 DEF RequestDataHandle, tableVars, SoundPacket, Asks
  <2>2. m \in Packet
    BY <1>1, <2>1 DEF Message, Packet, Kind, Node, Server
  <2>3. m \in SoundPacket'
    BY <1>1, <2>1, <2>2 DEF SoundPacket, Message, Handled, Asks
  <2>4. TableStored'
    BY <1>2, <2>1 DEF TableStored, Stores
  <2> QED
    BY <1>2, <2>1, <2>3, <2>4
<1>5. CASE RegistHandle(s, p, p.src)
  <2> DEFINE list == m_eid_na_table[p.eid]
             new == AddEIDNATable(list, p.src)
  <2>1. /\ p.src \in Switch /\ Stores(p.src, p.eid)
        /\ UNCHANGED <<m_eid_table, net>>
        /\ m_eid_na_table' = [m_eid_na_table EXCEPT ![p.eid] = new]
    BY <1>1, <1>5 DEF RegistHandle, SoundPacket, Stores
  <2>2. list \in Seq(Switch) /\ Len(list) <= TableSize
    BY <1>1, <1>2
  <2>3. /\ new \in Seq(Switch)
        /\ Len(new) <= TableSize
        /\ \A i \in 1..Len(new) : new[i] = p.src \/ (i \in 1..Len(list) /\ new[i] = list[i])
    BY <2>1, <2>2, AddEIDNATableProperties
  <2> HIDE DEF new
  <2>4. /\ m_eid_na_table' \in [EID -> Seq(Switch)]
        /\ \A e \in EID : Len(m_eid_na_table'[e]) <= TableSize
    BY <1>1, <1>2, <2>1, <2>3
  <2>5. \A i \in 1..Len(new) : Stores(new[i], p.eid)
    BY <1>1, <1>2, <2>1, <2>3 DEF TableStored
  <2>6. TableStored'
    BY <1>1, <1>2, <2>1, <2>5 DEF TableStored, Stores
  <2> QED
    BY <1>2, <2>1, <2>4, <2>6
<1>6. CASE RequestHandle(s, p, p.src)
  <2> DEFINE list == m_eid_na_table[p.eid]
             m == Message("REPLY_EID_NA", p, Res, p.src, list)
  <2>1. /\ p.src = p.id[1] /\ p.src \in Client
        /\ UNCHANGED <<m_eid_table, m_eid_na_table>>
        /\ net' \subseteq net \cup {m}
    BY <1>1, <1>6 DEF RequestHandle, tableVars, SoundPacket, Asks
  <2>2. /\ list \in Seq(Switch)
        /\ \A i \in 1..Len(list) : Stores(list[i], p.eid)'
    BY <1>1, <1>2, <2>1 DEF TableStored, Stores
  <2>3. m \in Packet
    BY <1>1, <2>1, <2>2 DEF Message, Packet, Kind, Node, Server
  <2>4. m \in SoundPacket'
    BY <1>1, <2>1, <2>2, <2>3 DEF SoundPacket, Message, Handled, Asks
  <2>5. TableStored'
    BY <1>2, <2>1 DEF TableStored, Stores
  <2> QED
    BY <1>2, <2>1, <2>4, <2>5
<1> QED
  BY <1>3, <1>4, <1>5, <1>6 DEF Handle

\* AferEnd takes the first element of both queues, which belong together, and
\* hands them to a handler.
LEMMA AferEndStep ==
  ASSUME Inv, NEW s \in Server, AferEnd(s)
  PROVE  Inv'
<1> DEFINE p == Head(packetin[s])
           pq == Dequeue(packetin[s])
           aq == Dequeue(addressin[s])
<1>1. /\ UNCHANGED <<status, m_sendEvent, m_readEvent, sends, answered>>
      /\ packetin' = [packetin EXCEPT ![s] = pq]
      /\ addressin' = [addressin EXCEPT ![s] = aq]
  BY DEF AferEnd, clientVars
<1>2. /\ packetin \in [Server -> Seq(Packet)] /\ addressin \in [Server -> Seq(Node)]
      /\ packetin[s] \in Seq(Packet) /\ addressin[s] \in Seq(Node)
      /\ Len(packetin[s]) = Len(addressin[s])
      /\ \A i \in 1..Len(packetin[s]) :
           packetin[s][i].src = addressin[s][i] /\ packetin[s][i].dst = s
  BY DEF Inv, StateOK, QueuesInStep
<1>3. packetin[s] # <<>> /\ addressin[s] # <<>>
  BY <1>2 DEF AferEnd
<1>4. /\ 1 \in 1..Len(packetin[s])
      /\ p = packetin[s][1] /\ Head(addressin[s]) = addressin[s][1]
  BY <1>2, <1>3
<1>5. p \in SoundPacket /\ p.dst = s /\ Head(addressin[s]) = p.src
  BY <1>2, <1>4 DEF Inv, PacketsSound, Packets, Queued
<1>6. Handle(s, p, p.src)
  BY <1>3, <1>5 DEF AferEnd
<1>7. /\ m_eid_table' \in [Switch -> SUBSET EID]
      /\ m_eid_na_table' \in [EID -> Seq(Switch)]
      /\ \A e \in EID : Len(m_eid_na_table'[e]) <= TableSize
      /\ TableStored'
      /\ \A n \in Switch : m_eid_table[n] \subseteq m_eid_table'[n]
      /\ net' \subseteq net \cup SoundPacket'
  <2> HIDE DEF p
  <2> QED
    BY <1>5, <1>6, HandleKeeps
<1>8. /\ pq \in Seq(Packet)
      /\ Len(pq) = Len(packetin[s]) - 1
      /\ Len(pq) <= Len(packetin[s])
      /\ \A i \in 1..Len(pq) : pq[i] = packetin[s][i + 1] /\ i + 1 \in 1..Len(packetin[s])
  BY <1>2, <1>3, DequeueProperties
<1>9. /\ aq \in Seq(Node)
      /\ Len(aq) = Len(addressin[s]) - 1
      /\ \A i \in 1..Len(aq) : aq[i] = addressin[s][i + 1]
  BY <1>2, <1>3, DequeueProperties
<1> HIDE DEF p, pq, aq
<1>10. /\ packetin' \in [Server -> Seq(Packet)] /\ addressin' \in [Server -> Seq(Node)]
       /\ packetin'[s] = pq /\ addressin'[s] = aq
       /\ \A t \in Server \ {s} : packetin'[t] = packetin[t] /\ addressin'[t] = addressin[t]
  BY <1>1, <1>2, <1>8, <1>9
<1>11. StateOK'
  <2>1. Len(pq) <= MaxSize
    <3>1. Len(packetin[s]) <= MaxSize /\ MaxSize \in Nat
      BY StorageAssumption DEF Inv, StateOK
    <3> QED
      BY <1>2, <1>8, <3>1
  <2>2. \A t \in Server : Len(packetin'[t]) <= MaxSize
    BY <1>10, <2>1 DEF Inv, StateOK
  <2> QED
    BY <1>1, <1>7, <1>10, <2>2 DEF Inv, StateOK
<1>12. QueuesInStep'
  <2> SUFFICES ASSUME NEW t \in Server
               PROVE  /\ Len(packetin'[t]) = Len(addressin'[t])
                      /\ \A i \in 1..Len(packetin'[t]) :
                           packetin'[t][i].src = addressin'[t][i] /\ packetin'[t][i].dst = t
    BY DEF QueuesInStep
  <2>1. CASE t # s
    BY <1>10, <2>1 DEF Inv, QueuesInStep
  <2>2. CASE t = s
    <3>1. Len(pq) = Len(aq)
      BY <1>2, <1>8, <1>9
    <3>2. ASSUME NEW i \in 1..Len(pq)
          PROVE  pq[i].src = aq[i] /\ pq[i].dst = s
      <4>1. i + 1 \in 1..Len(packetin[s]) /\ pq[i] = packetin[s][i + 1]
        BY <1>8
      <4>2. aq[i] = addressin[s][i + 1]
        BY <1>9, <3>1
      <4>3. packetin[s][i + 1].src = addressin[s][i + 1] /\ packetin[s][i + 1].dst = s
        BY <1>2, <4>1
      <4> QED
        BY <4>1, <4>2, <4>3
    <3> QED
      BY <1>10, <2>2, <3>1, <3>2
  <2> QED
    BY <2>1, <2>2
<1>13. PacketsSound'
  <2>1. \A t \in Server : Queued(t)' \subseteq Packets
    <3> SUFFICES ASSUME NEW t \in Server, NEW i \in 1..Len(packetin'[t])
                 PROVE  packetin'[t][i] \in Packets
      BY DEF Queued
    <3>1. CASE t # s
      BY <1>10, <3>1 DEF Packets, Queued
    <3>2. CASE t = s
      <4>1. i \in 1..Len(pq) /\ packetin'[t][i] = pq[i]
        BY <1>10, <3>2
      <4>2. PICK j \in 1..Len(packetin[s]) : pq[i] = packetin[s][j]
        BY <1>8, <4>1
      <4>3. pq[i] \in Queued(s)
        BY <4>2 DEF Queued
      <4> QED
        BY <4>1, <4>3 DEF Packets
    <3> QED
      BY <3>1, <3>2
  <2>2. Packets' \subseteq Packets \cup SoundPacket'
    BY <1>7, <2>1 DEF Packets
  <2> QED
    BY <1>7, <2>2, SoundStays DEF Inv
<1>14. AnsweredAskers' /\ EventsAlternate' /\ CreatedIdle'
  BY <1>1 DEF Inv, AnsweredAskers, EventsAlternate, CreatedIdle
<1> QED
  BY <1>7, <1>11, <1>12, <1>13, <1>14 DEF Inv

-----------------------------------------------------------------------------
(* The theorems.                                                             *)

\* Nothing is queued, stored or on its way at the start.
LEMMA InvInit == Init => Inv
<1> SUFFICES ASSUME Init
             PROVE  Inv
  OBVIOUS
<1>1. StateOK
  BY StorageAssumption DEF Init, StateOK
<1>2. Packets = {}
  BY DEF Init, Packets, Queued
<1>3. QueuesInStep /\ TableStored
  BY DEF Init, QueuesInStep, TableStored
<1>4. AnsweredAskers /\ EventsAlternate /\ CreatedIdle
  BY DEF Init, AnsweredAskers, EventsAlternate, CreatedIdle, Node
<1> QED
  BY <1>1, <1>2, <1>3, <1>4 DEF Inv, PacketsSound

\* Every step keeps the inductive invariant.
LEMMA InvNext == Inv /\ [Next]_vars => Inv'
<1> SUFFICES ASSUME Inv, [Next]_vars
             PROVE  Inv'
  OBVIOUS
<1>1. ASSUME NEW s \in Server, StartServer(s) \/ StopServer(s)
      PROVE  Inv'
  BY <1>1, ServerStatusStep
<1>2. ASSUME NEW s \in Server, AferEnd(s)
      PROVE  Inv'
  BY <1>2, AferEndStep
<1>3. ASSUME NEW c \in Client, StartClient(c) \/ StopClient(c)
      PROVE  Inv'
  BY <1>3, ClientStatusStep
<1>4. ASSUME NEW c \in Client, Write(c) \/ Read(c)
      PROVE  Inv'
  BY <1>4, ClientSendStep
<1>5. ASSUME NEW p \in net, FrontEnd(p)
      PROVE  Inv'
  BY <1>5, FrontEndStep
<1>6. ASSUME NEW p \in net, ReceiveCallback(p) \/ Unbound(p) \/ Lose(p)
      PROVE  Inv'
  BY <1>6, ConsumeStep
<1>7. CASE UNCHANGED vars
  <2>1. UNCHANGED <<status, packetin, addressin, m_eid_table, m_eid_na_table, m_sendEvent,
                    m_readEvent, sends, net, answered>>
    BY <1>7 DEF vars, queueVars, tableVars, clientVars
  <2>2. StateOK' /\ QueuesInStep' /\ TableStored'
    BY <2>1 DEF Inv, StateOK, QueuesInStep, TableStored, Stores
  <2>3. AnsweredAskers' /\ EventsAlternate' /\ CreatedIdle'
    BY <2>1 DEF Inv, AnsweredAskers, EventsAlternate, CreatedIdle
  <2>4. Packets' \subseteq Packets \cup {}
    BY <2>1, PacketsSent
  <2>5. PacketsSound'
    <3>1. \A n \in Switch : m_eid_table[n] \subseteq m_eid_table'[n]
      BY <2>1
    <3> QED
      BY <2>4, <3>1, SoundStays DEF Inv
  <2> QED
    BY <2>2, <2>3, <2>5 DEF Inv
<1> QED
  BY <1>1, <1>2, <1>3, <1>4, <1>5, <1>6, <1>7 DEF Next

\* The inductive invariant holds in every reachable state of the storage service.
LEMMA InvAlways == Spec => []Inv
BY InvInit, InvNext, PTL DEF Spec

\* Type correctness of the storage service: every packet is addressed to an
\* application with a handler for it (AferEnd of switch-application.cc and
\* storage-resolution-application.cc, ReceiveCallback of the client), and neither a
\* queue nor the address list of an EID exceeds its limit.
THEOREM StorageTypeCorrect == Spec => []TypeOK
BY InvAlways, InvImplies, PTL

\* packetin and addressin, which FrontEnd fills with two unrelated calls and
\* AferEnd empties with two others, name the same packets in the same order,
\* whatever overflows, is lost or is stopped.
THEOREM QueuesInStepAlways == Spec => []QueuesInStep
BY InvAlways, InvImplies, PTL

\* A switch stores an EID before it registers it: every address that the
\* resolution server holds or hands out, and every switch asked for data, has
\* the data.
THEOREM RegisteredHaveStoredAlways == Spec => []RegisteredHaveStored
BY InvAlways, InvImplies, PTL

\* The replies of the resolution server and of the switches go to the client that
\* began the exchange, although each server answers the head of a second queue.
THEOREM AnswersReachAskerAlways == Spec => []AnswersReachAsker
BY InvAlways, InvImplies, PTL

\* The two events through which Write and Read of the client schedule each other
\* are never both pending, none is left after StopApplication, and one is due
\* while the client runs.
THEOREM EventsAlternateAlways == Spec => []EventsAlternate
BY InvAlways, InvImplies, PTL
=============================================================================
