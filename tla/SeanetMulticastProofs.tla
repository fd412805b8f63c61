------------------------ MODULE SeanetMulticastProofs ------------------------
(***************************************************************************)
(* Proofs about SeanetMulticast for every topology, every set of EIDs and   *)
(* clients, every tree type and any start times, with or without loss and   *)
(* stops: the types, and the safety invariants of grafting.                 *)
(***************************************************************************)
EXTENDS SeanetMulticast, TLAPS

ClientKind == {"REGIST_TO_SOURCE_DR", "REGIST_TO_DEST_DR"}

-----------------------------------------------------------------------------
(* Facts about the network.                                                  *)

\* A packet in flight is on a route it has not finished, its next node and the
\* interface it arrives on exist.
LEMMA PacketOnRoute ==
  ASSUME NEW p \in Packet, PacketOK(p)
  PROVE  /\ NextNode(p) \in Node
         /\ InIf(p) \in 1 .. MaxIf
         /\ InIf(p) \in IfNum
         /\ NextNode(p) # p.dst => p.hop + 1 < Len(Route[p.src][p.dst])
         /\ NextNode(p) = p.dst => p.hop + 1 = Len(Route[p.src][p.dst])
<1> DEFINE rt == Route[p.src][p.dst]
<1>0. p.src \in Node /\ p.dst \in Node /\ p.src # p.dst
  BY DEF Packet, PacketOK
<1>a. rt \in Seq(Node)
  <2>1. Route \in [Node -> [Node -> Seq(Node)]]
    BY TopologyAssumption
  <2> QED
    BY <1>0, <2>1
<1>b. Len(rt) \in Nat
  BY <1>a
<1>2. /\ rt \in Seq(Node)
      /\ Len(rt) \in Nat
      /\ Len(rt) >= 2
      /\ rt[Len(rt)] = p.dst
      /\ \A i \in 2 .. Len(rt) - 1 : rt[i] \in (Switch \cup Relay) \ {p.src, p.dst}
  BY <1>0, <1>a, <1>b, TopologyAssumption
<1>1. p.hop \in Nat /\ p.hop >= 1 /\ p.hop <= Len(rt) - 1
  BY <1>2 DEF Packet, PacketOK
<1>3. /\ rt[p.hop] \in Node /\ rt[p.hop + 1] \in Node
  BY <1>1, <1>2, SMTT(30)
<1>4. /\ NextNode(p) \in Node /\ InIf(p) \in 1 .. MaxIf
  <2>1. IfOf \in [Node -> [Node -> 1 .. MaxIf]]
    BY TopologyAssumption
  <2> QED
    BY <1>3, <2>1 DEF NextNode, InIf
<1>5. InIf(p) \in IfNum
  BY <1>4, TopologyAssumption DEF IfNum
<1>6. NextNode(p) # p.dst => p.hop + 1 < Len(rt)
  BY <1>1, <1>2, SMTT(30) DEF NextNode
<1>7. NextNode(p) = p.dst => p.hop + 1 = Len(rt)
  <2>1. p.hop + 1 \in 2 .. Len(rt) - 1 => NextNode(p) # p.dst
    BY <1>2 DEF NextNode
  <2>2. Len(rt) \in Nat
    BY <1>2
  <2> QED
    BY <1>1, <2>1, <2>2
<1> QED
  BY <1>4, <1>5, <1>6, <1>7

LEMMA ForwardedOK ==
  ASSUME NEW p \in Packet, PacketOK(p), NextNode(p) # p.dst
  PROVE  Forwarded(p) \in Packet /\ PacketOK(Forwarded(p))
<1>1. p.hop + 1 < Len(Route[p.src][p.dst])
  BY PacketOnRoute
<1>2. /\ p.src \in Node /\ p.dst \in Node /\ p.src # p.dst
      /\ p.hop \in Nat /\ p.hop >= 1 /\ p.kind \in NeighKind \cup GroupKind
      /\ p.eid \in EID \cup {Nil}
  BY TopologyAssumption DEF Packet, PacketOK, Node
<1>3. Len(Route[p.src][p.dst]) \in Nat
  BY <1>2, TopologyAssumption
<1>4. Forwarded(p) = [kind |-> p.kind, eid |-> p.eid, src |-> p.src,
                      dst |-> p.dst, hop |-> p.hop + 1]
  BY DEF Packet, Forwarded
<1>5. p.hop + 1 \in 1 .. Len(Route[p.src][p.dst]) - 1
  BY <1>1, <1>2, <1>3, SMTT(30)
<1> QED
  BY <1>2, <1>4, <1>5 DEF Packet, PacketOK

LEMMA SendOK ==
  ASSUME NEW kind \in NeighKind \cup GroupKind, NEW e \in EID \cup {Nil},
         NEW from \in Node, NEW to \in Switch \cup {Nil},
         kind \in GroupKind => e \in EID,
         from \in Switch \/ kind \in ClientKind,
         NEW p \in Send(kind, e, from, to)
  PROVE  /\ p \in Packet /\ PacketOK(p)
         /\ p = [kind |-> kind, eid |-> e, src |-> from, dst |-> to, hop |-> 1]
<1>1. /\ to \in Switch \ {from} /\ to \in Node
      /\ p = [kind |-> kind, eid |-> e, src |-> from, dst |-> to, hop |-> 1]
  BY TopologyAssumption DEF Send, Node
<1>2. Len(Route[from][to]) \in Nat /\ Len(Route[from][to]) >= 2
  BY <1>1, TopologyAssumption
<1> QED
  BY <1>1, <1>2 DEF Packet, PacketOK, ClientKind

-----------------------------------------------------------------------------
(* Facts about the tables.                                                   *)

\* AddCastTable yields a cast table, enters e under both keys, removes nothing.
LEMMA AddCastTableFacts ==
  ASSUME NEW t \in CastTable, NEW s \in Switch, NEW i \in IfNum, NEW e \in EID
  PROVE  /\ AddCastTable(t, s, i, e) \in CastTable
         /\ e \in AddCastTable(t, s, i, e)[s][i]
         /\ e \in AddCastTable(t, s, i, e)[s][0]
         /\ \A u \in Switch, j \in IfNum :
              /\ t[u][j] \subseteq AddCastTable(t, s, i, e)[u][j]
              /\ AddCastTable(t, s, i, e)[u][j] =
                   IF u = s /\ j \in {0, i} THEN t[u][j] \cup {e} ELSE t[u][j]
<1> DEFINE row == [j \in IfNum |-> IF j \in {0, i} THEN t[s][j] \cup {e} ELSE t[s][j]]
<1>0. 0 \in IfNum
  BY TopologyAssumption DEF IfNum
<1>1. AddCastTable(t, s, i, e) = [t EXCEPT ![s] = row]
  BY DEF AddCastTable
<1>2. row \in [IfNum -> SUBSET EID]
  BY DEF CastTable
<1>3. AddCastTable(t, s, i, e) \in CastTable
  BY <1>1, <1>2 DEF CastTable
<1>4. \A u \in Switch, j \in IfNum :
        AddCastTable(t, s, i, e)[u][j] =
          IF u = s /\ j \in {0, i} THEN t[u][j] \cup {e} ELSE t[u][j]
  <2> SUFFICES ASSUME NEW u \in Switch, NEW j \in IfNum
               PROVE  AddCastTable(t, s, i, e)[u][j] =
                        IF u = s /\ j \in {0, i} THEN t[u][j] \cup {e} ELSE t[u][j]
    OBVIOUS
  <2>1. AddCastTable(t, s, i, e)[u] = IF u = s THEN row ELSE t[u]
    BY <1>1 DEF CastTable
  <2>2. row[j] = IF j \in {0, i} THEN t[s][j] \cup {e} ELSE t[s][j]
    OBVIOUS
  <2> HIDE DEF row
  <2> QED
    BY <2>1, <2>2
<1> HIDE DEF row
<1> QED
  BY <1>0, <1>3, <1>4

LEMMA AddEIDNAINFOFacts ==
  ASSUME NEW t \in ResolutionTable, NEW e \in EID, NEW s \in Switch
  PROVE  /\ AddEIDNAINFO(t, e, s) \in ResolutionTable
         /\ s \in Addresses(AddEIDNAINFO(t, e, s)[e])
         /\ \A f \in EID : /\ Addresses(t[f]) \subseteq Addresses(AddEIDNAINFO(t, e, s)[f])
                           /\ Addresses(AddEIDNAINFO(t, e, s)[f]) \subseteq
                                IF f = e THEN Addresses(t[f]) \cup {s}
                                ELSE Addresses(t[f])
<1> DEFINE l == IF s \in Addresses(t[e]) THEN t[e] ELSE Append(t[e], s)
<1>1. AddEIDNAINFO(t, e, s) = [t EXCEPT ![e] = l]
  BY DEF AddEIDNAINFO
<1>2. t[e] \in Seq(Switch)
  BY DEF ResolutionTable
<1>3. l \in Seq(Switch)
  BY <1>2
<1>4. Addresses(l) = Addresses(t[e]) \cup {s}
  <2>1. CASE s \in Addresses(t[e])
    BY <2>1
  <2>2. CASE s \notin Addresses(t[e])
    <3>1. l = Append(t[e], s)
      BY <2>2
    <3>2. DOMAIN l = 1 .. Len(t[e]) + 1 /\ DOMAIN t[e] = 1 .. Len(t[e]) /\ Len(t[e]) \in Nat
      BY <3>1, <1>2
    <3>3. \A i \in 1 .. Len(t[e]) : l[i] = t[e][i]
      BY <3>1, <1>2
    <3>4. l[Len(t[e]) + 1] = s
      BY <3>1, <1>2
    <3> HIDE DEF l
    <3> QED
      BY <3>2, <3>3, <3>4 DEF Addresses
  <2> QED
    BY <2>1, <2>2
<1>5. AddEIDNAINFO(t, e, s) \in ResolutionTable
  BY <1>1, <1>3 DEF ResolutionTable
<1>6. \A f \in EID : AddEIDNAINFO(t, e, s)[f] = IF f = e THEN l ELSE t[f]
  BY <1>1 DEF ResolutionTable
<1> HIDE DEF l
<1> QED
  BY <1>4, <1>5, <1>6

\* FindNearestNode and RootNode return an address of a switch or none; a nearest
\* node is always one of the list.
LEMMA FindNearestNodeFacts ==
  ASSUME NEW list \in Seq(Switch), NEW d \in DelayTable,
         NEW t \in FindNearestNode(list, d)
  PROVE  t \in Switch \cup {Nil} /\ (t # Nil => t \in Addresses(list))
<1>1. \A i \in DOMAIN list : list[i] \in Switch /\ list[i] \in Addresses(list)
  BY DEF Addresses
<1>2. list # <<>> => 1 \in DOMAIN list /\ Len(list) \in DOMAIN list
  BY DEF DelayTable
<1>3. \/ t = Nil
      \/ list # <<>> /\ t = list[Len(list)]
      \/ list # <<>> /\ t = list[1]
      \/ \E i \in DOMAIN list : t = list[i]
  BY DEF FindNearestNode
<1> QED
  BY <1>1, <1>2, <1>3

LEMMA RootNodeFacts ==
  ASSUME tree_type \in TreeTypes, NEW u, NEW m, NEW d, NEW s \in Switch,
         NEW rn \in RootNode(u, m, d, s)
  PROVE  rn \in Switch \cup {Nil}
<1>1. ASSUME NEW k \in GetRootNode(u, m, d, s) PROVE k \in Switch
  BY <1>1 DEF GetRootNode
<1> QED
  BY <1>1, TablesAssumption DEF RootNode

-----------------------------------------------------------------------------
(* Type correctness.                                                         *)

LEMMA TypeInit == Init => TypeOK
<1> SUFFICES ASSUME Init PROVE TypeOK
  OBVIOUS
<1>1. [i \in IfNum |-> {}] \in [IfNum -> SUBSET EID]
  OBVIOUS
<1>2. unicast_table \in CastTable /\ multicast_table \in CastTable
  BY <1>1 DEF Init, CastTable
<1>3. resolution_table \in ResolutionTable
  BY DEF Init, ResolutionTable
<1>4. delay_table \in [Switch -> DelayTable]
  BY DEF Init, DelayTable
<1>5. /\ tree_type \in TreeTypes
      /\ status \in [Switch -> {"created", "running", "stopped"}]
      /\ scheduled \subseteq Entry
      /\ probes \subseteq Switch \X Switch
      /\ m_sent \in [Client -> Nat]
      /\ net \subseteq Packet
      /\ \A p \in net : PacketOK(p)
      /\ served \subseteq Switch \X EID \X Switch
  BY DEF Init
<1> QED
  BY <1>2, <1>3, <1>4, <1>5 DEF TypeOK

\* Resetting the key (local, 0) of a table.
LEMMA ResetFacts ==
  ASSUME NEW t \in CastTable, NEW s \in Switch
  PROVE  [t EXCEPT ![s][0] = {}] \in CastTable
<1>1. [t[s] EXCEPT ![0] = {}] \in [IfNum -> SUBSET EID]
  BY DEF CastTable
<1> QED
  BY <1>1 DEF CastTable

LEMMA TypeStep == TypeOK /\ [Next]_vars => TypeOK'
<1> SUFFICES ASSUME TypeOK, [Next]_vars PROVE TypeOK'
  OBVIOUS
<1> USE DEF startVars, castVars
<1>net. \A p \in net : p \in Packet /\ PacketOK(p)
  BY DEF TypeOK
<1>1. ASSUME NEW s \in Switch, StartApplication(s) PROVE TypeOK'
  <2>1. unicast_table' \in CastTable /\ multicast_table' \in CastTable
    BY <1>1, ResetFacts DEF StartApplication, TypeOK
  <2> QED
    BY <1>1, <2>1 DEF StartApplication, TypeOK
<1>2. ASSUME NEW s \in Switch, StopApplication(s) PROVE TypeOK'
  BY <1>2 DEF StopApplication, TypeOK
<1>3. ASSUME NEW s \in Switch, DetecAllNeighborDelay(s) PROVE TypeOK'
  <2>1. probes' \subseteq Switch \X Switch
    BY <1>3, MulticastAssumption DEF DetecAllNeighborDelay, TypeOK
  <2> QED
    BY <1>3, <2>1 DEF DetecAllNeighborDelay, TypeOK
<1>4. ASSUME NEW pr \in probes, NeighInfoDetec(pr[1], pr[2]) PROVE TypeOK'
  <2>1. pr[1] \in Switch /\ pr[2] \in Switch /\ pr[1] \in Node
    BY DEF TypeOK, Node
  <2>2. \A p \in Send("NEIGH_INFO_RECEIVE", Nil, pr[1], pr[2]) : p \in Packet /\ PacketOK(p)
    BY <2>1, SendOK DEF NeighKind, GroupKind
  <2>3. \A p \in net' : p \in Packet /\ PacketOK(p)
    BY <1>4, <1>net, <2>2 DEF NeighInfoDetec
  <2> QED
    BY <1>4, <2>3 DEF NeighInfoDetec, TypeOK
<1>5. ASSUME NEW c \in Client, NEW kind \in ClientKind, NEW e \in EID,
             ClientSends(c, kind, e)
      PROVE TypeOK'
  <2>1. Dr[c] \in Switch /\ c \in Node
    BY MulticastAssumption DEF Node
  <2>2. kind \in NeighKind \cup GroupKind
    BY DEF ClientKind, GroupKind
  <2>3. \A p \in Send(kind, e, c, Dr[c]) : p \in Packet /\ PacketOK(p)
    BY <2>1, <2>2, SendOK
  <2>4. \A p \in net' : p \in Packet /\ PacketOK(p)
    BY <1>5, <1>net, <2>3 DEF ClientSends
  <2>5. m_sent' \in [Client -> Nat]
    BY <1>5 DEF ClientSends, TypeOK
  <2> QED
    BY <1>5, <2>4, <2>5 DEF ClientSends, TypeOK
<1>6. ASSUME NEW c \in Client, Write(c) PROVE TypeOK'
  <2>0. m_sent[c] \in Nat /\ Count[c] \in Nat
    BY MulticastAssumption DEF TypeOK
  <2>1. m_sent[c] + 1 \in 1 .. Count[c]
    BY <1>6, <2>0 DEF Write, ClientSends
  <2>2. WriteEid[c] \in [1 .. Count[c] -> EID]
    BY MulticastAssumption
  <2>3. WriteEid[c][m_sent[c] + 1] \in EID
    BY <2>1, <2>2
  <2> QED
    BY <1>5, <1>6, <2>3 DEF Write, ClientKind
<1>7. ASSUME NEW c \in Client, Read(c) PROVE TypeOK'
  <2>0. m_sent[c] \in Nat /\ Count[c] \in Nat
    BY MulticastAssumption DEF TypeOK
  <2>1. m_sent[c] + 1 \in 1 .. Count[c]
    BY <1>7, <2>0 DEF Read, ClientSends
  <2>2. ReadEid[c] \in [1 .. Count[c] -> EID]
    BY MulticastAssumption
  <2>3. ReadEid[c][m_sent[c] + 1] \in EID
    BY <2>1, <2>2
  <2> QED
    BY <1>5, <1>7, <2>3 DEF Read, ClientKind
<1>8. ASSUME NEW p \in net, RouteInput(p) \/ Drop(p) PROVE TypeOK'
  <2>1. /\ p \in Packet /\ PacketOK(p)
        /\ p.dst \in Switch /\ p.src \in Node /\ p.dst \in Node
        /\ p.eid \in EID \cup {Nil}
        /\ NextNode(p) \in Node /\ InIf(p) \in IfNum
        /\ p.kind \in GroupKind => p.eid \in EID
        /\ p.kind \notin ClientKind => p.src \in Switch
    BY <1>net, PacketOnRoute DEF Packet, PacketOK, Node, ClientKind
  \* every message a switch sends is one of these
  <2>s. ASSUME NEW kind \in NeighKind \cup GroupKind, NEW e \in EID \cup {Nil},
               NEW s \in Switch, NEW t \in Switch \cup {Nil},
               kind \in GroupKind => e \in EID
        PROVE  \A m \in Send(kind, e, s, t) : m \in Packet /\ PacketOK(m)
    <3>1. s \in Node
      BY DEF Node
    <3> QED
      BY <2>s, <3>1, SendOK
  <2>f. NextNode(p) # p.dst => Forwarded(p) \in Packet /\ PacketOK(Forwarded(p))
    BY <2>1, ForwardedOK
  <2>r. p.src \in Switch =>
          \A s \in Switch : \A m \in Send("NEIGH_INFO_REPLY", Nil, s, p.src) :
            m \in Packet /\ PacketOK(m)
    BY <2>s DEF NeighKind, GroupKind
  <2>2. CASE Forward(p)
    <3>1. \A m \in net' : m \in Packet /\ PacketOK(m)
      BY <2>2, <2>f, <1>net DEF Forward, Transits
    <3> QED
      BY <2>2, <3>1 DEF Forward, TypeOK
  <2>3. CASE TransitRegistToRN(p)
    <3>1. p.eid \in EID /\ NextNode(p) \in Switch
      BY <2>3, <2>1 DEF TransitRegistToRN, GroupKind, Running
    <3>2. unicast_table' \in CastTable
      BY <2>3, <2>1, <3>1, AddCastTableFacts DEF TransitRegistToRN, TypeOK
    <3>3. \A m \in net' : m \in Packet /\ PacketOK(m)
      BY <2>3, <2>f, <1>net DEF TransitRegistToRN, Transits
    <3> QED
      BY <2>3, <3>2, <3>3 DEF TransitRegistToRN, TypeOK
  <2>4. CASE TransitGraft(p)
    <3>1. p.eid \in EID /\ NextNode(p) \in Switch /\ p.src \in Switch
      BY <2>4, <2>1 DEF TransitGraft, GroupKind, Running, ClientKind
    <3>2. multicast_table' \in CastTable /\ resolution_table' \in ResolutionTable
      BY <2>4, <2>1, <3>1, AddCastTableFacts, AddEIDNAINFOFacts DEF TransitGraft, TypeOK
    <3>3. \A m \in net' : m \in Packet /\ PacketOK(m)
      BY <2>4, <2>f, <2>r, <3>1, <1>net DEF TransitGraft, Transits
    <3> QED
      BY <2>4, <3>2, <3>3 DEF TransitGraft, TypeOK
  <2>5. CASE RegistToSourceDR(p)
    <3>1. p.eid \in EID
      BY <2>5, <2>1 DEF RegistToSourceDR, GroupKind
    <3>2. PICK rn \in RootNode(unicast_table, multicast_table, delay_table[p.dst], p.dst) :
            \/ /\ rn = p.dst
               /\ unicast_table' = AddCastTable(unicast_table, p.dst, InIf(p), p.eid)
               /\ multicast_table' = AddCastTable(multicast_table, p.dst, InIf(p), p.eid)
               /\ resolution_table' = AddEIDNAINFO(resolution_table, p.eid, p.dst)
               /\ net' = net \ {p}
            \/ /\ rn # p.dst
               /\ net' = (net \ {p}) \cup Send("REGIST_TO_RN", p.eid, p.dst, rn)
               /\ UNCHANGED <<castVars, resolution_table>>
      BY <2>5 DEF RegistToSourceDR
    <3>3. rn \in Switch \cup {Nil}
      BY <2>1, RootNodeFacts DEF TypeOK
    <3>4. /\ unicast_table' \in CastTable
          /\ multicast_table' \in CastTable
          /\ resolution_table' \in ResolutionTable
      BY <3>2, <2>1, <3>1, AddCastTableFacts, AddEIDNAINFOFacts DEF TypeOK
    <3>5. \A m \in Send("REGIST_TO_RN", p.eid, p.dst, rn) : m \in Packet /\ PacketOK(m)
      BY <2>1, <2>s, <3>1, <3>3 DEF GroupKind
    <3>6. \A m \in net' : m \in Packet /\ PacketOK(m)
      BY <3>2, <3>5, <1>net
    <3> QED
      BY <2>5, <3>4, <3>6 DEF RegistToSourceDR, TypeOK
  <2>6. CASE RegistToRN(p)
    <3>1. p.eid \in EID /\ p.src \in Switch
      BY <2>6, <2>1 DEF RegistToRN, GroupKind, ClientKind
    <3>2. /\ unicast_table' \in CastTable
          /\ multicast_table' \in CastTable
          /\ resolution_table' \in ResolutionTable
      BY <2>6, <2>1, <3>1, AddCastTableFacts, AddEIDNAINFOFacts DEF RegistToRN, TypeOK
    <3>3. \A m \in net' : m \in Packet /\ PacketOK(m)
      BY <2>6, <2>1, <2>r, <3>1, <1>net DEF RegistToRN
    <3> QED
      BY <2>6, <3>2, <3>3 DEF RegistToRN, TypeOK
  <2>7. CASE RegistToDestDR(p)
    <3>1. p.eid \in EID
      BY <2>7, <2>1 DEF RegistToDestDR, GroupKind
    <3>2. multicast_table' \in CastTable
      BY <2>7, <2>1, <3>1, AddCastTableFacts DEF RegistToDestDR, TypeOK
    <3>3. PICK t \in FindNearestNode(resolution_table[p.eid], delay_table[p.dst]) :
            net' = (net \ {p}) \cup Send("GRAFITING_REQUEST", p.eid, p.dst, t)
      BY <2>7 DEF RegistToDestDR
    <3>4. resolution_table[p.eid] \in Seq(Switch) /\ delay_table[p.dst] \in DelayTable
      BY <3>1, <2>1 DEF TypeOK, ResolutionTable
    <3>5. t \in Switch \cup {Nil}
      BY <3>4, FindNearestNodeFacts
    <3>6. \A m \in Send("GRAFITING_REQUEST", p.eid, p.dst, t) : m \in Packet /\ PacketOK(m)
      BY <2>1, <2>s, <3>1, <3>5 DEF GroupKind
    <3>7. \A m \in net' : m \in Packet /\ PacketOK(m)
      BY <3>3, <3>6, <1>net
    <3> QED
      BY <2>7, <3>2, <3>7 DEF RegistToDestDR, TypeOK
  <2>8. CASE GraftRequest(p)
    <3>1. p.eid \in EID /\ p.src \in Switch
      BY <2>8, <2>1 DEF GraftRequest, GroupKind, ClientKind
    <3>2. multicast_table' \in CastTable
      BY <2>8, <2>1, <3>1, AddCastTableFacts DEF GraftRequest, TypeOK
    <3>3. \A m \in Send("MULTICAST_DATA_TRANS", p.eid, p.dst, p.src) : m \in Packet /\ PacketOK(m)
      BY <2>1, <2>s, <3>1 DEF GroupKind
    <3>4. \A m \in net' : m \in Packet /\ PacketOK(m)
      BY <2>8, <2>1, <2>r, <3>1, <3>3, <1>net DEF GraftRequest
    <3> QED
      BY <2>8, <3>2, <3>4 DEF GraftRequest, TypeOK
  <2>9. CASE MulticastDataTrans(p)
    <3>1. p.eid \in EID /\ p.src \in Switch
      BY <2>9, <2>1 DEF MulticastDataTrans, GroupKind, ClientKind
    <3>2. served' \subseteq Switch \X EID \X Switch
      BY <2>9, <2>1, <3>1 DEF MulticastDataTrans, TypeOK
    <3> QED
      BY <2>9, <3>2 DEF MulticastDataTrans, TypeOK
  <2>10. CASE NeighInfoReceive(p)
    <3>1. p.src \in Switch
      BY <2>10, <2>1 DEF NeighInfoReceive, ClientKind
    <3>2. \A m \in net' : m \in Packet /\ PacketOK(m)
      BY <2>10, <2>1, <2>r, <3>1, <1>net DEF NeighInfoReceive
    <3> QED
      BY <2>10, <3>2 DEF NeighInfoReceive, TypeOK
  <2>11. CASE NeighInfoReply(p)
    <3>1. delay_table' \in [Switch -> DelayTable]
      <4>1. CASE KnownSource(p)
        <5>1. PICK d \in Delays : delay_table' = [delay_table EXCEPT ![p.dst][p.src] = d]
          BY <2>11, <4>1 DEF NeighInfoReply
        <5>2. [delay_table[p.dst] EXCEPT ![p.src] = d] \in DelayTable
          BY <2>1 DEF TypeOK, DelayTable
        <5> QED
          BY <5>1, <5>2, <2>1 DEF TypeOK
      <4>2. CASE ~ KnownSource(p)
        BY <2>11, <4>2 DEF NeighInfoReply, TypeOK
      <4> QED
        BY <4>1, <4>2
    <3> QED
      BY <2>11, <3>1 DEF NeighInfoReply, TypeOK
  <2>12. CASE Unread(p)
    BY <2>12 DEF Unread, TypeOK
  <2>13. CASE Drop(p)
    BY <2>13 DEF Drop, TypeOK
  <2> QED
    BY <1>8, <2>2, <2>3, <2>4, <2>5, <2>6, <2>7, <2>8, <2>9, <2>10, <2>11,
       <2>12, <2>13 DEF RouteInput, FrontEnd
<1>9. CASE UNCHANGED vars
  BY <1>9 DEF vars, TypeOK
<1> QED
  BY <1>1, <1>2, <1>3, <1>4, <1>6, <1>7, <1>8, <1>9 DEF Next, Startup

\* Every reachable state is well typed; in particular every packet in flight is
\* still on its route and goes to a switch (Send, RouteInput).
THEOREM TypeCorrect == Spec => []TypeOK
<1> QED
  BY TypeInit, TypeStep, PTL DEF Spec

-----------------------------------------------------------------------------
(* Grafting builds the multicast tree.  The argument has two halves.  Grows: *)
(* no step takes back what a table holds (the reset in StartApplication      *)
(* finds its key empty, because nothing happens before all switches are      *)
(* started).  Origin: where a packet that is new in net comes from, and what *)
(* its sender or the node it crossed entered in the same step.               *)

\* Until the last switch is started no packet, probe or table entry exists.
QuietBeforeStart ==
  ~ AllStarted =>
    /\ net = {} /\ probes = {} /\ served = {}
    /\ \A s \in Switch : \A i \in IfNum :
         unicast_table[s][i] = {} /\ multicast_table[s][i] = {}
    /\ \A e \in EID : resolution_table[e] = <<>>

LEMMA QuietInit == Init => QuietBeforeStart
<1> SUFFICES ASSUME Init PROVE QuietBeforeStart
  OBVIOUS
<1>1. net = {} /\ probes = {} /\ served = {}
  BY DEF Init
<1>2. \A s \in Switch : \A i \in IfNum :
        unicast_table[s][i] = {} /\ multicast_table[s][i] = {}
  BY DEF Init
<1>3. \A e \in EID : resolution_table[e] = <<>>
  BY DEF Init
<1> QED
  BY <1>1, <1>2, <1>3 DEF QuietBeforeStart

LEMMA QuietStep == TypeOK /\ QuietBeforeStart /\ [Next]_vars => QuietBeforeStart'
<1> SUFFICES ASSUME TypeOK, QuietBeforeStart, [Next]_vars, ~ AllStarted'
             PROVE  /\ net' = {} /\ probes' = {} /\ served' = {}
                    /\ \A s \in Switch : \A i \in IfNum :
                         unicast_table'[s][i] = {} /\ multicast_table'[s][i] = {}
                    /\ \A e \in EID : resolution_table'[e] = <<>>
  BY DEF QuietBeforeStart
<1> USE DEF startVars, castVars
<1>1. ASSUME NEW s \in Switch, StartApplication(s)
      PROVE  ~ AllStarted
  BY <1>1 DEF StartApplication, AllStarted
<1>2. ASSUME NEW s \in Switch, StopApplication(s)
      PROVE  ~ AllStarted
  BY <1>2 DEF StopApplication, AllStarted, TypeOK
<1>3. ASSUME UNCHANGED status PROVE ~ AllStarted
  BY <1>3 DEF AllStarted
<1>4. ~ AllStarted
  BY <1>1, <1>2, <1>3 DEF Next, Startup, DetecAllNeighborDelay, NeighInfoDetec, Write, Read,
     ClientSends, RouteInput, FrontEnd, Forward, TransitRegistToRN, TransitGraft,
     RegistToSourceDR, RegistToRN, RegistToDestDR, GraftRequest, MulticastDataTrans,
     NeighInfoReceive, NeighInfoReply, Unread, Drop, vars
<1>5. /\ net = {} /\ probes = {} /\ served = {}
      /\ \A s \in Switch : \A i \in IfNum :
           unicast_table[s][i] = {} /\ multicast_table[s][i] = {}
      /\ \A e \in EID : resolution_table[e] = <<>>
  BY <1>4 DEF QuietBeforeStart
<1>6. CASE \E s \in Switch : StartApplication(s)
  <2>1. PICK s \in Switch : StartApplication(s)
    BY <1>6
  <2>2. UNCHANGED <<net, probes, served, resolution_table>>
    BY <2>1 DEF StartApplication
  <2>3. \A u \in Switch : \A i \in IfNum :
          unicast_table'[u][i] = {} /\ multicast_table'[u][i] = {}
    BY <1>5, <2>1 DEF StartApplication, TypeOK, CastTable
  <2> QED
    BY <1>5, <2>2, <2>3
<1>7. CASE UNCHANGED <<net, probes, served, resolution_table, unicast_table, multicast_table>>
  BY <1>5, <1>7
<1>8. \/ \E s \in Switch : StartApplication(s)
      \/ \E s \in Switch : StopApplication(s)
      \/ UNCHANGED vars
  BY <1>4, <1>5 DEF Next, Startup, DetecAllNeighborDelay, Write, Read, ClientSends
<1> QED
  BY <1>6, <1>7, <1>8 DEF StopApplication, vars

\* The tables and the set of stopped switches only grow.
Grows ==
  /\ \A s \in Switch : \A i \in IfNum :
       /\ unicast_table[s][i] \subseteq unicast_table'[s][i]
       /\ multicast_table[s][i] \subseteq multicast_table'[s][i]
  /\ \A s \in Switch : status[s] = "stopped" => status'[s] = "stopped"
  /\ \A e \in EID : Addresses(resolution_table[e]) \subseteq Addresses(resolution_table'[e])

LEMMA GrowsStep == TypeOK /\ QuietBeforeStart /\ [Next]_vars => Grows
<1> SUFFICES ASSUME TypeOK, QuietBeforeStart, [Next]_vars PROVE Grows
  OBVIOUS
<1> USE DEF startVars, castVars
<1>1. ASSUME NEW s \in Switch, StartApplication(s) PROVE Grows
  <2>1. ~ AllStarted
    BY <1>1 DEF StartApplication, AllStarted
  <2>2. \A u \in Switch : \A i \in IfNum :
          unicast_table[u][i] = {} /\ multicast_table[u][i] = {}
    BY <2>1 DEF QuietBeforeStart
  <2> QED
    BY <1>1, <2>2 DEF StartApplication, Grows, TypeOK
<1>2. ASSUME NEW s \in Switch, StopApplication(s) PROVE Grows
  BY <1>2 DEF StopApplication, Grows, TypeOK
<1>3. ASSUME UNCHANGED <<status, unicast_table, multicast_table, resolution_table>>
      PROVE  Grows
  BY <1>3 DEF Grows
<1>4. ASSUME NEW p \in net, RouteInput(p) \/ Drop(p) PROVE Grows
  <2>1. /\ p.dst \in Switch /\ NextNode(p) \in Node /\ InIf(p) \in IfNum
        /\ p.kind \in GroupKind => p.eid \in EID
    BY PacketOnRoute DEF TypeOK, PacketOK
  <2>2. ASSUME NEW s \in Switch, NEW e \in EID, UNCHANGED status,
               \/ UNCHANGED unicast_table
               \/ unicast_table' = AddCastTable(unicast_table, s, InIf(p), e),
               \/ UNCHANGED multicast_table
               \/ multicast_table' = AddCastTable(multicast_table, s, InIf(p), e),
               \/ UNCHANGED resolution_table
               \/ resolution_table' = AddEIDNAINFO(resolution_table, e, s)
        PROVE  Grows
    <3>1. \A u \in Switch : \A i \in IfNum : unicast_table[u][i] \subseteq unicast_table'[u][i]
      <4>1. CASE UNCHANGED unicast_table
        BY <4>1
      <4>2. CASE unicast_table' = AddCastTable(unicast_table, s, InIf(p), e)
        <5>1. unicast_table \in CastTable
          BY DEF TypeOK
        <5> QED
          BY <2>1, <4>2, <5>1, AddCastTableFacts
      <4> QED
        BY <2>2, <4>1, <4>2
    <3>2. \A u \in Switch : \A i \in IfNum : multicast_table[u][i] \subseteq multicast_table'[u][i]
      <4>1. CASE UNCHANGED multicast_table
        BY <4>1
      <4>2. CASE multicast_table' = AddCastTable(multicast_table, s, InIf(p), e)
        <5>1. multicast_table \in CastTable
          BY DEF TypeOK
        <5> QED
          BY <2>1, <4>2, <5>1, AddCastTableFacts
      <4> QED
        BY <2>2, <4>1, <4>2
    <3>3. \A f \in EID : Addresses(resolution_table[f]) \subseteq Addresses(resolution_table'[f])
      BY <2>2, AddEIDNAINFOFacts DEF TypeOK
    <3> QED
      BY <2>2, <3>1, <3>2, <3>3 DEF Grows
  <2>3. CASE TransitRegistToRN(p) \/ TransitGraft(p)
    BY <2>1, <2>2, <2>3 DEF TransitRegistToRN, TransitGraft, Running, GroupKind
  <2>4. CASE RegistToSourceDR(p)
    <3>1. p.eid \in EID
      BY <2>1, <2>4 DEF RegistToSourceDR, GroupKind
    <3> QED
      BY <2>1, <2>2, <2>4, <3>1 DEF RegistToSourceDR
  <2>5. CASE RegistToRN(p)
    BY <2>1, <2>2, <2>5 DEF RegistToRN, GroupKind
  <2>6. CASE RegistToDestDR(p) \/ GraftRequest(p)
    BY <2>1, <2>2, <2>6 DEF RegistToDestDR, GraftRequest, GroupKind
  <2>7. CASE \/ Forward(p) \/ MulticastDataTrans(p) \/ NeighInfoReceive(p)
             \/ NeighInfoReply(p) \/ Unread(p) \/ Drop(p)
    BY <1>3, <2>7 DEF Forward, MulticastDataTrans, NeighInfoReceive, NeighInfoReply, Unread, Drop
  <2> QED
    BY <1>4, <2>3, <2>4, <2>5, <2>6, <2>7 DEF RouteInput, FrontEnd
<1> QED
  BY <1>1, <1>2, <1>3, <1>4 DEF Next, Startup, DetecAllNeighborDelay, NeighInfoDetec,
     Write, Read, ClientSends, vars

-----------------------------------------------------------------------------
(* Where a new packet comes from.                                            *)

\* The node that packet q just crossed has entered q's group for the interface
\* that q came in on, unless no application runs there.
Crossed(q, table) ==
  LET n == NextNode(q) IN
    n \notin Switch \/ status'[n] = "stopped" \/ q.eid \in table[n][InIf(q)]

HandedOn(p, q, table) ==
  q \in net /\ q.kind = p.kind /\ Transits(q) /\ p = Forwarded(q) /\ Crossed(q, table)

GraftOrigin(p) ==
  \/ p.hop = 1 /\ p.dst \in Addresses(resolution_table[p.eid])
  \/ \E q \in net : HandedOn(p, q, multicast_table')

RegistrationOrigin(p) ==
  \/ p.hop = 1
  \/ \E q \in net : HandedOn(p, q, unicast_table')

DataOrigin(p) ==
  \/ \E q \in net : /\ q.kind = "GRAFITING_REQUEST" /\ Arrives(q)
                    /\ p.src = q.dst /\ p.dst = q.src /\ p.eid = q.eid
                    /\ q.eid \in multicast_table'[q.dst][InIf(q)]
  \/ \E q \in net : q.kind = p.kind /\ Transits(q) /\ p = Forwarded(q)

Origin ==
  \A p \in net' : p \notin net =>
    /\ p.kind = "GRAFITING_REQUEST" => GraftOrigin(p)
    /\ p.kind = "REGIST_TO_RN" => RegistrationOrigin(p)
    /\ p.kind = "MULTICAST_DATA_TRANS" => DataOrigin(p)

LEMMA ForwardedFields ==
  ASSUME NEW q \in Packet
  PROVE  /\ Forwarded(q).kind = q.kind /\ Forwarded(q).eid = q.eid
         /\ Forwarded(q).src = q.src /\ Forwarded(q).dst = q.dst
         /\ Forwarded(q).hop = q.hop + 1
  BY DEF Forwarded, Packet

LEMMA SendFields ==
  ASSUME NEW kind, NEW e, NEW from, NEW to, NEW p \in Send(kind, e, from, to)
  PROVE  /\ p.kind = kind /\ p.eid = e /\ p.src = from /\ p.dst = to /\ p.hop = 1
         /\ to \in Node
  BY DEF Send

LEMMA OriginStep == TypeOK /\ QuietBeforeStart /\ [Next]_vars => Origin
<1> SUFFICES ASSUME TypeOK, QuietBeforeStart, [Next]_vars PROVE Origin
  OBVIOUS
<1> USE DEF startVars, castVars
<1>1. ASSUME net' \subseteq net PROVE Origin
  BY <1>1 DEF Origin
<1>2. ASSUME NEW kind, NEW e, NEW from, NEW to,
             kind \notin {"GRAFITING_REQUEST", "REGIST_TO_RN", "MULTICAST_DATA_TRANS"},
             net' \subseteq net \cup Send(kind, e, from, to)
      PROVE  Origin
  BY <1>2, SendFields DEF Origin
<1>3. ASSUME NEW p \in net, RouteInput(p) \/ Drop(p) PROVE Origin
  <2>1. /\ p \in Packet /\ PacketOK(p)
        /\ p.dst \in Switch /\ NextNode(p) \in Node /\ InIf(p) \in IfNum
        /\ p.kind \in GroupKind => p.eid \in EID
    BY PacketOnRoute DEF TypeOK, PacketOK
  <2>a. AllStarted
    BY DEF QuietBeforeStart
  <2>f. /\ Forwarded(p).kind = p.kind /\ Forwarded(p).eid = p.eid
    BY <2>1, ForwardedFields
  <2>2. CASE Forward(p)
    <3>1. p.kind \in {"REGIST_TO_RN", "GRAFITING_REQUEST"} =>
            NextNode(p) \notin Switch \/ status'[NextNode(p)] = "stopped"
      BY <2>2, <2>a DEF Forward, Running, AllStarted, TypeOK
    <3>2. ASSUME NEW m \in net', m \notin net
          PROVE  /\ m = Forwarded(p) /\ m.kind = p.kind /\ Transits(p)
      BY <2>2, <2>f, <3>2 DEF Forward
    <3>3. ASSUME NEW m \in net', m \notin net, m.kind = "GRAFITING_REQUEST"
          PROVE  GraftOrigin(m)
      BY <3>1, <3>2, <3>3 DEF GraftOrigin, HandedOn, Crossed
    <3>4. ASSUME NEW m \in net', m \notin net, m.kind = "REGIST_TO_RN"
          PROVE  RegistrationOrigin(m)
      BY <3>1, <3>2, <3>4 DEF RegistrationOrigin, HandedOn, Crossed
    <3>5. ASSUME NEW m \in net', m \notin net, m.kind = "MULTICAST_DATA_TRANS"
          PROVE  DataOrigin(m)
      BY <3>2, <3>5 DEF DataOrigin
    <3> QED
      BY <3>3, <3>4, <3>5 DEF Origin
  <2>3. CASE TransitRegistToRN(p)
    <3>1. p.eid \in EID /\ NextNode(p) \in Switch /\ unicast_table \in CastTable
      BY <2>3, <2>1 DEF TransitRegistToRN, GroupKind, Running, TypeOK
    <3>2. p.eid \in unicast_table'[NextNode(p)][InIf(p)]
      BY <2>3, <2>1, <3>1, AddCastTableFacts DEF TransitRegistToRN
    <3>3. ASSUME NEW m \in net', m \notin net
          PROVE  m.kind = "REGIST_TO_RN" /\ RegistrationOrigin(m)
      BY <2>3, <2>f, <3>2, <3>3 DEF TransitRegistToRN, RegistrationOrigin, HandedOn, Crossed
    <3> QED
      BY <3>3 DEF Origin
  <2>4. CASE TransitGraft(p)
    <3>1. p.eid \in EID /\ NextNode(p) \in Switch /\ multicast_table \in CastTable
      BY <2>4, <2>1 DEF TransitGraft, GroupKind, Running, TypeOK
    <3>2. p.eid \in multicast_table'[NextNode(p)][InIf(p)]
      BY <2>4, <2>1, <3>1, AddCastTableFacts DEF TransitGraft
    <3>3. ASSUME NEW m \in net', m \notin net
          PROVE  \/ m \in Send("NEIGH_INFO_REPLY", Nil, NextNode(p), p.src)
                 \/ m = Forwarded(p)
      BY <2>4, <3>3 DEF TransitGraft
    <3>4. ASSUME NEW m \in net', m \notin net
          PROVE  \/ m.kind = "NEIGH_INFO_REPLY"
                 \/ m.kind = "GRAFITING_REQUEST" /\ GraftOrigin(m)
      BY <2>4, <2>f, <3>2, <3>3, <3>4, SendFields DEF TransitGraft, GraftOrigin, HandedOn, Crossed
    <3> QED
      BY <3>4 DEF Origin
  <2>5. CASE RegistToSourceDR(p)
    <3>1. PICK rn : net' \subseteq net \cup Send("REGIST_TO_RN", p.eid, p.dst, rn)
      BY <2>5 DEF RegistToSourceDR
    <3>2. ASSUME NEW m \in net', m \notin net
          PROVE  m.kind = "REGIST_TO_RN" /\ m.hop = 1
      BY <3>1, <3>2, SendFields
    <3> QED
      BY <3>2 DEF Origin, RegistrationOrigin
  <2>6. CASE RegistToDestDR(p)
    <3>1. PICK t \in FindNearestNode(resolution_table[p.eid], delay_table[p.dst]) :
            net' = (net \ {p}) \cup Send("GRAFITING_REQUEST", p.eid, p.dst, t)
      BY <2>6 DEF RegistToDestDR
    <3>2. p.eid \in EID
      BY <2>6, <2>1 DEF RegistToDestDR, GroupKind
    <3>3. resolution_table[p.eid] \in Seq(Switch) /\ delay_table[p.dst] \in DelayTable
      BY <3>2, <2>1 DEF TypeOK, ResolutionTable
    <3>4. t # Nil => t \in Addresses(resolution_table[p.eid])
      BY <3>3, FindNearestNodeFacts
    <3>5. ASSUME NEW m \in net', m \notin net
          PROVE  m.kind = "GRAFITING_REQUEST" /\ GraftOrigin(m)
      <4>1. /\ m.kind = "GRAFITING_REQUEST" /\ m.eid = p.eid /\ m.dst = t /\ m.hop = 1
            /\ t \in Node
        BY <3>1, <3>5, SendFields
      <4> QED
        BY <3>4, <4>1, TopologyAssumption DEF GraftOrigin
    <3> QED
      BY <3>5 DEF Origin
  <2>7. CASE GraftRequest(p)
    <3>1. p.eid \in EID /\ multicast_table \in CastTable
      BY <2>7, <2>1 DEF GraftRequest, GroupKind, TypeOK
    <3>2. p.eid \in multicast_table'[p.dst][InIf(p)]
      BY <2>7, <2>1, <3>1, AddCastTableFacts DEF GraftRequest
    <3>3. ASSUME NEW m \in net', m \notin net
          PROVE  \/ m \in Send("NEIGH_INFO_REPLY", Nil, p.dst, p.src)
                 \/ m \in Send("MULTICAST_DATA_TRANS", p.eid, p.dst, p.src)
      BY <2>7, <3>3 DEF GraftRequest
    <3>4. ASSUME NEW m \in net', m \notin net
          PROVE  \/ m.kind = "NEIGH_INFO_REPLY"
                 \/ m.kind = "MULTICAST_DATA_TRANS" /\ DataOrigin(m)
      BY <2>7, <3>2, <3>3, <3>4, SendFields DEF GraftRequest, DataOrigin
    <3> QED
      BY <3>4 DEF Origin
  <2>8. CASE RegistToRN(p) \/ NeighInfoReceive(p)
    <3>1. net' \subseteq net \cup Send("NEIGH_INFO_REPLY", Nil, p.dst, p.src)
      BY <2>8 DEF RegistToRN, NeighInfoReceive
    <3> QED
      BY <1>2, <3>1
  <2>9. CASE \/ MulticastDataTrans(p) \/ NeighInfoReply(p) \/ Unread(p) \/ Drop(p)
    BY <1>1, <2>9 DEF MulticastDataTrans, NeighInfoReply, Unread, Drop
  <2> QED
    BY <1>3, <2>2, <2>3, <2>4, <2>5, <2>6, <2>7, <2>8, <2>9 DEF RouteInput, FrontEnd
<1>4. ASSUME NEW c \in Client, Write(c) \/ Read(c) PROVE Origin
  <2>1. CASE Write(c)
    BY <1>2, <2>1 DEF Write, ClientSends
  <2>2. CASE Read(c)
    BY <1>2, <2>2 DEF Read, ClientSends
  <2> QED
    BY <1>4, <2>1, <2>2
<1>5. ASSUME NEW pr \in probes, NeighInfoDetec(pr[1], pr[2]) PROVE Origin
  BY <1>2, <1>5 DEF NeighInfoDetec
<1> QED
  BY <1>1, <1>3, <1>4, <1>5 DEF Next, Startup, StartApplication, StopApplication,
     DetecAllNeighborDelay, vars

-----------------------------------------------------------------------------
(* Entries along a route survive, and extend with the packet.                *)

LEMMA EnteredGrows ==
  ASSUME NEW st, NEW st2, NEW T, NEW T2, NEW e, NEW a \in Node, NEW b \in Node,
         NEW k \in Nat, k <= Len(Route[a][b]),
         \A s \in Switch : \A i \in IfNum : T[s][i] \subseteq T2[s][i],
         \A s \in Switch : st[s] = "stopped" => st2[s] = "stopped",
         EnteredAlong(st, T, e, a, b, k)
  PROVE  EnteredAlong(st2, T2, e, a, b, k)
<1>1. Route[a][b] \in Seq(Node) /\ IfOf \in [Node -> [Node -> 1 .. MaxIf]] /\ MaxIf \in Nat
  BY TopologyAssumption
<1>2. Len(Route[a][b]) \in Nat
  BY <1>1
<1> SUFFICES ASSUME NEW i \in 2 .. k
             PROVE  LET n == Route[a][b][i] IN
                      n \notin Switch \/ st2[n] = "stopped"
                        \/ e \in T2[n][IfOf[n][Route[a][b][i - 1]]]
  BY DEF EnteredAlong
<1> DEFINE n == Route[a][b][i]
<1> DEFINE m == Route[a][b][i - 1]
<1>3. n \in Node /\ m \in Node
  <2>1. i \in 1 .. Len(Route[a][b]) /\ i - 1 \in 1 .. Len(Route[a][b])
    BY <1>2
  <2>2. \A j \in 1 .. Len(Route[a][b]) : Route[a][b][j] \in Node
    BY <1>1
  <2> QED
    BY <2>1, <2>2
<1>4. IfOf[n][m] \in IfNum
  <2> HIDE DEF n, m
  <2>1. IfOf[n][m] \in 1 .. MaxIf
    BY <1>1, <1>3
  <2>2. 1 .. MaxIf \subseteq IfNum
    BY TopologyAssumption DEF IfNum
  <2> QED
    BY <2>1, <2>2
<1>5. n \notin Switch \/ st[n] = "stopped" \/ e \in T[n][IfOf[n][m]]
  BY DEF EnteredAlong
<1> QED
  BY <1>4, <1>5

LEMMA EnteredExtends ==
  ASSUME NEW st, NEW T, NEW q \in Packet, PacketOK(q),
         EnteredAlong(st, T, q.eid, q.src, q.dst, q.hop),
         NextNode(q) \notin Switch \/ st[NextNode(q)] = "stopped"
           \/ q.eid \in T[NextNode(q)][InIf(q)]
  PROVE  EnteredAlong(st, T, q.eid, q.src, q.dst, q.hop + 1)
<1>1. q.hop \in Nat
  BY DEF Packet
<1> SUFFICES ASSUME NEW i \in 2 .. q.hop + 1
             PROVE  LET n == Route[q.src][q.dst][i] IN
                      n \notin Switch \/ st[n] = "stopped"
                        \/ q.eid \in T[n][IfOf[n][Route[q.src][q.dst][i - 1]]]
  BY DEF EnteredAlong
<1>2. CASE i \in 2 .. q.hop
  BY <1>2 DEF EnteredAlong
<1>3. CASE i = q.hop + 1
  <2>1. i - 1 = q.hop
    BY <1>1, <1>3
  <2> QED
    BY <1>3, <2>1 DEF NextNode, InIf
<1>4. i \in 2 .. q.hop \/ i = q.hop + 1
  BY <1>1
<1> QED
  BY <1>2, <1>3, <1>4

-----------------------------------------------------------------------------
(* The inductive invariant.                                                  *)

TreeInv ==
  /\ TypeOK
  /\ QuietBeforeStart
  /\ GraftLeavesBranch
  /\ DataFollowsBranch
  /\ RegistrationLeavesPath
  /\ GraftsGoToRegistered
  /\ RegisteredHaveJoined

LEMMA TreeInit == Init => TreeInv
<1> SUFFICES ASSUME Init PROVE TreeInv
  OBVIOUS
<1>1. TypeOK /\ QuietBeforeStart
  BY TypeInit, QuietInit
<1>2. net = {} /\ served = {}
  BY DEF Init
<1>3. \A e \in EID : Addresses(resolution_table[e]) = {}
  BY DEF Init, Addresses
<1> QED
  BY <1>1, <1>2, <1>3 DEF TreeInv, GraftLeavesBranch, DataFollowsBranch,
     RegistrationLeavesPath, GraftsGoToRegistered, RegisteredHaveJoined

\* What a packet or an answer has entered so far stays entered after the step.
LEMMA Survives ==
  ASSUME TypeOK, Grows
  PROVE  /\ \A p \in net : EnteredAlong(status, multicast_table, p.eid, p.src, p.dst, p.hop)
              => EnteredAlong(status', multicast_table', p.eid, p.src, p.dst, p.hop)
         /\ \A p \in net : EnteredAlong(status, unicast_table, p.eid, p.src, p.dst, p.hop)
              => EnteredAlong(status', unicast_table', p.eid, p.src, p.dst, p.hop)
         /\ \A e, a, b : a \in Node /\ b \in Node
              /\ BranchJoined(e, a, b, Len(Route[a][b]))
              => EnteredAlong(status', multicast_table', e, a, b, Len(Route[a][b]))
<1>1. ASSUME NEW p \in net
      PROVE  /\ p.src \in Node /\ p.dst \in Node /\ p.src # p.dst
             /\ p.hop \in Nat /\ p.hop <= Len(Route[p.src][p.dst])
  <2>1. p \in Packet /\ PacketOK(p)
    BY <1>1 DEF TypeOK
  <2>2. p.src \in Node /\ p.dst \in Node /\ p.src # p.dst /\ p.hop \in Nat
    BY <2>1 DEF Packet, PacketOK
  <2>3. Route[p.src][p.dst] \in Seq(Node)
    BY <2>2, TopologyAssumption
  <2>4. Len(Route[p.src][p.dst]) \in Nat
    BY <2>3
  <2> QED
    BY <2>1, <2>2, <2>4 DEF PacketOK
<1>2. /\ \A s \in Switch : \A i \in IfNum :
           /\ unicast_table[s][i] \subseteq unicast_table'[s][i]
           /\ multicast_table[s][i] \subseteq multicast_table'[s][i]
      /\ \A s \in Switch : status[s] = "stopped" => status'[s] = "stopped"
  BY DEF Grows
<1>3. ASSUME NEW p \in net, EnteredAlong(status, multicast_table, p.eid, p.src, p.dst, p.hop)
      PROVE  EnteredAlong(status', multicast_table', p.eid, p.src, p.dst, p.hop)
  BY <1>1, <1>2, <1>3, EnteredGrows
<1>4. ASSUME NEW p \in net, EnteredAlong(status, unicast_table, p.eid, p.src, p.dst, p.hop)
      PROVE  EnteredAlong(status', unicast_table', p.eid, p.src, p.dst, p.hop)
  BY <1>1, <1>2, <1>4, EnteredGrows
<1>5. ASSUME NEW e, NEW a \in Node, NEW b \in Node,
             BranchJoined(e, a, b, Len(Route[a][b]))
      PROVE  EnteredAlong(status', multicast_table', e, a, b, Len(Route[a][b]))
  <2>1. Route[a][b] \in Seq(Node)
    BY TopologyAssumption
  <2>2. Len(Route[a][b]) \in Nat /\ Len(Route[a][b]) <= Len(Route[a][b])
    BY <2>1
  <2> QED
    BY <1>2, <1>5, <2>2, EnteredGrows DEF BranchJoined
<1> QED
  BY <1>3, <1>4, <1>5

LEMMA GraftStep == TreeInv /\ [Next]_vars => GraftLeavesBranch' /\ GraftsGoToRegistered'
<1> SUFFICES ASSUME TreeInv, [Next]_vars,
                    NEW p \in net', p.kind = "GRAFITING_REQUEST"
             PROVE  /\ EnteredAlong(status', multicast_table', p.eid, p.src, p.dst, p.hop)
                    /\ p.dst \in Addresses(resolution_table'[p.eid])
  BY DEF GraftLeavesBranch, GraftsGoToRegistered, BranchJoined
<1>1. Grows /\ Origin /\ TypeOK /\ TypeOK'
  BY GrowsStep, OriginStep, TypeStep DEF TreeInv
<1>2. p.eid \in EID /\ p.hop \in Nat
  BY <1>1 DEF TypeOK, PacketOK, GroupKind, Packet
<1>3. \A q \in net : q.kind = "GRAFITING_REQUEST" =>
        /\ EnteredAlong(status', multicast_table', q.eid, q.src, q.dst, q.hop)
        /\ q.dst \in Addresses(resolution_table[q.eid])
  BY <1>1, Survives DEF TreeInv, GraftLeavesBranch, GraftsGoToRegistered, BranchJoined
<1>4. CASE p \in net
  BY <1>1, <1>2, <1>3, <1>4 DEF Grows
<1>5. CASE p.hop = 1 /\ p.dst \in Addresses(resolution_table[p.eid])
  BY <1>1, <1>2, <1>5 DEF Grows, EnteredAlong
<1>6. ASSUME NEW q \in net, HandedOn(p, q, multicast_table')
      PROVE  /\ EnteredAlong(status', multicast_table', p.eid, p.src, p.dst, p.hop)
             /\ p.dst \in Addresses(resolution_table'[p.eid])
  <2>1. q \in Packet /\ PacketOK(q) /\ q.kind = "GRAFITING_REQUEST"
    BY <1>1, <1>6 DEF TypeOK, HandedOn
  <2>2. /\ p.eid = q.eid /\ p.src = q.src /\ p.dst = q.dst /\ p.hop = q.hop + 1
    BY <1>6, <2>1, ForwardedFields DEF HandedOn
  <2>3. EnteredAlong(status', multicast_table', q.eid, q.src, q.dst, q.hop + 1)
    BY <1>3, <1>6, <2>1, EnteredExtends DEF HandedOn, Crossed
  <2> QED
    BY <1>1, <1>2, <1>3, <2>1, <2>2, <2>3 DEF Grows
<1> QED
  BY <1>1, <1>4, <1>5, <1>6 DEF Origin, GraftOrigin

LEMMA RegistrationStep == TreeInv /\ [Next]_vars => RegistrationLeavesPath'
<1> SUFFICES ASSUME TreeInv, [Next]_vars, NEW p \in net', p.kind = "REGIST_TO_RN"
             PROVE  EnteredAlong(status', unicast_table', p.eid, p.src, p.dst, p.hop)
  BY DEF RegistrationLeavesPath
<1>1. Grows /\ Origin /\ TypeOK
  BY GrowsStep, OriginStep DEF TreeInv
<1>2. \A q \in net : q.kind = "REGIST_TO_RN" =>
        EnteredAlong(status', unicast_table', q.eid, q.src, q.dst, q.hop)
  BY <1>1, Survives DEF TreeInv, RegistrationLeavesPath
<1>3. CASE p \in net
  BY <1>2, <1>3
<1>4. CASE p.hop = 1
  <2>1. 2 .. p.hop = {}
    BY <1>4
  <2> QED
    BY <2>1 DEF EnteredAlong
<1>5. ASSUME NEW q \in net, HandedOn(p, q, unicast_table')
      PROVE  EnteredAlong(status', unicast_table', p.eid, p.src, p.dst, p.hop)
  <2>1. q \in Packet /\ PacketOK(q) /\ q.kind = "REGIST_TO_RN"
    BY <1>1, <1>5 DEF TypeOK, HandedOn
  <2>2. /\ p.eid = q.eid /\ p.src = q.src /\ p.dst = q.dst /\ p.hop = q.hop + 1
    BY <1>5, <2>1, ForwardedFields DEF HandedOn
  <2>3. EnteredAlong(status', unicast_table', q.eid, q.src, q.dst, q.hop + 1)
    BY <1>2, <1>5, <2>1, EnteredExtends DEF HandedOn, Crossed
  <2> QED
    BY <2>2, <2>3
<1> QED
  BY <1>1, <1>3, <1>4, <1>5 DEF Origin, RegistrationOrigin

LEMMA DataStep == TreeInv /\ [Next]_vars => DataFollowsBranch'
<1> SUFFICES ASSUME TreeInv, [Next]_vars PROVE DataFollowsBranch'
  OBVIOUS
<1> DEFINE Full(e, dr, t) ==
      EnteredAlong(status', multicast_table', e, dr, t, Len(Route[dr][t]))
<1>1. Grows /\ Origin /\ TypeOK /\ TypeOK'
  BY GrowsStep, OriginStep, TypeStep DEF TreeInv
<1>2. ASSUME NEW q \in net, q.kind = "MULTICAST_DATA_TRANS"
      PROVE  Full(q.eid, q.dst, q.src)
  <2>1. q.src \in Node /\ q.dst \in Node /\ q.src # q.dst
    BY <1>1 DEF TypeOK, Packet, PacketOK
  <2>2. BranchJoined(q.eid, q.dst, q.src, Len(Route[q.dst][q.src]))
    BY <1>2 DEF TreeInv, DataFollowsBranch
  <2> QED
    BY <1>1, <2>1, <2>2, Survives
<1>3. ASSUME NEW q \in net, q.kind = "GRAFITING_REQUEST", Arrives(q),
             q.eid \in multicast_table'[q.dst][InIf(q)]
      PROVE  Full(q.eid, q.src, q.dst)
  <2>1. q \in Packet /\ PacketOK(q)
    BY <1>1 DEF TypeOK
  <2>2. NextNode(q) = q.dst /\ q.hop + 1 = Len(Route[q.src][q.dst])
    BY <1>3, <2>1, PacketOnRoute DEF Arrives
  <2>3. EnteredAlong(status', multicast_table', q.eid, q.src, q.dst, q.hop)
    BY <1>1, <1>3, Survives DEF TreeInv, GraftLeavesBranch, BranchJoined
  <2>4. EnteredAlong(status', multicast_table', q.eid, q.src, q.dst, q.hop + 1)
    BY <1>3, <2>1, <2>2, <2>3, EnteredExtends
  <2> QED
    BY <2>2, <2>4
<1>4. ASSUME NEW p \in net', p.kind = "MULTICAST_DATA_TRANS"
      PROVE  Full(p.eid, p.dst, p.src)
  <2>1. CASE p \in net
    BY <1>2, <1>4, <2>1
  <2>2. CASE p \notin net
    <3>1. DataOrigin(p)
      BY <1>1, <1>4, <2>2 DEF Origin
    <3>2. ASSUME NEW q \in net, q.kind = p.kind, p = Forwarded(q)
          PROVE  Full(p.eid, p.dst, p.src)
      <4>1. p.eid = q.eid /\ p.src = q.src /\ p.dst = q.dst
        BY <1>1, <3>2, ForwardedFields DEF TypeOK
      <4> QED
        BY <1>2, <1>4, <3>2, <4>1
    <3>3. ASSUME NEW q \in net, q.kind = "GRAFITING_REQUEST", Arrives(q),
                 p.src = q.dst, p.dst = q.src, p.eid = q.eid,
                 q.eid \in multicast_table'[q.dst][InIf(q)]
          PROVE  Full(p.eid, p.dst, p.src)
      BY <1>3, <3>3
    <3> QED
      BY <3>1, <3>2, <3>3 DEF DataOrigin
  <2> QED
    BY <2>1, <2>2
<1>5. ASSUME NEW x \in served' PROVE Full(x[2], x[1], x[3])
  <2>1. CASE x \in served
    <3>1. BranchJoined(x[2], x[1], x[3], Len(Route[x[1]][x[3]]))
      BY <2>1 DEF TreeInv, DataFollowsBranch
    <3>2. x[1] \in Node /\ x[3] \in Node
      BY <1>1, <2>1 DEF TypeOK, Node
    <3> QED
      BY <1>1, <3>1, <3>2, Survives
  <2>2. CASE x \notin served
    <3>1. PICK q \in net : q.kind = "MULTICAST_DATA_TRANS" /\ x = <<q.dst, q.eid, q.src>>
      BY <1>5, <2>2 DEF Next, Startup, StartApplication, StopApplication,
         DetecAllNeighborDelay, NeighInfoDetec, Write, Read, ClientSends, RouteInput,
         FrontEnd, Forward, TransitRegistToRN, TransitGraft, RegistToSourceDR,
         RegistToRN, RegistToDestDR, GraftRequest, MulticastDataTrans,
         NeighInfoReceive, NeighInfoReply, Unread, Drop, vars
    <3> QED
      BY <1>2, <3>1
  <2> QED
    BY <2>1, <2>2
<1> QED
  BY <1>4, <1>5 DEF DataFollowsBranch, BranchJoined

LEMMA RegisteredStep == TreeInv /\ [Next]_vars => RegisteredHaveJoined'
<1> SUFFICES ASSUME TreeInv, [Next]_vars,
                    NEW e \in EID, NEW s \in Addresses(resolution_table'[e])
             PROVE  e \in multicast_table'[s][0]
  BY DEF RegisteredHaveJoined
<1> USE DEF startVars, castVars
<1>1. Grows /\ TypeOK
  BY GrowsStep DEF TreeInv
<1>2. 0 \in IfNum
  BY TopologyAssumption DEF IfNum
<1>3. ASSUME s \in Addresses(resolution_table[e]) PROVE e \in multicast_table'[s][0]
  <2>1. e \in multicast_table[s][0]
    BY <1>3 DEF TreeInv, RegisteredHaveJoined
  <2>2. s \in Switch
    <3>1. resolution_table[e] \in Seq(Switch)
      BY <1>1 DEF TypeOK, ResolutionTable
    <3> QED
      BY <1>3, <3>1 DEF Addresses
  <2> QED
    BY <1>1, <1>2, <2>1, <2>2 DEF Grows
<1>4. ASSUME NEW p \in net, NEW n \in Switch, p.eid \in EID,
             multicast_table' = AddCastTable(multicast_table, n, InIf(p), p.eid),
             resolution_table' = AddEIDNAINFO(resolution_table, p.eid, n)
      PROVE  e \in multicast_table'[s][0]
  <2>1. InIf(p) \in IfNum /\ multicast_table \in CastTable /\ resolution_table \in ResolutionTable
    BY <1>1, PacketOnRoute DEF TypeOK
  <2>2. p.eid \in multicast_table'[n][0]
    BY <1>4, <2>1, AddCastTableFacts
  <2>3. s \in Addresses(resolution_table[e]) \/ (e = p.eid /\ s = n)
    BY <1>4, <2>1, AddEIDNAINFOFacts
  <2> QED
    BY <1>3, <2>2, <2>3
<1>5. CASE UNCHANGED resolution_table
  BY <1>3, <1>5
<1>6. ASSUME NEW p \in net, TransitGraft(p) PROVE e \in multicast_table'[s][0]
  <2>1. p.eid \in EID /\ NextNode(p) \in Switch
    BY <1>1, <1>6 DEF TransitGraft, Running, TypeOK, PacketOK, GroupKind
  <2> QED
    BY <1>4, <1>6, <2>1 DEF TransitGraft
<1>7. ASSUME NEW p \in net, RegistToRN(p) PROVE e \in multicast_table'[s][0]
  <2>1. p.eid \in EID /\ p.dst \in Switch
    BY <1>1, <1>7 DEF RegistToRN, TypeOK, PacketOK, GroupKind
  <2> QED
    BY <1>4, <1>7, <2>1 DEF RegistToRN
<1>8. ASSUME NEW p \in net, RegistToSourceDR(p) PROVE e \in multicast_table'[s][0]
  <2>1. p.eid \in EID /\ p.dst \in Switch
    BY <1>1, <1>8 DEF RegistToSourceDR, TypeOK, PacketOK, GroupKind
  <2> QED
    BY <1>4, <1>5, <1>8, <2>1 DEF RegistToSourceDR
<1> QED
  BY <1>5, <1>6, <1>7, <1>8 DEF Next, Startup, StartApplication, StopApplication,
     DetecAllNeighborDelay, NeighInfoDetec, Write, Read, ClientSends, RouteInput,
     FrontEnd, Forward, TransitRegistToRN, RegistToDestDR, GraftRequest,
     MulticastDataTrans, NeighInfoReceive, NeighInfoReply, Unread, Drop, vars

LEMMA TreeStep == TreeInv /\ [Next]_vars => TreeInv'
  BY TypeStep, QuietStep, GraftStep, RegistrationStep, DataStep, RegisteredStep DEF TreeInv

LEMMA TreeInvariant == Spec => []TreeInv
<1> QED
  BY TreeInit, TreeStep, PTL DEF Spec

\* For every topology, with loss, stops and reordering: the switches a
\* GRAFITING_REQUEST has crossed all hold the group for the way back.
THEOREM GraftLeavesBranchAlways == Spec => []GraftLeavesBranch
<1>1. TreeInv => GraftLeavesBranch
  BY DEF TreeInv
<1> QED
  BY <1>1, TreeInvariant, PTL

\* No DR is answered, now or earlier, before the whole branch between it and the
\* answering switch has joined the tree.
THEOREM DataFollowsBranchAlways == Spec => []DataFollowsBranch
<1>1. TreeInv => DataFollowsBranch
  BY DEF TreeInv
<1> QED
  BY <1>1, TreeInvariant, PTL

\* What an RN registration leaves in UnicastTable leads back to the source DR.
THEOREM RegistrationLeavesPathAlways == Spec => []RegistrationLeavesPath
<1>1. TreeInv => RegistrationLeavesPath
  BY DEF TreeInv
<1> QED
  BY <1>1, TreeInvariant, PTL

\* The resolution table only names switches that have joined the group, and
\* FindNearestNode only sends grafts to such switches.
THEOREM RegisteredAlways == Spec => [](RegisteredHaveJoined /\ GraftsGoToRegistered)
<1>1. TreeInv => RegisteredHaveJoined /\ GraftsGoToRegistered
  BY DEF TreeInv
<1> QED
  BY <1>1, TreeInvariant, PTL
=============================================================================
