-------------------------- MODULE SeanetTableProofs --------------------------
(***************************************************************************)
(* Proofs about the shared tables of SeanetMulticast: the load a switch is  *)
(* judged by, the resolution table as an implementation of EidRegistry, the *)
(* root of the tree in SPT mode, and that the tree is connected.            *)
(*                                                                          *)
(* A step changes a table in one way only (Enters, Registers): AddCastTable *)
(* for an interface other than the loopback, and AddEIDNAINFO.  What         *)
(* StartApplication resets is empty (QuietBeforeStart).                     *)
(***************************************************************************)
EXTENDS SeanetMulticastProofs, WellFoundedInduction

Enters(t, u) ==
  \/ u = t
  \/ \E s \in Switch, i \in IfNum \ {0}, e \in EID : u = AddCastTable(t, s, i, e)

Registers(t, u) ==
  \/ u = t
  \/ \E e \in EID, s \in Switch : u = AddEIDNAINFO(t, e, s)

\* Resetting a key that holds nothing changes nothing.
LEMMA ResetNothing ==
  ASSUME NEW t \in CastTable, NEW s \in Switch, t[s][0] = {}
  PROVE  [t EXCEPT ![s][0] = {}] = t
<1> DEFINE row == [t[s] EXCEPT ![0] = {}]
<1>1. t[s] \in [IfNum -> SUBSET EID] /\ t \in [Switch -> [IfNum -> SUBSET EID]]
  BY DEF CastTable
<1>2. row = t[s]
  BY <1>1
<1>3. [t EXCEPT ![s][0] = {}] = [t EXCEPT ![s] = row]
  OBVIOUS
<1> HIDE DEF row
<1>4. [t EXCEPT ![s] = row] = t
  BY <1>1, <1>2
<1> QED
  BY <1>3, <1>4

LEMMA TablesStep ==
  ASSUME TypeOK, QuietBeforeStart, [Next]_vars
  PROVE  /\ Enters(unicast_table, unicast_table')
         /\ Enters(multicast_table, multicast_table')
         /\ Registers(resolution_table, resolution_table')
<1> USE DEF startVars, castVars
<1> DEFINE Goal == /\ Enters(unicast_table, unicast_table')
                   /\ Enters(multicast_table, multicast_table')
                   /\ Registers(resolution_table, resolution_table')
<1>1. ASSUME NEW s \in Switch, StartApplication(s) PROVE Goal
  <2>1. ~ AllStarted
    BY <1>1 DEF StartApplication, AllStarted
  <2>2. 0 \in IfNum
    BY TopologyAssumption DEF IfNum
  <2>3. unicast_table[s][0] = {} /\ multicast_table[s][0] = {}
    BY <2>1, <2>2 DEF QuietBeforeStart
  <2>4. unicast_table \in CastTable /\ multicast_table \in CastTable
    BY DEF TypeOK
  <2>5. unicast_table' = unicast_table /\ multicast_table' = multicast_table
    BY <1>1, <2>3, <2>4, ResetNothing DEF StartApplication
  <2>6. resolution_table' = resolution_table
    BY <1>1 DEF StartApplication
  <2> QED
    BY <2>5, <2>6 DEF Enters, Registers
<1>2. ASSUME UNCHANGED <<unicast_table, multicast_table, resolution_table>> PROVE Goal
  BY <1>2 DEF Enters, Registers
<1>3. ASSUME NEW p \in net, RouteInput(p) \/ Drop(p) PROVE Goal
  <2>0. InIf(p) \in 1 .. MaxIf
    BY PacketOnRoute DEF TypeOK
  <2>1. /\ p.dst \in Switch /\ InIf(p) \in IfNum \ {0}
        /\ p.kind \in GroupKind => p.eid \in EID
    BY <2>0, TopologyAssumption DEF TypeOK, PacketOK, IfNum
  <2>2. ASSUME NEW s \in Switch, NEW e \in EID,
               \/ UNCHANGED unicast_table
               \/ unicast_table' = AddCastTable(unicast_table, s, InIf(p), e),
               \/ UNCHANGED multicast_table
               \/ multicast_table' = AddCastTable(multicast_table, s, InIf(p), e),
               \/ UNCHANGED resolution_table
               \/ resolution_table' = AddEIDNAINFO(resolution_table, e, s)
        PROVE  Goal
    <3>1. Enters(unicast_table, unicast_table')
      BY <2>1, <2>2 DEF Enters
    <3>2. Enters(multicast_table, multicast_table')
      BY <2>1, <2>2 DEF Enters
    <3>3. Registers(resolution_table, resolution_table')
      BY <2>2 DEF Registers
    <3> QED
      BY <3>1, <3>2, <3>3
  <2> HIDE DEF Goal
  <2>3. CASE TransitRegistToRN(p) \/ TransitGraft(p)
    BY <2>1, <2>2, <2>3 DEF TransitRegistToRN, TransitGraft, Running, GroupKind
  <2>4. CASE RegistToSourceDR(p)
    <3>1. p.eid \in EID
      BY <2>1, <2>4 DEF RegistToSourceDR, GroupKind
    <3> QED
      BY <2>1, <2>2, <2>4, <3>1 DEF RegistToSourceDR
  <2>5. CASE RegistToRN(p)
    BY <2>1, <2>2, <2>5 DEF RegistToRN, GroupKind
  <2>6. CASE RegistToDestDR(p) \/ GraftRequest(p)
    BY <2>1, <2>2, <2>6 DEF RegistToDestDR, GraftRequest, GroupKind
  <2>7. CASE \/ Forward(p) \/ MulticastDataTrans(p) \/ NeighInfoReceive(p)
             \/ NeighInfoReply(p) \/ Unread(p) \/ Drop(p)
    BY <1>2, <2>7 DEF Forward, MulticastDataTrans, NeighInfoReceive, NeighInfoReply, Unread, Drop
  <2> QED
    BY <1>3, <2>3, <2>4, <2>5, <2>6, <2>7 DEF RouteInput, FrontEnd
<1> HIDE DEF Goal
<1>4. Goal
  BY <1>1, <1>2, <1>3 DEF Next, Startup, StopApplication, DetecAllNeighborDelay,
     NeighInfoDetec, Write, Read, ClientSends, vars
<1> QED
  BY <1>4 DEF Goal

-----------------------------------------------------------------------------
(* The load of a switch.                                                     *)

\* What AddCastTable leaves under every key.
LEMMA AddCastTableAt ==
  ASSUME NEW t \in CastTable, NEW s \in Switch, NEW i \in IfNum, NEW e \in EID,
         NEW k \in Switch, NEW j \in IfNum
  PROVE  AddCastTable(t, s, i, e)[k][j] =
           IF k = s /\ j \in {0, i} THEN t[k][j] \cup {e} ELSE t[k][j]
<1> DEFINE row == [n \in IfNum |-> IF n \in {0, i} THEN t[s][n] \cup {e} ELSE t[s][n]]
<1>1. AddCastTable(t, s, i, e) = [t EXCEPT ![s] = row]
  BY DEF AddCastTable
<1>2. AddCastTable(t, s, i, e)[k] = IF k = s THEN row ELSE t[k]
  BY <1>1 DEF CastTable
<1>3. row[j] = IF j \in {0, i} THEN t[s][j] \cup {e} ELSE t[s][j]
  OBVIOUS
<1> HIDE DEF row
<1> QED
  BY <1>2, <1>3

Balanced(t) == \A s \in Switch : t[s][0] = UNION {t[s][i] : i \in 1 .. MaxIf}

LEMMA EntersBalanced ==
  ASSUME NEW t \in CastTable, NEW u, Enters(t, u), Balanced(t)
  PROVE  Balanced(u)
<1>1. CASE u = t
  BY <1>1
<1>2. ASSUME NEW s \in Switch, NEW i \in IfNum \ {0}, NEW e \in EID,
             u = AddCastTable(t, s, i, e)
      PROVE  Balanced(u)
  <2>1. 0 \in IfNum
    BY TopologyAssumption DEF IfNum
  <2>2. \A k \in Switch, j \in IfNum :
          u[k][j] = IF k = s /\ j \in {0, i} THEN t[k][j] \cup {e} ELSE t[k][j]
    BY <1>2, AddCastTableAt
  <2> DEFINE J == 1 .. MaxIf
  <2>3. J = IfNum \ {0}
    BY TopologyAssumption DEF IfNum
  <2>4. \A k \in Switch : t[k][0] = UNION {t[k][j] : j \in J}
    BY DEF Balanced
  <2> HIDE DEF J
  <2>5. ASSUME NEW k \in Switch PROVE u[k][0] = UNION {u[k][j] : j \in J}
    <3>1. CASE k = s
      <4>1. u[k][0] = t[k][0] \cup {e} /\ u[k][i] = t[k][i] \cup {e}
        BY <2>1, <2>2, <3>1
      <4>2. \A j \in J : u[k][j] = t[k][j] \/ u[k][j] = t[k][j] \cup {e}
        BY <2>2, <2>3
      <4>3. \A j \in J : t[k][j] \subseteq u[k][j]
        BY <4>2
      <4>4. ASSUME NEW x \in u[k][0] PROVE x \in UNION {u[k][j] : j \in J}
        BY <2>3, <2>4, <4>1, <4>3
      <4>5. ASSUME NEW x \in UNION {u[k][j] : j \in J} PROVE x \in u[k][0]
        BY <2>4, <4>1, <4>2
      <4> QED
        BY <4>4, <4>5
    <3>2. CASE k # s
      <4>1. u[k][0] = t[k][0] /\ \A j \in J : u[k][j] = t[k][j]
        BY <2>1, <2>2, <2>3, <3>2
      <4>2. {u[k][j] : j \in J} = {t[k][j] : j \in J}
        BY <4>1
      <4> QED
        BY <2>4, <4>1, <4>2
    <3> QED
      BY <3>1, <3>2
  <2> QED
    BY <2>5 DEF Balanced, J
<1> QED
  BY <1>1, <1>2 DEF Enters

LoadInv == TypeOK /\ QuietBeforeStart /\ Balanced(unicast_table) /\ Balanced(multicast_table)

LEMMA LoadInit == Init => LoadInv
<1> SUFFICES ASSUME Init PROVE LoadInv
  OBVIOUS
<1>1. TypeOK /\ QuietBeforeStart
  BY TypeInit, QuietInit
<1>2. 0 \in IfNum /\ \A i \in 1 .. MaxIf : i \in IfNum
  BY TopologyAssumption DEF IfNum
<1>3. \A s \in Switch, i \in IfNum : unicast_table[s][i] = {} /\ multicast_table[s][i] = {}
  BY DEF Init
<1>4. Balanced(unicast_table)
  BY <1>2, <1>3 DEF Balanced
<1>5. Balanced(multicast_table)
  BY <1>2, <1>3 DEF Balanced
<1> QED
  BY <1>1, <1>4, <1>5 DEF LoadInv

LEMMA LoadStep == LoadInv /\ [Next]_vars => LoadInv'
<1> SUFFICES ASSUME LoadInv, [Next]_vars PROVE LoadInv'
  OBVIOUS
<1>1. TypeOK /\ QuietBeforeStart
  BY DEF LoadInv
<1>2. TypeOK' /\ QuietBeforeStart'
  BY <1>1, TypeStep, QuietStep
<1>3. Enters(unicast_table, unicast_table') /\ Enters(multicast_table, multicast_table')
  BY <1>1, TablesStep
<1>4. unicast_table \in CastTable /\ multicast_table \in CastTable
  BY <1>1 DEF TypeOK
<1>5. Balanced(unicast_table') /\ Balanced(multicast_table')
  BY <1>3, <1>4, EntersBalanced DEF LoadInv
<1> QED
  BY <1>2, <1>5 DEF LoadInv, Balanced

\* What GetSwitchSocre counts under (local, 0) is at every time what the switch
\* holds on its interfaces: AddCastTable is always called for both keys, and the
\* reset at the start of a switch comes before any entry.
THEOREM LoadAlways == Spec => []LoadIsWhatInterfacesHold
<1>1. LoadInv => LoadIsWhatInterfacesHold
  BY DEF LoadInv, Balanced, LoadIsWhatInterfacesHold
<1> QED
  BY <1>1, LoadInit, LoadStep, PTL DEF Spec

-----------------------------------------------------------------------------
(* The resolution table implements EidRegistry.                              *)

QuietInv == TypeOK /\ QuietBeforeStart

LEMMA QuietInvariant == Spec => []QuietInv
<1>1. Init => QuietInv
  BY TypeInit, QuietInit DEF QuietInv
<1>2. QuietInv /\ [Next]_vars => QuietInv'
  BY TypeStep, QuietStep DEF QuietInv
<1> QED
  BY <1>1, <1>2, PTL DEF Spec

LEMMA RegistryStep == QuietInv /\ [Next]_vars => [Registry!Next]_resolution_table
<1> SUFFICES ASSUME QuietInv, [Next]_vars, resolution_table' # resolution_table
             PROVE  Registry!Next
  OBVIOUS
<1>1. resolution_table \in ResolutionTable
  BY DEF QuietInv, TypeOK
<1>2. PICK e \in EID, s \in Switch : resolution_table' = AddEIDNAINFO(resolution_table, e, s)
  BY TablesStep DEF QuietInv, Registers
<1>3. s \notin Addresses(resolution_table[e])
  <2> SUFFICES ASSUME s \in Addresses(resolution_table[e]) PROVE FALSE
    OBVIOUS
  <2>1. resolution_table' = [resolution_table EXCEPT ![e] = resolution_table[e]]
    BY <1>2 DEF AddEIDNAINFO
  <2> QED
    BY <1>1, <2>1 DEF ResolutionTable
<1>4. resolution_table' = [resolution_table EXCEPT ![e] = Append(resolution_table[e], s)]
  BY <1>2, <1>3 DEF AddEIDNAINFO
<1>5. Registry!Register(e, s)
  BY <1>3, <1>4 DEF Registry!Register, Registry!Registered, Addresses
<1> QED
  BY <1>5 DEF Registry!Next

\* The tables that the switches share implement the registry of EidRegistry: every
\* call of AddEIDNAINFO, from whichever handler, appends one new address at the
\* end of one list or changes nothing.
THEOREM ImplementsRegistryAlways == Spec => ImplementsRegistry
<1>1. Init => Registry!Init
  BY DEF Init, Registry!Init
<1> QED
  BY <1>1, QuietInvariant, RegistryStep, PTL DEF Spec, ImplementsRegistry, Registry!Spec

-----------------------------------------------------------------------------
(* The root of an SPT.                                                       *)

\* In an SPT no registration travels on to an RN, a source DR only hears of its
\* own groups, and so the first entry of a list comes from a source DR: a graft
\* goes to a registered switch, so that a list it extends is not empty.
SourcesAsk ==
  \A p \in net :
    /\ p.kind # "REGIST_TO_RN"
    /\ p.kind = "REGIST_TO_SOURCE_DR" => p.dst \in SourceDrs(p.eid)

SptInv == TreeInv /\ (tree_type = "SPT" => SourcesAsk) /\ SptRootIsSource

\* The kind of tree is that of the start.
LEMMA SameTreeType ==
  ASSUME [Next]_vars
  PROVE  tree_type' = tree_type
<1> USE DEF startVars
<1>1. ASSUME NEW s \in Switch, StartApplication(s) \/ StopApplication(s) \/ DetecAllNeighborDelay(s)
      PROVE  tree_type' = tree_type
  BY <1>1 DEF StartApplication, StopApplication, DetecAllNeighborDelay
<1>2. ASSUME NEW pr, NeighInfoDetec(pr[1], pr[2]) PROVE tree_type' = tree_type
  BY <1>2 DEF NeighInfoDetec
<1>3. ASSUME NEW c, Write(c) \/ Read(c) PROVE tree_type' = tree_type
  BY <1>3 DEF Write, Read, ClientSends
<1>4. ASSUME NEW p, FrontEnd(p) PROVE tree_type' = tree_type
  BY <1>4 DEF FrontEnd, RegistToSourceDR, RegistToRN, RegistToDestDR, GraftRequest,
              MulticastDataTrans, NeighInfoReceive, NeighInfoReply
<1>5. ASSUME NEW p, RouteInput(p) \/ Drop(p) PROVE tree_type' = tree_type
  BY <1>4, <1>5 DEF RouteInput, Forward, TransitRegistToRN, TransitGraft, Unread, Drop
<1> QED
  BY <1>1, <1>2, <1>3, <1>5 DEF Next, Startup, vars

LEMMA SourcesAskStep ==
  ASSUME tree_type = "SPT", TypeOK, SourcesAsk, [Next]_vars
  PROVE  SourcesAsk'
<1> USE DEF startVars, castVars
<1> DEFINE Asks(p) == /\ p.kind # "REGIST_TO_RN"
                      /\ p.kind = "REGIST_TO_SOURCE_DR" => p.dst \in SourceDrs(p.eid)
<1>1. \A p \in net : Asks(p)
  BY DEF SourcesAsk
<1>2. (\A p \in net' : Asks(p)) => SourcesAsk'
  BY DEF SourcesAsk, SourceDrs
<1>s. ASSUME NEW kind, kind \notin {"REGIST_TO_RN", "REGIST_TO_SOURCE_DR"},
             NEW e, NEW from, NEW to, NEW m \in Send(kind, e, from, to)
      PROVE  Asks(m)
  BY <1>s, SendFields
<1> HIDE DEF Asks
<1>3. ASSUME net' \subseteq net PROVE SourcesAsk'
  BY <1>1, <1>2, <1>3
<1>4. ASSUME NEW pr \in probes, NeighInfoDetec(pr[1], pr[2]) PROVE SourcesAsk'
  <2>1. \A m \in Send("NEIGH_INFO_RECEIVE", Nil, pr[1], pr[2]) : Asks(m)
    BY <1>s
  <2> QED
    BY <1>1, <1>2, <1>4, <2>1 DEF NeighInfoDetec
<1>5. ASSUME NEW c \in Client, Write(c) PROVE SourcesAsk'
  <2> DEFINE n == m_sent[c] + 1
  <2>0. m_sent[c] \in Nat /\ Count[c] \in Nat
    BY MulticastAssumption DEF TypeOK
  <2>1. n \in 1 .. Count[c]
    BY <1>5, <2>0 DEF Write, ClientSends
  <2>2. FunctionType[c] \in {"Write", "All"}
    BY <1>5 DEF Write
  <2> HIDE DEF n
  <2>3. Dr[c] \in SourceDrs(WriteEid[c][n])
    BY <2>1, <2>2 DEF SourceDrs
  <2>4. \A m \in Send("REGIST_TO_SOURCE_DR", WriteEid[c][n], c, Dr[c]) : Asks(m)
    BY <2>3, SendFields DEF Asks
  <2>5. net' = net \cup Send("REGIST_TO_SOURCE_DR", WriteEid[c][n], c, Dr[c])
    BY <1>5 DEF Write, ClientSends, n
  <2> QED
    BY <1>1, <1>2, <2>4, <2>5
<1>6. ASSUME NEW c \in Client, Read(c) PROVE SourcesAsk'
  <2>1. PICK e : net' = net \cup Send("REGIST_TO_DEST_DR", e, c, Dr[c])
    BY <1>6 DEF Read, ClientSends
  <2>2. \A m \in Send("REGIST_TO_DEST_DR", e, c, Dr[c]) : Asks(m)
    BY <1>s
  <2> QED
    BY <1>1, <1>2, <2>1, <2>2
<1>7. ASSUME NEW p \in net, RouteInput(p) \/ Drop(p) PROVE SourcesAsk'
  <2>1. p \in Packet
    BY DEF TypeOK
  <2>2. Asks(Forwarded(p))
    BY <1>1, <2>1, ForwardedFields DEF Asks
  <2>3. ASSUME NEW from, NEW to PROVE \A m \in Send("NEIGH_INFO_REPLY", Nil, from, to) : Asks(m)
    BY <1>s
  <2>4. CASE Forward(p) \/ TransitRegistToRN(p)
    BY <1>1, <1>2, <2>2, <2>4 DEF Forward, TransitRegistToRN
  <2>5. CASE TransitGraft(p)
    BY <1>1, <1>2, <2>2, <2>3, <2>5 DEF TransitGraft
  <2>6. CASE RegistToSourceDR(p)
    <3>1. net' \subseteq net
      BY <2>6 DEF RegistToSourceDR, RootNode
    <3> QED
      BY <1>3, <3>1
  <2>7. CASE RegistToRN(p) \/ NeighInfoReceive(p)
    BY <1>1, <1>2, <2>3, <2>7 DEF RegistToRN, NeighInfoReceive
  <2>8. CASE RegistToDestDR(p)
    <3>1. PICK t : net' = (net \ {p}) \cup Send("GRAFITING_REQUEST", p.eid, p.dst, t)
      BY <2>8 DEF RegistToDestDR
    <3>2. \A m \in Send("GRAFITING_REQUEST", p.eid, p.dst, t) : Asks(m)
      BY <1>s
    <3> QED
      BY <1>1, <1>2, <3>1, <3>2
  <2>9. CASE GraftRequest(p)
    <3>1. \A m \in Send("MULTICAST_DATA_TRANS", p.eid, p.dst, p.src) : Asks(m)
      BY <1>s
    <3> QED
      BY <1>1, <1>2, <2>3, <2>9, <3>1 DEF GraftRequest
  <2>10. CASE MulticastDataTrans(p) \/ NeighInfoReply(p) \/ Unread(p) \/ Drop(p)
    BY <1>3, <2>10 DEF MulticastDataTrans, NeighInfoReply, Unread, Drop
  <2> QED
    BY <1>7, <2>4, <2>5, <2>6, <2>7, <2>8, <2>9, <2>10 DEF RouteInput, FrontEnd
<1> QED
  BY <1>3, <1>4, <1>5, <1>6, <1>7 DEF Next, Startup, StartApplication, StopApplication,
     DetecAllNeighborDelay, vars

LEMMA RootStep ==
  ASSUME SptInv, tree_type = "SPT", [Next]_vars
  PROVE  SptRootIsSource'
<1> USE DEF startVars, castVars
<1>0. /\ TypeOK /\ QuietBeforeStart /\ SourcesAsk
      /\ resolution_table \in ResolutionTable
  BY DEF SptInv, TreeInv, TypeOK
<1>1. \A e \in EID : resolution_table[e] # <<>> => resolution_table[e][1] \in SourceDrs(e)
  BY DEF SptInv, SptRootIsSource
<1>2. (\A e \in EID : resolution_table'[e] # <<>> => resolution_table'[e][1] \in SourceDrs(e))
        => SptRootIsSource'
  BY DEF SptRootIsSource, SourceDrs
<1>3. ASSUME UNCHANGED resolution_table PROVE SptRootIsSource'
  BY <1>1, <1>2, <1>3
<1>4. ASSUME NEW f \in EID, NEW s \in Switch,
             resolution_table' = AddEIDNAINFO(resolution_table, f, s),
             resolution_table[f] # <<>> \/ s \in SourceDrs(f)
      PROVE  SptRootIsSource'
  <2>1. resolution_table \in [EID -> Seq(Switch)]
    BY <1>0 DEF ResolutionTable
  <2> DEFINE l == IF s \in Addresses(resolution_table[f]) THEN resolution_table[f]
                  ELSE Append(resolution_table[f], s)
  <2>2. resolution_table' = [resolution_table EXCEPT ![f] = l]
    BY <1>4 DEF AddEIDNAINFO
  <2>3. l # <<>> => l[1] \in SourceDrs(f)
    <3>1. resolution_table[f] \in Seq(Switch)
      BY <2>1
    <3>2. CASE resolution_table[f] = <<>>
      <4>1. Addresses(resolution_table[f]) = {}
        BY <3>2 DEF Addresses
      <4>2. l = <<s>>
        BY <3>2, <4>1
      <4> QED
        BY <1>4, <3>2, <4>2
    <3>3. CASE resolution_table[f] # <<>>
      <4>1. Append(resolution_table[f], s)[1] = resolution_table[f][1]
        BY <3>1, <3>3
      <4>2. resolution_table[f][1] \in SourceDrs(f)
        BY <1>1, <3>3
      <4> QED
        BY <4>1, <4>2
    <3> QED
      BY <3>2, <3>3
  <2> HIDE DEF l
  <2>4. \A e \in EID : resolution_table'[e] = IF e = f THEN l ELSE resolution_table[e]
    BY <2>1, <2>2
  <2> QED
    BY <1>1, <1>2, <2>3, <2>4
<1>5. ASSUME NEW p \in net, TransitGraft(p) PROVE SptRootIsSource'
  <2>1. p.eid \in EID /\ NextNode(p) \in Switch
    BY <1>0, <1>5 DEF TransitGraft, Running, TypeOK, PacketOK, GroupKind
  <2>2. p.dst \in Addresses(resolution_table[p.eid])
    BY <1>5 DEF TransitGraft, SptInv, TreeInv, GraftsGoToRegistered
  <2>3. resolution_table[p.eid] # <<>>
    BY <2>2 DEF Addresses
  <2> QED
    BY <1>4, <1>5, <2>1, <2>3 DEF TransitGraft
<1>6. ASSUME NEW p \in net, RegistToRN(p) PROVE FALSE
  BY <1>0, <1>6 DEF RegistToRN, SourcesAsk
<1>7. ASSUME NEW p \in net, RegistToSourceDR(p) PROVE SptRootIsSource'
  <2>1. p.eid \in EID /\ p.dst \in Switch
    BY <1>0, <1>7 DEF RegistToSourceDR, TypeOK, PacketOK, GroupKind
  <2>2. p.dst \in SourceDrs(p.eid)
    BY <1>0, <1>7 DEF RegistToSourceDR, SourcesAsk
  <2> QED
    BY <1>3, <1>4, <1>7, <2>1, <2>2 DEF RegistToSourceDR
<1> QED
  BY <1>3, <1>5, <1>6, <1>7 DEF Next, Startup, StartApplication, StopApplication,
     DetecAllNeighborDelay, NeighInfoDetec, Write, Read, ClientSends, RouteInput,
     FrontEnd, Forward, TransitRegistToRN, RegistToDestDR, GraftRequest,
     MulticastDataTrans, NeighInfoReceive, NeighInfoReply, Unread, Drop, vars

\* In SPT mode the first address registered for a group is that of a switch that
\* takes in what a client writes to the group, whatever is lost, stopped, reordered
\* or grafted: RootNode is the source DR itself, and a graft only registers the
\* switches it crosses for a group that already has an address.
THEOREM SptRootIsSourceAlways == Spec => []SptRootIsSource
<1>1. Init => SptInv
  <2> SUFFICES ASSUME Init PROVE SptInv
    OBVIOUS
  <2>1. TreeInv
    BY TreeInit
  <2>2. net = {} /\ \A e \in EID : resolution_table[e] = <<>>
    BY DEF Init
  <2> QED
    BY <2>1, <2>2 DEF SptInv, SourcesAsk, SptRootIsSource
<1>2. SptInv /\ [Next]_vars => SptInv'
  <2> SUFFICES ASSUME SptInv, [Next]_vars PROVE SptInv'
    OBVIOUS
  <2>1. TreeInv /\ TypeOK
    BY DEF SptInv, TreeInv
  <2>2. TreeInv'
    BY <2>1, TreeStep
  <2>3. tree_type' = tree_type
    BY SameTreeType
  <2>4. CASE tree_type = "SPT"
    <3>1. SourcesAsk'
      BY <2>1, <2>4, SourcesAskStep DEF SptInv
    <3>2. SptRootIsSource'
      BY <2>4, RootStep
    <3> QED
      BY <2>2, <3>1, <3>2 DEF SptInv
  <2>5. CASE tree_type # "SPT"
    BY <2>2, <2>3, <2>5 DEF SptInv, SptRootIsSource
  <2> QED
    BY <2>4, <2>5
<1>3. SptInv => SptRootIsSource
  BY DEF SptInv
<1> QED
  BY <1>1, <1>2, <1>3, PTL DEF Spec

-----------------------------------------------------------------------------
(* The tree is connected.                                                    *)
(*                                                                          *)
(* Switches register in the order in which grafts pass them, and a graft    *)
(* goes to a switch registered before it was sent.  So every switch of a    *)
(* group's list but the first hangs on a branch that ends at one listed      *)
(* earlier: joined to its end, or with the graft still under way beyond the  *)
(* switch.  Once no graft is under way, induction on the list shows that    *)
(* data from the first switch reaches all.                                  *)

\* Nothing gets lost and no application is stopped.
Dependable == ~ Lossy /\ Stoppable = {}

\* The routes between switches lead over links between switches.
PlainRoutes ==
  \A a, b \in Switch : a # b =>
    /\ \A i \in 1 .. Len(Route[a][b]) : Route[a][b][i] \in Switch
    /\ \A i \in 2 .. Len(Route[a][b]) :
         Route[Route[a][b][i]][Route[a][b][i - 1]] = <<Route[a][b][i], Route[a][b][i - 1]>>

\* No group is written twice (MulticastClient, GroupsWrittenOnce).
WrittenOnce ==
  \A c, d \in {w \in Client : FunctionType[w] \in {"Write", "All"}} :
    \A m \in 1 .. Count[c], n \in 1 .. Count[d] :
      WriteEid[c][m] = WriteEid[d][n] => c = d /\ m = n

NoneStopped == \A s \in Switch : status[s] # "stopped"

RegistKind == {"REGIST_TO_SOURCE_DR", "REGIST_TO_RN"}

\* A group is registered by one packet, sent when its writer comes to it; until
\* that packet is handled the group's list is empty.
RegisteredOnce ==
  /\ \A p \in net : p.kind \in RegistKind => resolution_table[p.eid] = <<>>
  /\ \A p, q \in net : p.kind \in RegistKind /\ q.kind \in RegistKind /\ p.eid = q.eid => p = q
  /\ \A c \in Client : \A n \in 1 .. Count[c] :
       FunctionType[c] \in {"Write", "All"} /\ m_sent[c] < n =>
         /\ resolution_table[WriteEid[c][n]] = <<>>
         /\ \A p \in net : p.kind \in RegistKind => p.eid # WriteEid[c][n]

\* Switch s is the i-th of a route from a to b that group e has joined, or that a
\* graft has come along at least as far as s.
OnBranch(st, table, packets, e, s, b) ==
  \E a \in Switch : a # b /\ \E i \in 1 .. Len(Route[a][b]) :
    /\ s = Route[a][b][i]
    /\ \/ EnteredAlong(st, table, e, a, b, Len(Route[a][b]))
       \/ \E p \in packets : /\ p.kind = "GRAFITING_REQUEST" /\ p.eid = e
                             /\ p.src = a /\ p.dst = b /\ i <= p.hop

\* Every address of a list but the first hangs on a branch that leads to an
\* earlier one.
Explained ==
  \A e \in EID : \A k \in 2 .. Len(resolution_table[e]) : \E j \in 1 .. k - 1 :
    OnBranch(status, multicast_table, net, e, resolution_table[e][k], resolution_table[e][j])

\* Who answers with data is registered for the group.
AnsweredByRegistered ==
  /\ \A p \in net : p.kind = "MULTICAST_DATA_TRANS" =>
       p.src \in Addresses(resolution_table[p.eid])
  /\ \A x \in served : x[1] # x[3] /\ x[3] \in Addresses(resolution_table[x[2]])

ConnectedInv ==
  /\ TreeInv
  /\ NoneStopped
  /\ RegisteredOnce
  /\ Explained
  /\ AnsweredByRegistered

LEMMA NoneStoppedStep ==
  ASSUME Dependable, TypeOK, NoneStopped, [Next]_vars
  PROVE  NoneStopped'
<1> USE DEF startVars, castVars
<1>1. ASSUME NEW s \in Switch, StartApplication(s) PROVE NoneStopped'
  BY <1>1 DEF StartApplication, NoneStopped, TypeOK
<1>2. ASSUME NEW s \in Switch, StopApplication(s) PROVE FALSE
  BY <1>2 DEF StopApplication, Dependable
<1>3. ASSUME UNCHANGED status PROVE NoneStopped'
  BY <1>3 DEF NoneStopped
<1> QED
  BY <1>1, <1>2, <1>3 DEF Next, Startup, DetecAllNeighborDelay, NeighInfoDetec, Write, Read,
     ClientSends, RouteInput, FrontEnd, Forward, TransitRegistToRN, TransitGraft,
     RegistToSourceDR, RegistToRN, RegistToDestDR, GraftRequest, MulticastDataTrans,
     NeighInfoReceive, NeighInfoReply, Unread, Drop, vars

\* A graft that is no longer in the network has been handed on, or has reached its
\* end, which has joined.
LEMMA GraftsGoOn ==
  ASSUME Dependable, TypeOK, QuietBeforeStart, NoneStopped, [Next]_vars,
         NEW p \in net, p.kind = "GRAFITING_REQUEST", p \notin net'
  PROVE  \/ Transits(p) /\ Forwarded(p) \in net'
         \/ Arrives(p) /\ p.eid \in multicast_table'[p.dst][InIf(p)]
<1> USE DEF startVars, castVars
<1> DEFINE Goal == \/ Transits(p) /\ Forwarded(p) \in net'
                   \/ Arrives(p) /\ p.eid \in multicast_table'[p.dst][InIf(p)]
<1>0. /\ p \in Packet /\ PacketOK(p) /\ p.dst \in Switch /\ p.eid \in EID
      /\ InIf(p) \in IfNum /\ multicast_table \in CastTable
  BY PacketOnRoute DEF TypeOK, PacketOK, GroupKind
<1>1. \A s \in Switch : status[s] = "running"
  BY DEF QuietBeforeStart, AllStarted, NoneStopped, TypeOK
<1>2. ASSUME NEW q \in net, RouteInput(q) \/ Drop(q), q # p PROVE FALSE
  <2>1. p \in net'
    BY <1>2 DEF RouteInput, FrontEnd, Forward, TransitRegistToRN, TransitGraft,
       RegistToSourceDR, RegistToRN, RegistToDestDR, GraftRequest, MulticastDataTrans,
       NeighInfoReceive, NeighInfoReply, Unread, Drop
  <2> QED
    BY <2>1
<1>3. ASSUME RouteInput(p) \/ Drop(p) PROVE Goal
  <2>1. CASE Forward(p)
    BY <2>1 DEF Forward
  <2>2. CASE TransitGraft(p)
    BY <2>2 DEF TransitGraft
  <2>3. CASE GraftRequest(p)
    <3>1. p.eid \in multicast_table'[p.dst][InIf(p)]
      BY <1>0, <2>3, AddCastTableFacts DEF GraftRequest
    <3> QED
      BY <2>3, <3>1 DEF GraftRequest
  <2>4. ~ Unread(p) /\ ~ Drop(p)
    BY <1>0, <1>1 DEF Unread, Running, Drop, Dependable
  <2> QED
    BY <1>3, <2>1, <2>2, <2>3, <2>4 DEF RouteInput, FrontEnd, TransitRegistToRN,
       RegistToSourceDR, RegistToRN, RegistToDestDR, MulticastDataTrans,
       NeighInfoReceive, NeighInfoReply
<1>4. \/ net \subseteq net'
      \/ \E q \in net : RouteInput(q) \/ Drop(q)
  BY DEF Next, Startup, StartApplication, StopApplication, DetecAllNeighborDelay,
     NeighInfoDetec, Write, Read, ClientSends, vars
<1> HIDE DEF Goal
<1>5. Goal
  BY <1>2, <1>3, <1>4
<1> QED
  BY <1>5 DEF Goal

\* What hangs on a branch goes on hanging there.
LEMMA OnBranchStep ==
  ASSUME Dependable, TreeInv, NoneStopped, [Next]_vars,
         NEW e \in EID, NEW s, NEW b \in Switch,
         OnBranch(status, multicast_table, net, e, s, b)
  PROVE  OnBranch(status', multicast_table', net', e, s, b)
<1>1. Grows /\ TypeOK /\ QuietBeforeStart
  BY GrowsStep DEF TreeInv
<1>2. PICK a \in Switch : a # b /\ \E i \in 1 .. Len(Route[a][b]) :
        /\ s = Route[a][b][i]
        /\ \/ EnteredAlong(status, multicast_table, e, a, b, Len(Route[a][b]))
           \/ \E p \in net : /\ p.kind = "GRAFITING_REQUEST" /\ p.eid = e
                             /\ p.src = a /\ p.dst = b /\ i <= p.hop
  BY DEF OnBranch
<1>3. PICK i \in 1 .. Len(Route[a][b]) :
        /\ s = Route[a][b][i]
        /\ \/ EnteredAlong(status, multicast_table, e, a, b, Len(Route[a][b]))
           \/ \E p \in net : /\ p.kind = "GRAFITING_REQUEST" /\ p.eid = e
                             /\ p.src = a /\ p.dst = b /\ i <= p.hop
  BY <1>2
<1> DEFINE Full == EnteredAlong(status', multicast_table', e, a, b, Len(Route[a][b]))
<1> DEFINE Under == \E p \in net' : /\ p.kind = "GRAFITING_REQUEST" /\ p.eid = e
                                   /\ p.src = a /\ p.dst = b /\ i <= p.hop
<1>4. Full \/ Under => OnBranch(status', multicast_table', net', e, s, b)
  BY <1>2, <1>3 DEF OnBranch
<1>5. a \in Node /\ b \in Node
  BY DEF Node
<1>6. CASE EnteredAlong(status, multicast_table, e, a, b, Len(Route[a][b]))
  BY <1>1, <1>4, <1>5, <1>6, Survives DEF BranchJoined
<1>7. ASSUME NEW p \in net, p.kind = "GRAFITING_REQUEST", p.eid = e,
             p.src = a, p.dst = b, i <= p.hop
      PROVE  Full \/ Under
  <2>1. p \in Packet /\ PacketOK(p) /\ p.hop \in Nat
    BY <1>1 DEF TypeOK, Packet
  <2>2. CASE p \in net'
    BY <1>7, <2>2
  <2>3. CASE Transits(p) /\ Forwarded(p) \in net'
    <3>1. /\ Forwarded(p).kind = p.kind /\ Forwarded(p).eid = p.eid
          /\ Forwarded(p).src = p.src /\ Forwarded(p).dst = p.dst
          /\ Forwarded(p).hop = p.hop + 1
      BY <2>1, ForwardedFields
    <3>2. i <= Forwarded(p).hop
      BY <1>2, <1>7, <2>1, <3>1
    <3> QED
      BY <1>7, <2>3, <3>1, <3>2
  <2>4. CASE Arrives(p) /\ p.eid \in multicast_table'[p.dst][InIf(p)]
    <3>1. NextNode(p) = p.dst /\ p.hop + 1 = Len(Route[p.src][p.dst])
      BY <2>1, <2>4, PacketOnRoute DEF Arrives
    <3>2. EnteredAlong(status', multicast_table', p.eid, p.src, p.dst, p.hop)
      BY <1>1, <1>7, Survives DEF TreeInv, GraftLeavesBranch, BranchJoined
    <3>3. EnteredAlong(status', multicast_table', p.eid, p.src, p.dst, p.hop + 1)
      BY <2>1, <2>4, <3>1, <3>2, EnteredExtends
    <3> QED
      BY <1>7, <3>1, <3>3
  <2> HIDE DEF Full, Under
  <2> QED
    BY <1>1, <1>7, <2>2, <2>3, <2>4, GraftsGoOn
<1> HIDE DEF Full, Under
<1> QED
  BY <1>3, <1>4, <1>6, <1>7

-----------------------------------------------------------------------------
(* Every group is registered by one packet.                                  *)

\* A step that sends no registration and starts no list.
LEMMA OnceQuiet ==
  ASSUME TypeOK, RegisteredOnce,
         \A q \in net' : q.kind \in RegistKind => q \in net,
         \A f \in EID : resolution_table[f] = <<>> => resolution_table'[f] = <<>>,
         \A c \in Client : m_sent[c] \in Nat /\ m_sent'[c] \in Nat /\ m_sent[c] <= m_sent'[c]
  PROVE  RegisteredOnce'
<1>1. \A q \in net' : q.kind \in RegistKind =>
        resolution_table[q.eid] = <<>> /\ q.eid \in EID
  BY DEF RegisteredOnce, TypeOK, PacketOK, RegistKind, GroupKind
<1>2. \A c \in Client : \A n \in 1 .. Count[c] : WriteEid[c][n] \in EID /\ n \in Nat
  BY MulticastAssumption
<1>3. ASSUME NEW c \in Client, NEW n \in 1 .. Count[c],
             FunctionType[c] \in {"Write", "All"}, m_sent'[c] < n
      PROVE  /\ resolution_table'[WriteEid[c][n]] = <<>>
             /\ \A p \in net' : p.kind \in RegistKind => p.eid # WriteEid[c][n]
  <2>1. m_sent[c] < n
    BY <1>2, <1>3
  <2> QED
    BY <1>2, <1>3, <2>1 DEF RegisteredOnce
<1>4. \A p, q \in net' : p.kind \in RegistKind /\ q.kind \in RegistKind /\ p.eid = q.eid => p = q
  BY DEF RegisteredOnce
<1> QED
  BY <1>1, <1>3, <1>4 DEF RegisteredOnce

\* A step that replaces one registration by another of the same group, or by none.
LEMMA OnceReplaced ==
  ASSUME TypeOK, RegisteredOnce, NEW p \in net, p.kind \in RegistKind,
         NEW r, r.eid = p.eid,
         \A q \in net' : q.kind \in RegistKind => (q \in net /\ q # p) \/ q = r,
         UNCHANGED <<resolution_table, m_sent>>
  PROVE  RegisteredOnce'
<1>1. \A q \in net' : q.kind \in RegistKind => \E o \in net : o.kind \in RegistKind /\ o.eid = q.eid
  OBVIOUS
<1>2. \A q \in net' : q.kind \in RegistKind => resolution_table[q.eid] = <<>>
  BY <1>1 DEF RegisteredOnce
<1>3. ASSUME NEW q \in net', q.kind \in RegistKind, NEW o \in net', o.kind \in RegistKind,
             q.eid = o.eid
      PROVE  q = o
  <2>1. \A m \in net : m.kind \in RegistKind /\ m.eid = p.eid => m = p
    BY DEF RegisteredOnce
  <2> QED
    BY <1>3, <2>1 DEF RegisteredOnce
<1>4. ASSUME NEW c \in Client, NEW n \in 1 .. Count[c],
             FunctionType[c] \in {"Write", "All"}, m_sent[c] < n
      PROVE  /\ resolution_table[WriteEid[c][n]] = <<>>
             /\ \A q \in net' : q.kind \in RegistKind => q.eid # WriteEid[c][n]
  BY <1>1, <1>4 DEF RegisteredOnce
<1> QED
  BY <1>2, <1>3, <1>4 DEF RegisteredOnce

\* The step that registers the group.
LEMMA OnceRegisters ==
  ASSUME TypeOK, RegisteredOnce, NEW p \in net, p.kind \in RegistKind, NEW s \in Switch,
         \A q \in net' : q.kind \in RegistKind => q \in net /\ q # p,
         resolution_table' = AddEIDNAINFO(resolution_table, p.eid, s), UNCHANGED m_sent
  PROVE  RegisteredOnce'
<1>0. \A q \in net : q.kind \in RegistKind => q.eid \in EID
  BY DEF TypeOK, PacketOK, RegistKind, GroupKind
<1>1. \A f \in EID : f # p.eid => resolution_table'[f] = resolution_table[f]
  BY DEF TypeOK, ResolutionTable, AddEIDNAINFO
<1>2. \A q \in net' : q.kind \in RegistKind => q.eid # p.eid
  BY DEF RegisteredOnce
<1>3. \A q \in net' : q.kind \in RegistKind => resolution_table'[q.eid] = <<>>
  BY <1>0, <1>1, <1>2 DEF RegisteredOnce
<1>4. ASSUME NEW c \in Client, NEW n \in 1 .. Count[c],
             FunctionType[c] \in {"Write", "All"}, m_sent[c] < n
      PROVE  /\ resolution_table'[WriteEid[c][n]] = <<>>
             /\ \A q \in net' : q.kind \in RegistKind => q.eid # WriteEid[c][n]
  <2>1. WriteEid[c][n] \in EID
    BY MulticastAssumption
  <2>2. /\ resolution_table[WriteEid[c][n]] = <<>>
        /\ \A q \in net : q.kind \in RegistKind => q.eid # WriteEid[c][n]
    BY <1>4 DEF RegisteredOnce
  <2> QED
    BY <1>1, <2>1, <2>2
<1>5. \A q, o \in net' : q.kind \in RegistKind /\ o.kind \in RegistKind /\ q.eid = o.eid => q = o
  BY DEF RegisteredOnce
<1> QED
  BY <1>3, <1>4, <1>5 DEF RegisteredOnce

LEMMA OnceWrites ==
  ASSUME WrittenOnce, TypeOK, RegisteredOnce, NEW c \in Client, Write(c)
  PROVE  RegisteredOnce'
<1> USE DEF startVars, castVars
<1> DEFINE k == m_sent[c] + 1
<1> DEFINE e == WriteEid[c][k]
<1>0. m_sent[c] \in Nat /\ Count[c] \in Nat
  BY MulticastAssumption DEF TypeOK
<1>1. k \in 1 .. Count[c] /\ m_sent[c] < k /\ FunctionType[c] \in {"Write", "All"}
  BY <1>0 DEF Write, ClientSends
<1>2. /\ net' = net \cup Send("REGIST_TO_SOURCE_DR", e, c, Dr[c])
      /\ m_sent' = [m_sent EXCEPT ![c] = k]
      /\ resolution_table' = resolution_table
  BY DEF Write, ClientSends
<1>3. \A d \in Client : m_sent[d] \in Nat /\ m_sent'[d] = IF d = c THEN k ELSE m_sent[d]
  BY <1>2 DEF TypeOK
<1>k. k \in Nat /\ k = m_sent[c] + 1
  BY <1>0
<1> HIDE DEF k, e
<1>4. /\ resolution_table[e] = <<>>
      /\ \A p \in net : p.kind \in RegistKind => p.eid # e
  BY <1>1 DEF RegisteredOnce, e
<1>5. ASSUME NEW p \in net', p \notin net PROVE p.eid = e /\ p \in Send("REGIST_TO_SOURCE_DR", e, c, Dr[c])
  BY <1>2, <1>5, SendFields
<1>6. \A p, q \in Send("REGIST_TO_SOURCE_DR", e, c, Dr[c]) : p = q
  BY DEF Send
<1>7. \A p \in net' : p.kind \in RegistKind => resolution_table[p.eid] = <<>>
  BY <1>4, <1>5 DEF RegisteredOnce
<1>8. \A p, q \in net' : p.kind \in RegistKind /\ q.kind \in RegistKind /\ p.eid = q.eid => p = q
  BY <1>4, <1>5, <1>6 DEF RegisteredOnce
<1>9. ASSUME NEW d \in Client, NEW n \in 1 .. Count[d],
             FunctionType[d] \in {"Write", "All"}, m_sent'[d] < n
      PROVE  /\ resolution_table[WriteEid[d][n]] = <<>>
             /\ \A p \in net' : p.kind \in RegistKind => p.eid # WriteEid[d][n]
  <2>1. Count[d] \in Nat /\ n \in Nat
    BY MulticastAssumption
  <2>2. m_sent[d] < n
    BY <1>3, <1>9, <1>k, <2>1
  <2>3. ~ (d = c /\ n = k)
    BY <1>3, <1>9, <1>k, <2>1
  <2>4. WriteEid[d][n] # e
    BY <1>1, <1>9, <2>3 DEF WrittenOnce, e
  <2>5. /\ resolution_table[WriteEid[d][n]] = <<>>
        /\ \A p \in net : p.kind \in RegistKind => p.eid # WriteEid[d][n]
    BY <1>9, <2>2 DEF RegisteredOnce
  <2> QED
    BY <1>5, <2>4, <2>5
<1> QED
  BY <1>2, <1>7, <1>8, <1>9 DEF RegisteredOnce

LEMMA RegisteredOnceStep ==
  ASSUME WrittenOnce, TreeInv, RegisteredOnce, [Next]_vars
  PROVE  RegisteredOnce'
<1> USE DEF startVars, castVars
<1>0. TypeOK
  BY DEF TreeInv
<1>1. ASSUME \A q \in net' : q.kind \in RegistKind => q \in net,
             UNCHANGED <<resolution_table, m_sent>>
      PROVE  RegisteredOnce'
  BY <1>0, <1>1, OnceQuiet DEF TypeOK
<1>s. ASSUME NEW kind, kind \notin RegistKind, NEW e, NEW from, NEW to,
             NEW m \in Send(kind, e, from, to)
      PROVE  m.kind \notin RegistKind
  BY <1>s, SendFields
<1>2. ASSUME NEW pr \in probes, NeighInfoDetec(pr[1], pr[2]) PROVE RegisteredOnce'
  <2>1. \A m \in Send("NEIGH_INFO_RECEIVE", Nil, pr[1], pr[2]) : m.kind \notin RegistKind
    BY <1>s DEF RegistKind
  <2> QED
    BY <1>1, <1>2, <2>1 DEF NeighInfoDetec
<1>3. ASSUME NEW c \in Client, Read(c) PROVE RegisteredOnce'
  <2>1. PICK e : net' = net \cup Send("REGIST_TO_DEST_DR", e, c, Dr[c])
    BY <1>3 DEF Read, ClientSends
  <2>2. \A m \in Send("REGIST_TO_DEST_DR", e, c, Dr[c]) : m.kind \notin RegistKind
    BY <1>s DEF RegistKind
  <2>3. /\ m_sent' = [m_sent EXCEPT ![c] = @ + 1] /\ m_sent \in [Client -> Nat]
        /\ resolution_table' = resolution_table
    BY <1>0, <1>3 DEF Read, ClientSends, TypeOK
  <2>4. \A d \in Client : m_sent[d] \in Nat /\ m_sent'[d] \in Nat /\ m_sent[d] <= m_sent'[d]
    BY <2>3
  <2> QED
    BY <1>0, <2>1, <2>2, <2>3, <2>4, OnceQuiet
<1>4. ASSUME NEW p \in net, RouteInput(p) \/ Drop(p) PROVE RegisteredOnce'
  <2>1. /\ p \in Packet /\ p.dst \in Switch
        /\ Forwarded(p).kind = p.kind /\ Forwarded(p).eid = p.eid
    BY <1>0, ForwardedFields DEF TypeOK, PacketOK
  <2>r. ASSUME NEW from, NEW to
        PROVE  \A m \in Send("NEIGH_INFO_REPLY", Nil, from, to) : m.kind \notin RegistKind
    BY <1>s DEF RegistKind
  <2>2. CASE Forward(p) \/ TransitRegistToRN(p)
    <3>1. net' = (net \ {p}) \cup {Forwarded(p)} /\ UNCHANGED <<resolution_table, m_sent>>
      BY <2>2 DEF Forward, TransitRegistToRN
    <3>2. CASE p.kind \in RegistKind
      BY <1>0, <2>1, <3>1, <3>2, OnceReplaced
    <3>3. CASE p.kind \notin RegistKind
      BY <1>1, <2>1, <3>1, <3>3
    <3> QED
      BY <3>2, <3>3
  <2>3. CASE TransitGraft(p)
    <3>1. p.kind \notin RegistKind
      BY <2>3 DEF TransitGraft, RegistKind
    <3>2. \A q \in net' : q.kind \in RegistKind => q \in net
      BY <2>1, <2>3, <2>r, <3>1 DEF TransitGraft
    <3>3. p.dst \in Addresses(resolution_table[p.eid])
      BY <2>3 DEF TransitGraft, TreeInv, GraftsGoToRegistered
    <3>4. resolution_table[p.eid] # <<>>
      BY <3>3 DEF Addresses
    <3>5. \A f \in EID : resolution_table[f] = <<>> => resolution_table'[f] = <<>>
      BY <1>0, <2>3, <3>4 DEF TransitGraft, AddEIDNAINFO, TypeOK, ResolutionTable
    <3>6. m_sent' = m_sent /\ m_sent \in [Client -> Nat]
      BY <1>0, <2>3 DEF TransitGraft, TypeOK
    <3>7. \A c \in Client : m_sent[c] \in Nat /\ m_sent'[c] \in Nat /\ m_sent[c] <= m_sent'[c]
      BY <3>6
    <3> QED
      BY <1>0, <3>2, <3>5, <3>7, OnceQuiet
  <2>4. CASE RegistToSourceDR(p)
    <3>1. p.kind \in RegistKind /\ UNCHANGED m_sent
      BY <2>4 DEF RegistToSourceDR, RegistKind
    <3>2. PICK rn :
            \/ /\ resolution_table' = AddEIDNAINFO(resolution_table, p.eid, p.dst)
               /\ net' = net \ {p}
            \/ /\ net' = (net \ {p}) \cup Send("REGIST_TO_RN", p.eid, p.dst, rn)
               /\ UNCHANGED resolution_table
      BY <2>4 DEF RegistToSourceDR
    <3>3. CASE /\ resolution_table' = AddEIDNAINFO(resolution_table, p.eid, p.dst)
               /\ net' = net \ {p}
      BY <1>0, <2>1, <3>1, <3>3, OnceRegisters
    <3>4. CASE /\ net' = (net \ {p}) \cup Send("REGIST_TO_RN", p.eid, p.dst, rn)
               /\ UNCHANGED resolution_table
      <4> DEFINE r == [kind |-> "REGIST_TO_RN", eid |-> p.eid, src |-> p.dst, dst |-> rn, hop |-> 1]
      <4>1. \A q \in net' : (q \in net /\ q # p) \/ q = r
        BY <3>4 DEF Send
      <4>2. r.eid = p.eid
        OBVIOUS
      <4> HIDE DEF r
      <4> QED
        BY <1>0, <3>1, <3>4, <4>1, <4>2, OnceReplaced
    <3> QED
      BY <3>2, <3>3, <3>4
  <2>5. CASE RegistToRN(p)
    <3>1. p.kind \in RegistKind /\ UNCHANGED m_sent
          /\ resolution_table' = AddEIDNAINFO(resolution_table, p.eid, p.dst)
      BY <2>5 DEF RegistToRN, RegistKind
    <3>2. \A q \in net' : q.kind \in RegistKind => q \in net /\ q # p
      BY <2>5, <2>r DEF RegistToRN
    <3> QED
      BY <1>0, <2>1, <3>1, <3>2, OnceRegisters
  <2>6. CASE RegistToDestDR(p)
    <3>1. PICK t : net' = (net \ {p}) \cup Send("GRAFITING_REQUEST", p.eid, p.dst, t)
      BY <2>6 DEF RegistToDestDR
    <3>2. \A m \in Send("GRAFITING_REQUEST", p.eid, p.dst, t) : m.kind \notin RegistKind
      BY <1>s DEF RegistKind
    <3> QED
      BY <1>1, <2>6, <3>1, <3>2 DEF RegistToDestDR
  <2>7. CASE GraftRequest(p)
    <3>1. \A m \in Send("MULTICAST_DATA_TRANS", p.eid, p.dst, p.src) : m.kind \notin RegistKind
      BY <1>s DEF RegistKind
    <3> QED
      BY <1>1, <2>7, <2>r, <3>1 DEF GraftRequest
  <2>8. CASE NeighInfoReceive(p)
    BY <1>1, <2>8, <2>r DEF NeighInfoReceive
  <2>9. CASE MulticastDataTrans(p) \/ NeighInfoReply(p) \/ Unread(p) \/ Drop(p)
    BY <1>1, <2>9 DEF MulticastDataTrans, NeighInfoReply, Unread, Drop
  <2> QED
    BY <1>4, <2>2, <2>3, <2>4, <2>5, <2>6, <2>7, <2>8, <2>9 DEF RouteInput, FrontEnd
<1>5. ASSUME NEW c \in Client, Write(c) PROVE RegisteredOnce'
  BY <1>0, <1>5, OnceWrites
<1> QED
  BY <1>1, <1>2, <1>3, <1>4, <1>5 DEF Next, Startup, StartApplication, StopApplication,
     DetecAllNeighborDelay, vars

-----------------------------------------------------------------------------
(* Every registered switch hangs on the tree.                                *)

\* A switch is appended to the list of a group that hangs on a branch leading to
\* one of the list; the first of a list needs none.
LEMMA ExplainedAppends ==
  ASSUME TypeOK, Explained, NEW e \in EID, NEW s \in Switch,
         resolution_table' = AddEIDNAINFO(resolution_table, e, s),
         \A f \in EID : \A x, y \in Switch :
           OnBranch(status, multicast_table, net, f, x, y)
             => OnBranch(status', multicast_table', net', f, x, y),
         resolution_table[e] # <<>> =>
           \E y \in Addresses(resolution_table[e]) :
             OnBranch(status', multicast_table', net', e, s, y)
  PROVE  Explained'
<1> DEFINE On(f, x, y) == OnBranch(status', multicast_table', net', f, x, y)
<1> DEFINE new == resolution_table'
<1> SUFFICES ASSUME NEW f \in EID, NEW k \in 2 .. Len(new[f])
             PROVE  \E j \in 1 .. k - 1 : On(f, new[f][k], new[f][j])
  BY DEF Explained
<1>0. resolution_table \in ResolutionTable /\ \A g \in EID : resolution_table[g] \in Seq(Switch)
  BY DEF TypeOK, ResolutionTable
<1>1. ASSUME NEW l \in Seq(Switch), l = resolution_table[f], k \in 2 .. Len(l)
      PROVE  \E j \in 1 .. k - 1 : On(f, l[k], l[j])
  <2>1. PICK j \in 1 .. k - 1 : OnBranch(status, multicast_table, net, f, l[k], l[j])
    BY <1>1 DEF Explained
  <2>2. Len(l) \in Nat /\ j \in 1 .. Len(l) /\ k \in 1 .. Len(l)
    BY <1>1
  <2>3. l[k] \in Switch /\ l[j] \in Switch
    BY <2>2
  <2> QED
    BY <2>1, <2>3
<1>2. CASE new[f] = resolution_table[f]
  BY <1>0, <1>1, <1>2
<1>3. CASE new[f] # resolution_table[f]
  <2> DEFINE l == resolution_table[f]
  <2>1. f = e /\ new[f] = Append(l, s) /\ l \in Seq(Switch)
    <3>1. resolution_table \in [EID -> Seq(Switch)]
      BY <1>0 DEF ResolutionTable
    <3>2. new[f] = IF f = e /\ s \notin Addresses(resolution_table[f])
                     THEN Append(resolution_table[f], s) ELSE resolution_table[f]
      BY <3>1 DEF AddEIDNAINFO
    <3> QED
      BY <1>3, <3>1, <3>2
  <2>l. l = resolution_table[f]
    OBVIOUS
  <2> HIDE DEF l
  <2>2. /\ Len(l) \in Nat /\ Len(new[f]) = Len(l) + 1 /\ new[f][Len(l) + 1] = s
        /\ \A i \in 1 .. Len(l) : new[f][i] = l[i]
    BY <2>1
  <2>3. CASE k \in 2 .. Len(l)
    <3>1. PICK j \in 1 .. k - 1 : On(f, l[k], l[j])
      BY <1>1, <2>1, <2>3, <2>l
    <3>2. j \in 1 .. Len(l) /\ k \in 1 .. Len(l)
      BY <2>2, <2>3
    <3> QED
      BY <2>2, <3>1, <3>2
  <2>4. CASE k = Len(l) + 1
    <3>1. Len(l) >= 1 /\ l # <<>>
      BY <2>1, <2>2, <2>4
    <3>2. PICK y \in Addresses(l) : On(e, s, y)
      BY <2>1, <2>l, <3>1
    <3>3. PICK j \in DOMAIN l : y = l[j]
      BY DEF Addresses
    <3>4. j \in 1 .. k - 1 /\ new[f][j] = l[j]
      BY <2>1, <2>2, <2>4, <3>3
    <3> QED
      BY <2>1, <2>2, <2>4, <3>2, <3>3, <3>4
  <2>5. k \in 2 .. Len(l) \/ k = Len(l) + 1
    BY <2>2
  <2> QED
    BY <2>3, <2>4, <2>5
<1> QED
  BY <1>2, <1>3

LEMMA ExplainedStep ==
  ASSUME Dependable, TreeInv, NoneStopped, RegisteredOnce, Explained, [Next]_vars
  PROVE  Explained'
<1> USE DEF startVars, castVars
<1>0. TypeOK /\ TypeOK' /\ QuietBeforeStart
  BY TypeStep DEF TreeInv
<1>1. \A f \in EID : \A x, y \in Switch :
        OnBranch(status, multicast_table, net, f, x, y)
          => OnBranch(status', multicast_table', net', f, x, y)
  BY OnBranchStep
<1>2. ASSUME UNCHANGED resolution_table PROVE Explained'
  <2>1. ASSUME NEW f \in EID, NEW k \in 2 .. Len(resolution_table[f])
        PROVE  \E j \in 1 .. k - 1 :
                 OnBranch(status', multicast_table', net', f, resolution_table[f][k],
                          resolution_table[f][j])
    <3> DEFINE l == resolution_table[f]
    <3>1. l \in Seq(Switch)
      BY <1>0 DEF TypeOK, ResolutionTable
    <3>2. PICK j \in 1 .. k - 1 : OnBranch(status, multicast_table, net, f, l[k], l[j])
      BY DEF Explained
    <3>3. k \in 2 .. Len(l)
      OBVIOUS
    <3> HIDE DEF l
    <3>4. Len(l) \in Nat /\ j \in 1 .. Len(l) /\ k \in 1 .. Len(l)
      BY <3>1, <3>3
    <3>5. l[k] \in Switch /\ l[j] \in Switch
      BY <3>1, <3>4
    <3>6. OnBranch(status', multicast_table', net', f, l[k], l[j])
      BY <1>1, <3>2, <3>5
    <3> QED
      BY <3>6 DEF l
  <2> QED
    BY <1>2, <2>1 DEF Explained
<1>3. ASSUME NEW p \in net, RegistToSourceDR(p) \/ RegistToRN(p) PROVE Explained'
  <2>1. p.kind \in RegistKind /\ p.eid \in EID /\ p.dst \in Switch
    BY <1>0, <1>3 DEF RegistToSourceDR, RegistToRN, RegistKind, TypeOK, PacketOK, GroupKind
  <2>2. resolution_table[p.eid] = <<>>
    BY <2>1 DEF RegisteredOnce
  <2>3. \/ resolution_table' = AddEIDNAINFO(resolution_table, p.eid, p.dst)
        \/ UNCHANGED resolution_table
    BY <1>3 DEF RegistToSourceDR, RegistToRN
  <2> QED
    BY <1>0, <1>1, <1>2, <2>1, <2>2, <2>3, ExplainedAppends
<1>4. ASSUME NEW p \in net, TransitGraft(p) PROVE Explained'
  <2> DEFINE n == NextNode(p)
  <2> DEFINE q == Forwarded(p)
  <2>1. /\ p.kind = "GRAFITING_REQUEST" /\ n \in Switch /\ q \in net' /\ n # p.dst
        /\ resolution_table' = AddEIDNAINFO(resolution_table, p.eid, n)
    BY <1>4 DEF TransitGraft, Running, Transits
  <2>2. /\ p \in Packet /\ PacketOK(p) /\ p.eid \in EID /\ p.dst \in Switch
        /\ p.src \in Switch /\ p.src # p.dst /\ p.hop \in Nat
    BY <1>0, <2>1 DEF TypeOK, PacketOK, GroupKind, Packet
  <2>3. p.dst \in Addresses(resolution_table[p.eid])
    BY <2>1 DEF TreeInv, GraftsGoToRegistered
  <2>4. /\ q.kind = p.kind /\ q.eid = p.eid /\ q.src = p.src /\ q.dst = p.dst
        /\ q.hop = p.hop + 1
    BY <2>2, ForwardedFields
  <2>5. n = Route[p.src][p.dst][p.hop + 1] /\ p.hop + 1 < Len(Route[p.src][p.dst])
    BY <2>1, <2>2, PacketOnRoute DEF NextNode
  <2>l. Len(Route[p.src][p.dst]) \in Nat
    <3>1. Route[p.src][p.dst] \in Seq(Node)
      BY <2>2, TopologyAssumption DEF Packet
    <3> QED
      BY <3>1
  <2>6. p.hop + 1 \in 1 .. Len(Route[p.src][p.dst]) /\ p.hop + 1 <= q.hop
    BY <2>2, <2>4, <2>5, <2>l
  <2> HIDE DEF n, q
  <2>7. OnBranch(status', multicast_table', net', p.eid, n, p.dst)
    BY <2>1, <2>2, <2>4, <2>5, <2>6 DEF OnBranch
  <2> QED
    BY <1>0, <1>1, <2>1, <2>2, <2>3, <2>7, ExplainedAppends
<1> QED
  BY <1>2, <1>3, <1>4 DEF Next, Startup, StartApplication, StopApplication,
     DetecAllNeighborDelay, NeighInfoDetec, Write, Read, ClientSends, RouteInput,
     FrontEnd, Forward, TransitRegistToRN, RegistToDestDR, GraftRequest,
     MulticastDataTrans, NeighInfoReceive, NeighInfoReply, Unread, Drop, vars

LEMMA AnsweredStep ==
  ASSUME TreeInv, AnsweredByRegistered, [Next]_vars
  PROVE  AnsweredByRegistered'
<1>1. Grows /\ Origin /\ TypeOK /\ TypeOK'
  BY GrowsStep, OriginStep, TypeStep DEF TreeInv
<1>2. \A e \in EID : Addresses(resolution_table[e]) \subseteq Addresses(resolution_table'[e])
  BY <1>1 DEF Grows
<1>3. ASSUME NEW p \in net', p.kind = "MULTICAST_DATA_TRANS"
      PROVE  p.src \in Addresses(resolution_table'[p.eid])
  <2>0. p.eid \in EID
    BY <1>1, <1>3 DEF TypeOK, PacketOK, GroupKind
  <2>1. CASE p \in net
    BY <1>2, <1>3, <2>0, <2>1 DEF AnsweredByRegistered
  <2>2. ASSUME NEW q \in net, q.kind = p.kind, p = Forwarded(q)
        PROVE  p.src \in Addresses(resolution_table'[p.eid])
    <3>1. p.src = q.src /\ p.eid = q.eid
      BY <1>1, <2>2, ForwardedFields DEF TypeOK
    <3>2. q.src \in Addresses(resolution_table[q.eid])
      BY <1>3, <2>2 DEF AnsweredByRegistered
    <3> QED
      BY <1>2, <2>0, <3>1, <3>2
  <2>3. ASSUME NEW q \in net, q.kind = "GRAFITING_REQUEST", p.src = q.dst, p.eid = q.eid
        PROVE  p.src \in Addresses(resolution_table'[p.eid])
    BY <1>2, <2>0, <2>3 DEF TreeInv, GraftsGoToRegistered
  <2> QED
    BY <1>1, <1>3, <2>1, <2>2, <2>3 DEF Origin, DataOrigin
<1>4. ASSUME NEW x \in served'
      PROVE  x[1] # x[3] /\ x[3] \in Addresses(resolution_table'[x[2]])
  <2>0. x[2] \in EID
    BY <1>1 DEF TypeOK
  <2>1. CASE x \in served
    BY <1>2, <2>0, <2>1 DEF AnsweredByRegistered
  <2>2. CASE x \notin served
    <3>1. PICK q \in net : q.kind = "MULTICAST_DATA_TRANS" /\ x = <<q.dst, q.eid, q.src>>
      BY <1>4, <2>2 DEF startVars, castVars, Next, Startup, StartApplication, StopApplication,
         DetecAllNeighborDelay, NeighInfoDetec, Write, Read, ClientSends, RouteInput,
         FrontEnd, Forward, TransitRegistToRN, TransitGraft, RegistToSourceDR,
         RegistToRN, RegistToDestDR, GraftRequest, MulticastDataTrans,
         NeighInfoReceive, NeighInfoReply, Unread, Drop, vars
    <3>2. q.dst # q.src /\ q.src \in Addresses(resolution_table[q.eid])
      BY <1>1, <3>1 DEF TypeOK, PacketOK, AnsweredByRegistered
    <3> QED
      BY <1>2, <2>0, <3>1, <3>2
  <2> QED
    BY <2>1, <2>2
<1> QED
  BY <1>3, <1>4 DEF AnsweredByRegistered

LEMMA ConnectedInit == Init => ConnectedInv
<1> SUFFICES ASSUME Init PROVE ConnectedInv
  OBVIOUS
<1>1. TreeInv
  BY TreeInit
<1>2. net = {} /\ served = {} /\ \A s \in Switch : status[s] = "created"
  BY DEF Init
<1>3. \A e \in EID : resolution_table[e] = <<>> /\ 2 .. Len(resolution_table[e]) = {}
  BY DEF Init
<1>4. \A c \in Client : \A n \in 1 .. Count[c] : WriteEid[c][n] \in EID
  BY MulticastAssumption
<1>5. NoneStopped
  BY <1>2 DEF NoneStopped
<1>6. RegisteredOnce
  BY <1>2, <1>3, <1>4 DEF RegisteredOnce
<1>7. Explained /\ AnsweredByRegistered
  BY <1>2, <1>3 DEF Explained, AnsweredByRegistered
<1> QED
  BY <1>1, <1>5, <1>6, <1>7 DEF ConnectedInv

LEMMA ConnectedStep ==
  ASSUME Dependable, WrittenOnce, ConnectedInv, [Next]_vars
  PROVE  ConnectedInv'
<1>1. TreeInv /\ NoneStopped /\ RegisteredOnce /\ Explained /\ AnsweredByRegistered /\ TypeOK
  BY DEF ConnectedInv, TreeInv
<1>2. TreeInv'
  BY <1>1, TreeStep
<1>3. NoneStopped'
  BY <1>1, NoneStoppedStep
<1>4. RegisteredOnce'
  BY <1>1, RegisteredOnceStep
<1>5. Explained'
  BY <1>1, ExplainedStep
<1>6. AnsweredByRegistered'
  BY <1>1, AnsweredStep
<1> QED
  BY <1>2, <1>3, <1>4, <1>5, <1>6 DEF ConnectedInv

-----------------------------------------------------------------------------
(* Induction along a route and along a list: the least exception.            *)

Less == {ss \in Nat \X Nat : ss[1] < ss[2]}

LEMMA LeastExists ==
  ASSUME NEW T, T \subseteq Nat, T # {}
  PROVE  \E x \in T : \A y \in T : x <= y
<1>1. IsWellFoundedOn(Less, Nat)
  BY NatLessThanWellFounded DEF OpToRel, Less
<1>2. PICK x \in T : \A y \in T : ~ (<<y, x>> \in Less)
  BY <1>1, WFMin
<1>3. ASSUME NEW y \in T PROVE x <= y
  <2>1. x \in Nat /\ y \in Nat /\ <<y, x>> \notin Less
    BY <1>2
  <2> QED
    BY <2>1 DEF Less
<1> QED
  BY <1>3

\* Whoever reaches the grafting point b reaches the whole branch back to the DR a.
LEMMA BranchReached ==
  ASSUME TypeOK, NoneStopped, PlainRoutes, NEW e \in EID, NEW a \in Switch, NEW b \in Switch,
         a # b, EnteredAlong(status, multicast_table, e, a, b, Len(Route[a][b])),
         NEW S \in SUBSET Switch, Closed(e, S), b \in S
  PROVE  \A i \in 1 .. Len(Route[a][b]) : Route[a][b][i] \in S
<1> DEFINE r == Route[a][b]
<1>0. /\ a \in Node /\ b \in Node /\ r \in Seq(Node) /\ Len(r) >= 2 /\ r[Len(r)] = b
      /\ \A i \in 1 .. Len(r) : r[i] \in Switch
      /\ \A i \in 2 .. Len(r) : Route[r[i]][r[i - 1]] = <<r[i], r[i - 1]>>
      /\ \A i \in 2 .. Len(r) :
           \/ r[i] \notin Switch \/ status[r[i]] = "stopped"
           \/ e \in multicast_table[r[i]][IfOf[r[i]][r[i - 1]]]
  BY TopologyAssumption, SMTT(30) DEF PlainRoutes, EnteredAlong, Node
<1> HIDE DEF r
<1>1. Len(r) \in Nat
  BY <1>0
<1> DEFINE T == {m \in Nat : m < Len(r) /\ r[Len(r) - m] \notin S}
<1>2. T = {}
  <2> SUFFICES ASSUME T # {} PROVE FALSE
    OBVIOUS
  <2>1. T \subseteq Nat
    OBVIOUS
  <2>t. \A m \in Nat : m \in T <=> m < Len(r) /\ r[Len(r) - m] \notin S
    OBVIOUS
  <2> HIDE DEF T
  <2>2. PICK m \in T : \A y \in T : m <= y
    BY <2>1, LeastExists
  <2>3. m \in Nat /\ m < Len(r) /\ r[Len(r) - m] \notin S
    BY <2>1, <2>2, <2>t
  <2>4. m # 0
    BY <1>0, <1>1, <2>3
  <2>5. m - 1 \in Nat /\ ~ (m <= m - 1) /\ m - 1 < Len(r)
    BY <1>1, <2>3, <2>4
  <2>6. m - 1 \notin T
    BY <2>2, <2>5
  <2>7. r[Len(r) - (m - 1)] \in S
    BY <2>5, <2>6, <2>t
  <2> DEFINE i == Len(r) - (m - 1)
  <2>8. i \in 2 .. Len(r) /\ i - 1 \in 1 .. Len(r) /\ i - 1 = Len(r) - m
    BY <1>1, <2>3, <2>4
  <2>9. r[i] \in S
    BY <2>7
  <2> HIDE DEF i
  <2>10. /\ r[i] \in Switch /\ r[i - 1] \in Switch /\ status[r[i]] # "stopped"
    BY <1>0, <2>8, <2>9 DEF NoneStopped
  <2>11. /\ Route[r[i]][r[i - 1]] = <<r[i], r[i - 1]>>
         /\ e \in multicast_table[r[i]][IfOf[r[i]][r[i - 1]]]
    BY <1>0, <2>8, <2>10
  <2>12. r[i - 1] \in S
    BY <2>9, <2>10, <2>11 DEF Closed, Feeds
  <2> QED
    BY <2>3, <2>8, <2>12
<1>3. ASSUME NEW i \in 1 .. Len(r) PROVE r[i] \in S
  <2>1. Len(r) - i \in Nat /\ Len(r) - i < Len(r) /\ Len(r) - (Len(r) - i) = i
    BY <1>1
  <2>2. Len(r) - i \notin T
    BY <1>2
  <2> QED
    BY <2>1, <2>2
<1> QED
  BY <1>3 DEF r

\* Whoever reaches the first registered switch reaches all of them.
LEMMA ListReached ==
  ASSUME ConnectedInv, PlainRoutes, NEW e \in EID,
         \A p \in net : ~ (p.kind = "GRAFITING_REQUEST" /\ p.eid = e),
         NEW S \in SUBSET Switch, Closed(e, S), resolution_table[e][1] \in S
  PROVE  \A k \in 1 .. Len(resolution_table[e]) : resolution_table[e][k] \in S
<1> DEFINE l == resolution_table[e]
<1>0. TypeOK /\ NoneStopped /\ l \in Seq(Switch) /\ l[1] \in S
  BY DEF ConnectedInv, TreeInv, TypeOK, ResolutionTable
<1>1. ASSUME NEW k \in 2 .. Len(l)
      PROVE  \E j \in 1 .. k - 1 : l[j] \in S => l[k] \in S
  <2>1. PICK j \in 1 .. k - 1 : OnBranch(status, multicast_table, net, e, l[k], l[j])
    BY DEF ConnectedInv, Explained
  <2> HIDE DEF l
  <2>2. Len(l) \in Nat /\ j \in 1 .. Len(l) /\ l[j] \in Switch
    BY <1>0
  <2>3. PICK a \in Switch : /\ a # l[j]
          /\ EnteredAlong(status, multicast_table, e, a, l[j], Len(Route[a][l[j]]))
          /\ \E i \in 1 .. Len(Route[a][l[j]]) : l[k] = Route[a][l[j]][i]
    BY <2>1 DEF OnBranch
  <2>4. l[j] \in S => \A i \in 1 .. Len(Route[a][l[j]]) : Route[a][l[j]][i] \in S
    BY <1>0, <2>2, <2>3, BranchReached
  <2> QED
    BY <2>3, <2>4
<1> HIDE DEF l
<1>2. Len(l) \in Nat
  BY <1>0
<1> DEFINE T == {k \in 1 .. Len(l) : l[k] \notin S}
<1>3. T = {}
  <2> SUFFICES ASSUME T # {} PROVE FALSE
    OBVIOUS
  <2>1. T \subseteq Nat
    OBVIOUS
  <2>t. \A k : k \in T <=> k \in 1 .. Len(l) /\ l[k] \notin S
    OBVIOUS
  <2> HIDE DEF T
  <2>2. PICK k \in T : \A y \in T : k <= y
    BY <2>1, LeastExists
  <2>3. k \in 1 .. Len(l) /\ l[k] \notin S /\ k # 1
    BY <1>0, <2>2, <2>t
  <2>4. k \in 2 .. Len(l)
    BY <1>2, <2>3
  <2>5. PICK j \in 1 .. k - 1 : l[j] \in S => l[k] \in S
    BY <1>1, <2>4
  <2>6. j \in 1 .. Len(l) /\ ~ (k <= j)
    BY <1>2, <2>3, <2>4
  <2>7. l[j] \in S
    BY <2>2, <2>6, <2>t
  <2> QED
    BY <2>3, <2>5, <2>7
<1>4. \A k \in 1 .. Len(l) : l[k] \in S
  BY <1>3
<1> QED
  BY <1>4 DEF l

LEMMA ConnectedTree == PlainRoutes /\ ConnectedInv => TreeConnected
<1> SUFFICES ASSUME PlainRoutes, ConnectedInv, NEW e \in EID,
                    {p \in net : p.kind = "GRAFITING_REQUEST" /\ p.eid = e} = {},
                    resolution_table[e] # <<>>
             PROVE  /\ Addresses(resolution_table[e])
                          \subseteq ReachedFrom(e, resolution_table[e][1])
                    /\ \A x \in served : x[2] = e =>
                         x[1] \in ReachedFrom(e, resolution_table[e][1])
  BY DEF TreeConnected
<1> DEFINE l == resolution_table[e]
<1>0. TypeOK /\ NoneStopped /\ l \in Seq(Switch)
  BY DEF ConnectedInv, TreeInv, TypeOK, ResolutionTable
<1>1. \A p \in net : ~ (p.kind = "GRAFITING_REQUEST" /\ p.eid = e)
  OBVIOUS
<1>2. \A n \in Switch : (\A S \in SUBSET Switch : l[1] \in S /\ Closed(e, S) => n \in S)
        => n \in ReachedFrom(e, l[1])
  BY DEF ReachedFrom
<1>3. ASSUME NEW S \in SUBSET Switch, l[1] \in S, Closed(e, S), NEW s \in Addresses(l)
      PROVE  s \in S
  <2>1. \A k \in 1 .. Len(l) : l[k] \in S
    BY <1>1, <1>3, ListReached
  <2>2. DOMAIN l = 1 .. Len(l)
    BY <1>0
  <2> QED
    BY <2>1, <2>2 DEF Addresses
<1>4. \A s \in Addresses(l) : s \in Switch
  <2>1. \A i \in DOMAIN l : l[i] \in Switch
    BY <1>0
  <2> QED
    BY <2>1 DEF Addresses
<1>5. Addresses(l) \subseteq ReachedFrom(e, l[1])
  <2> HIDE DEF l
  <2> QED
    BY <1>2, <1>3, <1>4
<1>6. ASSUME NEW x \in served, x[2] = e PROVE x[1] \in ReachedFrom(e, l[1])
  <2>1. /\ x[1] \in Switch /\ x[3] \in Switch /\ x[1] # x[3] /\ x[3] \in Addresses(l)
        /\ EnteredAlong(status, multicast_table, e, x[1], x[3], Len(Route[x[1]][x[3]]))
    BY <1>0, <1>6 DEF ConnectedInv, TreeInv, AnsweredByRegistered, TypeOK,
       DataFollowsBranch, BranchJoined
  <2>2. /\ Route[x[1]][x[3]][1] = x[1] /\ 1 \in 1 .. Len(Route[x[1]][x[3]])
    <3>1. Route[x[1]][x[3]] \in Seq(Node) /\ Len(Route[x[1]][x[3]]) >= 2
          /\ Route[x[1]][x[3]][1] = x[1]
      BY <2>1, TopologyAssumption, SMTT(30) DEF Node
    <3>2. Len(Route[x[1]][x[3]]) \in Nat
      BY <3>1
    <3> QED
      BY <3>1, <3>2
  <2>3. ASSUME NEW S \in SUBSET Switch, l[1] \in S, Closed(e, S) PROVE x[1] \in S
    <3>1. x[3] \in S
      BY <1>3, <2>1, <2>3
    <3>2. \A i \in 1 .. Len(Route[x[1]][x[3]]) : Route[x[1]][x[3]][i] \in S
      BY <1>0, <2>1, <2>3, <3>1, BranchReached
    <3> QED
      BY <2>2, <3>2
  <2> HIDE DEF l
  <2> QED
    BY <1>2, <2>1, <2>3
<1> QED
  BY <1>5, <1>6

\* Where nothing is lost or stopped, the routes between switches lead over switches
\* and no group is written twice, data entering a group at its first registered
\* switch reaches every registered switch and every DR that was answered, whenever
\* no graft for the group is under way: what FrontEnd enters along the grafts is
\* one tree, whatever their order.
THEOREM TreeConnectedAlways ==
  Dependable /\ PlainRoutes /\ WrittenOnce => (Spec => []TreeConnected)
<1> SUFFICES ASSUME Dependable, PlainRoutes, WrittenOnce PROVE Spec => []TreeConnected
  OBVIOUS
<1>1. Init => ConnectedInv
  BY ConnectedInit
<1>2. ConnectedInv /\ [Next]_vars => ConnectedInv'
  BY ConnectedStep
<1>3. ConnectedInv => TreeConnected
  BY ConnectedTree
<1> QED
  BY <1>1, <1>2, <1>3, PTL DEF Spec
=============================================================================
