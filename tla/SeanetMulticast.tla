--------------------------- MODULE SeanetMulticast ---------------------------
(***************************************************************************)
(* The Seanet multicast protocol: every SwitchApplicationv4 of the network, *)
(* the tables they share, and the MulticastClientApplicationv4 clients that  *)
(* write and read multicast groups through their designated router (DR).    *)
(*                                                                          *)
(* A FrontEnd call handles one packet to the end, so it is one action.  A   *)
(* packet in transit is seen by the switch application of every node it      *)
(* crosses (RouteInput delivers a copy marked NOT_DST) before it is handed   *)
(* on; copy and hand-over are one event of the simulator and one action.    *)
(***************************************************************************)
EXTENDS SeanetTables

CONSTANTS
  Entry,         \* switches with is_entry_switch
  Sampled,       \* every 10th key of multicast_table after start-up
  Dr,            \* Dr[c]: the switch client c is attached to
  FunctionType,  \* FunctionType[c]: "Write", "Read" or "All"
  Count,         \* Count[c]: m_count, the packets client c sends
  WriteEid,      \* WriteEid[c][n]: the EID of client c's n-th packet, if a Write
  ReadEid,       \* ReadEid[c][n]: the same, if a Read
  Phased,        \* clients start as in multicast.cc: detection, writes, reads
  Lossy,         \* queues may drop packets
  Stoppable      \* switches whose stop time lies within the run

ASSUME MulticastAssumption ==
  /\ Entry \subseteq Switch
  /\ Sampled \subseteq Switch
  /\ Stoppable \subseteq Switch
  /\ Dr \in [Client -> Switch]
  /\ \A c \in Client : Route[c][Dr[c]] = <<c, Dr[c]>>
  /\ FunctionType \in [Client -> {"Write", "Read", "All"}]
  /\ Count \in [Client -> Nat]
  /\ \A c \in Client : /\ WriteEid[c] \in [1 .. Count[c] -> EID]
                       /\ ReadEid[c] \in [1 .. Count[c] -> EID]
  /\ Phased \in BOOLEAN
  /\ Lossy \in BOOLEAN

VARIABLES
  status,            \* start and stop of each switch application
  scheduled,         \* switches whose DetecAllNeighborDelay is still to run
  probes,            \* scheduled NeighInfoDetec calls <<switch, target>>
  unicast_table,     \* shared UnicastTable
  multicast_table,   \* shared MultiCastTable
  resolution_table,  \* shared ResolutionTable
  delay_table,       \* per switch
  m_sent,            \* per client
  net,               \* packets in flight
  served             \* observer: <<DR, EID, answering switch>> of data received

startVars  == <<tree_type, status, scheduled, probes>>
castVars   == <<unicast_table, multicast_table>>
vars == <<tree_type, status, scheduled, probes, unicast_table, multicast_table,
          resolution_table, delay_table, m_sent, net, served>>

Init ==
  /\ tree_type \in TreeTypes
  /\ status = [s \in Switch |-> "created"]
  /\ scheduled = {}
  /\ probes = {}
  /\ unicast_table = [s \in Switch |-> [i \in IfNum |-> {}]]
  /\ multicast_table = [s \in Switch |-> [i \in IfNum |-> {}]]
  /\ resolution_table = [e \in EID |-> <<>>]
  /\ delay_table = [s \in Switch |-> [t \in Switch |-> NoDelay]]
  /\ m_sent = [c \in Client |-> 0]
  /\ net = {}
  /\ served = {}

-----------------------------------------------------------------------------
(* Start and stop.                                                          *)

AllStarted == \A s \in Switch : status[s] # "created"

\* The switch's keys are set to NULL, an entry switch schedules its detection.
StartApplication(s) ==
  /\ status[s] = "created"
  /\ status' = [status EXCEPT ![s] = "running"]
  /\ unicast_table' = [unicast_table EXCEPT ![s][0] = {}]
  /\ multicast_table' = [multicast_table EXCEPT ![s][0] = {}]
  /\ scheduled' = IF s \in Entry /\ tree_type # "SPT"
                  THEN scheduled \cup {s} ELSE scheduled
  /\ UNCHANGED <<tree_type, probes, resolution_table, delay_table, m_sent, net, served>>

\* The receive callback is removed; the tables keep what the switch entered.
StopApplication(s) ==
  /\ s \in Stoppable
  /\ status[s] = "running"
  /\ status' = [status EXCEPT ![s] = "stopped"]
  /\ UNCHANGED <<tree_type, scheduled, probes, castVars, resolution_table, delay_table,
                 m_sent, net, served>>

\* Runs at time 0 after every StartApplication: the simulator keeps the order
\* in which events of one time were scheduled.
DetecAllNeighborDelay(s) ==
  /\ s \in scheduled
  /\ AllStarted
  /\ scheduled' = scheduled \ {s}
  /\ probes' = probes \cup ({s} \X (Sampled \ {s}))
  /\ UNCHANGED <<tree_type, status, castVars, resolution_table, delay_table, m_sent,
                 net, served>>

NeighInfoDetec(s, t) ==
  /\ <<s, t>> \in probes
  /\ probes' = probes \ {<<s, t>>}
  /\ net' = net \cup Send("NEIGH_INFO_RECEIVE", Nil, s, t)
  /\ UNCHANGED <<tree_type, status, scheduled, castVars, resolution_table,
                 delay_table, m_sent, served>>

-----------------------------------------------------------------------------
(* Clients.                                                                  *)

InFlight(kinds) == {p \in net : p.kind \in kinds}

\* The start times of scratch/multicast.cc: detection at 0 s, writers from
\* 15000 s, readers from 20000 s, each stage over before the next begins.
DetectionOver ==
  /\ scheduled = {} /\ probes = {}
  /\ (\A c \in Client : m_sent[c] = 0) => InFlight(NeighKind) = {}
WritesOver ==
  /\ \A c \in Client : FunctionType[c] = "Write" => m_sent[c] = Count[c]
  /\ InFlight({"REGIST_TO_SOURCE_DR", "REGIST_TO_RN"}) = {}

ClientSends(c, kind, e) ==
  /\ AllStarted
  /\ m_sent[c] < Count[c]
  /\ m_sent' = [m_sent EXCEPT ![c] = @ + 1]
  /\ net' = net \cup Send(kind, e, c, Dr[c])
  /\ UNCHANGED <<startVars, castVars, resolution_table, delay_table, served>>

Write(c) ==
  /\ FunctionType[c] \in {"Write", "All"}
  /\ Phased => DetectionOver
  /\ ClientSends(c, "REGIST_TO_SOURCE_DR", WriteEid[c][m_sent[c] + 1])

Read(c) ==
  /\ FunctionType[c] \in {"Read", "All"}
  /\ Phased => WritesOver
  /\ ClientSends(c, "REGIST_TO_DEST_DR", ReadEid[c][m_sent[c] + 1])

-----------------------------------------------------------------------------
(* A packet on its way: the transit half of RouteInput and FrontEnd.        *)

Running(n) == n \in Switch /\ status[n] = "running"

Transits(p) == p \in net /\ NextNode(p) # p.dst
Arrives(p)  == p \in net /\ NextNode(p) = p.dst

\* Nodes without a running switch application, and kinds it ignores.
Forward(p) ==
  /\ Transits(p)
  /\ ~ (Running(NextNode(p)) /\ p.kind \in {"REGIST_TO_RN", "GRAFITING_REQUEST"})
  /\ net' = (net \ {p}) \cup {Forwarded(p)}
  /\ UNCHANGED <<startVars, castVars, resolution_table, delay_table, m_sent,
                 served>>

TransitRegistToRN(p) ==
  /\ Transits(p) /\ Running(NextNode(p)) /\ p.kind = "REGIST_TO_RN"
  /\ unicast_table' = AddCastTable(unicast_table, NextNode(p), InIf(p), p.eid)
  /\ net' = (net \ {p}) \cup {Forwarded(p)}
  /\ UNCHANGED <<startVars, multicast_table, resolution_table, delay_table,
                 m_sent, served>>

\* The switch joins the tree, registers, and lets the DR measure the delay.
TransitGraft(p) ==
  LET n == NextNode(p) IN
  /\ Transits(p) /\ Running(n) /\ p.kind = "GRAFITING_REQUEST"
  /\ multicast_table' = AddCastTable(multicast_table, n, InIf(p), p.eid)
  /\ resolution_table' = AddEIDNAINFO(resolution_table, p.eid, n)
  /\ net' = (net \ {p}) \cup {Forwarded(p)}
                        \cup Send("NEIGH_INFO_REPLY", Nil, n, p.src)
  /\ UNCHANGED <<startVars, unicast_table, delay_table, m_sent, served>>

-----------------------------------------------------------------------------
(* A packet at its destination: the IS_DST half of FrontEnd.                *)

\* The DR of the source picks the RN and registers there, or here.
RegistToSourceDR(p) ==
  LET s == p.dst IN
  /\ Arrives(p) /\ Running(s) /\ p.kind = "REGIST_TO_SOURCE_DR"
  /\ \E rn \in RootNode(unicast_table, multicast_table, delay_table[s], s) :
       \/ /\ rn = s
          /\ unicast_table' = AddCastTable(unicast_table, s, InIf(p), p.eid)
          /\ multicast_table' = AddCastTable(multicast_table, s, InIf(p), p.eid)
          /\ resolution_table' = AddEIDNAINFO(resolution_table, p.eid, s)
          /\ net' = net \ {p}
       \/ /\ rn # s
          /\ net' = (net \ {p}) \cup Send("REGIST_TO_RN", p.eid, s, rn)
          /\ UNCHANGED <<castVars, resolution_table>>
  /\ UNCHANGED <<startVars, delay_table, m_sent, served>>

RegistToRN(p) ==
  LET s == p.dst IN
  /\ Arrives(p) /\ Running(s) /\ p.kind = "REGIST_TO_RN"
  /\ unicast_table' = AddCastTable(unicast_table, s, InIf(p), p.eid)
  /\ multicast_table' = AddCastTable(multicast_table, s, InIf(p), p.eid)
  /\ resolution_table' = AddEIDNAINFO(resolution_table, p.eid, s)
  /\ net' = (net \ {p}) \cup Send("NEIGH_INFO_REPLY", Nil, s, p.src)
  /\ UNCHANGED <<startVars, delay_table, m_sent, served>>

\* The DR of the reader joins and grafts to the nearest registered switch.
RegistToDestDR(p) ==
  LET s == p.dst IN
  /\ Arrives(p) /\ Running(s) /\ p.kind = "REGIST_TO_DEST_DR"
  /\ multicast_table' = AddCastTable(multicast_table, s, InIf(p), p.eid)
  /\ \E t \in FindNearestNode(resolution_table[p.eid], delay_table[s]) :
       net' = (net \ {p}) \cup Send("GRAFITING_REQUEST", p.eid, s, t)
  /\ UNCHANGED <<startVars, unicast_table, resolution_table, delay_table,
                 m_sent, served>>

\* The grafting point answers with data and a delay reply, and joins.
GraftRequest(p) ==
  LET s == p.dst IN
  /\ Arrives(p) /\ Running(s) /\ p.kind = "GRAFITING_REQUEST"
  /\ multicast_table' = AddCastTable(multicast_table, s, InIf(p), p.eid)
  /\ net' = (net \ {p}) \cup Send("MULTICAST_DATA_TRANS", p.eid, s, p.src)
                        \cup Send("NEIGH_INFO_REPLY", Nil, s, p.src)
  /\ UNCHANGED <<startVars, unicast_table, resolution_table, delay_table,
                 m_sent, served>>

\* FrontEnd has no branch for the data: it is counted and goes no further.
MulticastDataTrans(p) ==
  /\ Arrives(p) /\ Running(p.dst) /\ p.kind = "MULTICAST_DATA_TRANS"
  /\ served' = served \cup {<<p.dst, p.eid, p.src>>}
  /\ net' = net \ {p}
  /\ UNCHANGED <<startVars, castVars, resolution_table, delay_table, m_sent>>

NeighInfoReceive(p) ==
  /\ Arrives(p) /\ Running(p.dst) /\ p.kind = "NEIGH_INFO_RECEIVE"
  /\ net' = (net \ {p}) \cup Send("NEIGH_INFO_REPLY", Nil, p.dst, p.src)
  /\ UNCHANGED <<startVars, castVars, resolution_table, delay_table, m_sent,
                 served>>

\* The address the reply came from must be a key of multicast_table.
KnownSource(p) ==
  /\ p.src \in Switch
  /\ status[p.src] # "created"
  /\ SourceIf(p) = PrimaryIf

\* The delay depends on the queues the reply went through.
NeighInfoReply(p) ==
  /\ Arrives(p) /\ Running(p.dst) /\ p.kind = "NEIGH_INFO_REPLY"
  /\ \/ /\ KnownSource(p)
        /\ \E d \in Delays :
             delay_table' = [delay_table EXCEPT ![p.dst][p.src] = d]
     \/ /\ ~ KnownSource(p)
        /\ UNCHANGED delay_table
  /\ net' = net \ {p}
  /\ UNCHANGED <<startVars, castVars, resolution_table, m_sent, served>>

\* The destination's application is stopped: nobody reads its socket.
Unread(p) ==
  /\ Arrives(p) /\ ~ Running(p.dst)
  /\ net' = net \ {p}
  /\ UNCHANGED <<startVars, castVars, resolution_table, delay_table, m_sent,
                 served>>

Drop(p) ==
  /\ Lossy
  /\ p \in net
  /\ net' = net \ {p}
  /\ UNCHANGED <<startVars, castVars, resolution_table, delay_table, m_sent,
                 served>>

-----------------------------------------------------------------------------
FrontEnd(p) ==
  \/ RegistToSourceDR(p) \/ RegistToRN(p) \/ RegistToDestDR(p)
  \/ GraftRequest(p) \/ MulticastDataTrans(p)
  \/ NeighInfoReceive(p) \/ NeighInfoReply(p)

RouteInput(p) ==
  \/ Forward(p) \/ TransitRegistToRN(p) \/ TransitGraft(p)
  \/ FrontEnd(p) \/ Unread(p)

Startup ==
  \/ \E s \in Switch : StartApplication(s) \/ DetecAllNeighborDelay(s)
  \/ \E pr \in probes : NeighInfoDetec(pr[1], pr[2])

Next ==
  \/ Startup
  \/ \E s \in Switch : StopApplication(s)
  \/ \E c \in Client : Write(c) \/ Read(c)
  \/ \E p \in net : RouteInput(p) \/ Drop(p)

Spec == Init /\ [][Next]_vars

\* The simulator runs every scheduled event and every packet reaches the end
\* of its link.
Fairness ==
  /\ WF_vars(Startup)
  /\ \A c \in Client : WF_vars(Write(c)) /\ WF_vars(Read(c))
  /\ WF_vars(\E p \in net : RouteInput(p))

FairSpec == Spec /\ Fairness
-----------------------------------------------------------------------------
(* Properties.                                                               *)

\* Types of the variables, and what a packet in flight can be: it is on its
\* route, has not reached its end, and goes to a switch; group packets carry
\* an EID and only the two client requests come from outside the switches.
PacketOK(p) ==
  /\ p.dst \in Switch \ {p.src}
  /\ p.hop \in 1 .. Len(Route[p.src][p.dst]) - 1
  /\ p.kind \in GroupKind => p.eid \in EID
  /\ p.src \in Switch \/ p.kind \in {"REGIST_TO_SOURCE_DR", "REGIST_TO_DEST_DR"}

TypeOK ==
  /\ tree_type \in TreeTypes
  /\ status \in [Switch -> {"created", "running", "stopped"}]
  /\ scheduled \subseteq Entry
  /\ probes \subseteq Switch \X Switch
  /\ unicast_table \in CastTable
  /\ multicast_table \in CastTable
  /\ resolution_table \in ResolutionTable
  /\ delay_table \in [Switch -> DelayTable]
  /\ m_sent \in [Client -> Nat]
  /\ net \subseteq Packet
  /\ \A p \in net : PacketOK(p)
  /\ served \subseteq Switch \X EID \X Switch

\* Among the first k nodes of the route from a to b, every switch after a that
\* is not stopped holds group e for the interface that leads back to a.
EnteredAlong(st, table, e, a, b, k) ==
  \A i \in 2 .. k :
    LET n == Route[a][b][i] IN
      n \notin Switch \/ st[n] = "stopped" \/ e \in table[n][IfOf[n][Route[a][b][i - 1]]]

BranchJoined(e, dr, t, k) == EnteredAlong(status, multicast_table, e, dr, t, k)

\* A graft leaves no gap behind it: the switches a GRAFITING_REQUEST has
\* crossed all point group e back towards the DR (FrontEnd, NOT_DST branch).
GraftLeavesBranch ==
  \A p \in net : p.kind = "GRAFITING_REQUEST" =>
    BranchJoined(p.eid, p.src, p.dst, p.hop)

\* Data is only ever answered to a DR whose whole branch up to the answering
\* switch is in place: no MULTICAST_DATA_TRANS, travelling or received,
\* overtakes the joining of the tree.
DataFollowsBranch ==
  /\ \A p \in net : p.kind = "MULTICAST_DATA_TRANS" =>
       BranchJoined(p.eid, p.dst, p.src, Len(Route[p.dst][p.src]))
  /\ \A x \in served :
       BranchJoined(x[2], x[1], x[3], Len(Route[x[1]][x[3]]))

\* The resolution table never sends a reader to a stranger: every address
\* registered for e is that of a switch that has joined e, and a graft is
\* always under way to a registered one.
RegisteredHaveJoined ==
  \A e \in EID : \A s \in Addresses(resolution_table[e]) :
    e \in multicast_table[s][0]

GraftsGoToRegistered ==
  \A p \in net : p.kind = "GRAFITING_REQUEST" =>
    p.dst \in Addresses(resolution_table[p.eid])

\* The load that GetSwitchSocre reads under key (local, 0) is the number of
\* groups the switch really holds on its interfaces.
LoadIsWhatInterfacesHold ==
  \A s \in Switch :
    /\ unicast_table[s][0] = UNION {unicast_table[s][i] : i \in 1 .. MaxIf}
    /\ multicast_table[s][0] = UNION {multicast_table[s][i] : i \in 1 .. MaxIf}

\* The unicast entries that an RN registration leaves on its way lead back to
\* the source DR, as far as the registration has come.
RegistrationLeavesPath ==
  \A p \in net : p.kind = "REGIST_TO_RN" =>
    EnteredAlong(status, unicast_table, p.eid, p.src, p.dst, p.hop)

\* The resolution table implements the abstract registry: addresses are only
\* appended, one at a time, none twice.
Registry == INSTANCE EidRegistry WITH registry <- resolution_table
ImplementsRegistry == Registry!Spec

\* The switches that take in what a client writes to group e.
SourceDrs(e) ==
  {Dr[c] : c \in {c \in Client : /\ FunctionType[c] \in {"Write", "All"}
                                 /\ \E n \in 1 .. Count[c] : WriteEid[c][n] = e}}

\* In an SPT the first address registered for a group is that of its source DR,
\* whatever grafts follow: "the first registered point is surely the source".
SptRootIsSource ==
  tree_type = "SPT" =>
    \A e \in EID : resolution_table[e] # <<>> => resolution_table[e][1] \in SourceDrs(e)

\* In an SPT every graft therefore goes to the first registered address.  The
\* comment at FindNearestNode's SPT branch says so; the code takes list.back().
SptGraftsGoToSource ==
  tree_type = "SPT" =>
    \A p \in net : p.kind = "GRAFITING_REQUEST" => p.dst = resolution_table[p.eid][1]

\* Data flows from m to its neighbour n: m forwards group e on that interface.
Feeds(e, m, n) == e \in multicast_table[m][IfOf[m][n]]

\* Whoever a switch of S feeds is in S.
Closed(e, S) ==
  \A m \in S : \A n \in Switch : Route[m][n] = <<m, n>> /\ Feeds(e, m, n) => n \in S

\* The switches that data entering group e at switch r reaches: the least set
\* that holds r and is closed.
ReachedFrom(e, r) ==
  LET closed == {S \in SUBSET Switch : r \in S /\ Closed(e, S)}
  IN  {n \in Switch : \A S \in closed : n \in S}

\* Once no graft for e is under way, the tree is connected: data entering at the
\* first registered switch reaches every registered switch and every DR that was
\* answered.  (Without loss, stops and bare nodes on the routes.)
TreeConnected ==
  \A e \in EID :
    ({p \in net : p.kind = "GRAFITING_REQUEST" /\ p.eid = e} = {}
      /\ resolution_table[e] # <<>>) =>
      /\ Addresses(resolution_table[e])
           \subseteq ReachedFrom(e, resolution_table[e][1])
      /\ \A x \in served : x[2] = e =>
           x[1] \in ReachedFrom(e, resolution_table[e][1])

\* A group a client writes is eventually registered.
WrittenGetsRegistered ==
  \A c \in Client : FunctionType[c] = "Write" =>
    \A n \in 1 .. Count[c] : <>(resolution_table[WriteEid[c][n]] # <<>>)

\* A client's join of a written group eventually brings data to its DR, unless
\* the DR itself is registered for the group.
Written == UNION {{WriteEid[c][n] : n \in 1 .. Count[c]} :
                    c \in {c \in Client : FunctionType[c] = "Write"}}

JoinGetsServed ==
  \A c \in Client : FunctionType[c] = "Read" =>
    \A e \in Written :
      e \in multicast_table[Dr[c]][IfOf[Dr[c]][c]]
        ~> \/ Dr[c] \in Addresses(resolution_table[e])
           \/ \E t \in Switch : <<Dr[c], e, t>> \in served
=============================================================================
