--------------------------- MODULE SeanetStorageV4 ---------------------------
(***************************************************************************)
(* The Seanet storage service over IPv4: StorageClientApplicationv4, the     *)
(* SWITCH_APPLICATION and NEIGH_INFO_APPLICATION branches it meets in        *)
(* SwitchApplicationv4, and ResolutionApplicationv4, which answers with       *)
(* all addresses of an EID, ten to a packet.                                 *)
(*                                                                          *)
(* Unlike the IPv6 servers these handle a packet as it arrives.  The switch  *)
(* registers in the ResolutionTable that all switches share; its             *)
(* registration with the resolution server is commented out, so the server's *)
(* table is filled by others that speak its protocol (Register).             *)
(***************************************************************************)
EXTENDS Naturals, Sequences, SequencesExt

CONSTANTS
  Switch,      \* nodes running SwitchApplicationv4
  Client,      \* nodes running StorageClientApplicationv4
  Registrant,  \* addresses registered with the resolution server
  Home,        \* Home[c]: m_switch_address of client c
  m_count,     \* [Client -> Nat], attribute MaxPackets
  Chunk,       \* addresses in a full reply (10)
  MaxRegist,   \* bound on the registrations
  Lossy,       \* the network may lose packets
  Stoppable    \* clients whose stop time lies within the run

ASSUME StorageV4Assumption ==
  /\ Switch \cap Client = {}
  /\ Home \in [Client -> Switch]
  /\ m_count \in [Client -> Nat]
  /\ Chunk \in Nat \ {0}
  /\ MaxRegist \in Nat
  /\ Lossy \in BOOLEAN
  /\ Stoppable \subseteq Client

VARIABLES
  status,               \* start and stop of each client
  m_sent,               \* per client
  m_sendEvent,          \* per client: the scheduled call, or "expired"
  m_readEvent,
  m_neigh_delay_table,  \* per client: the switches whose delay it knows
  m_eid_table,          \* switches that store the EID
  resolution_table,     \* the list shared by the switches, for the EID
  m_eid_na_table,       \* the list of the resolution server, for the EID
  net,                  \* packets in flight
  writes,               \* packets sent by Write and by Read, which number them
  reads,
  replies               \* observer: of every request, the list and its replies

clientVars == <<status, m_sent, m_sendEvent, m_readEvent, writes, reads>>
tableVars  == <<m_neigh_delay_table, m_eid_table, resolution_table, m_eid_na_table>>
vars       == <<clientVars, tableVars, net, replies>>

\* The one EID of the clients is left out.  who is the client, n its packet.
Packet(kind, c, n) == [kind |-> kind, who |-> c, n |-> n]

Init ==
  /\ status = [c \in Client |-> "created"]
  /\ m_sent = [c \in Client |-> 0]
  /\ m_sendEvent = [c \in Client |-> "expired"]
  /\ m_readEvent = [c \in Client |-> "expired"]
  /\ m_neigh_delay_table = [c \in Client |-> {}]
  /\ m_eid_table = {}
  /\ resolution_table = <<>>
  /\ m_eid_na_table = <<>>
  /\ net = {}
  /\ writes = [c \in Client |-> 0]
  /\ reads = [c \in Client |-> 0]
  /\ replies = {}

-----------------------------------------------------------------------------
(* StorageClientApplicationv4.                                               *)

\* Write is scheduled, and the switch's delay is asked for.
StartApplication(c) ==
  /\ status[c] = "created"
  /\ status' = [status EXCEPT ![c] = "running"]
  /\ m_sendEvent' = [m_sendEvent EXCEPT ![c] = "Write"]
  /\ net' = net \cup {Packet("NEIGH_INFO_RECEIVE", c, 0)}
  /\ UNCHANGED <<m_sent, m_readEvent, tableVars, writes, reads, replies>>

StopApplication(c) ==
  /\ c \in Stoppable
  /\ status[c] = "running"
  /\ status' = [status EXCEPT ![c] = "stopped"]
  /\ m_sendEvent' = [m_sendEvent EXCEPT ![c] = "expired"]
  /\ m_readEvent' = [m_readEvent EXCEPT ![c] = "expired"]
  /\ UNCHANGED <<m_sent, tableVars, net, writes, reads, replies>>

\* Mutant of Write: the bound is checked inclusively.
WriteInclusive(c) ==
  LET more == m_sent[c] <= m_count[c] IN
  /\ "Write" \in {m_sendEvent[c], m_readEvent[c]}
  /\ m_sendEvent' = [m_sendEvent EXCEPT ![c] = IF more THEN "Read" ELSE "expired"]
  /\ m_readEvent' = [m_readEvent EXCEPT ![c] = "expired"]
  /\ m_sent' = [m_sent EXCEPT ![c] = IF more THEN @ + 1 ELSE @]
  /\ net' = net \cup {Packet("RESEIVE_DATA", c, writes[c])}
  /\ writes' = [writes EXCEPT ![c] = @ + 1]
  /\ UNCHANGED <<status, reads, tableVars, replies>>

\* The packet is sent whatever m_sent is.
Write(c) ==
  LET more == m_sent[c] < m_count[c] IN
  /\ "Write" \in {m_sendEvent[c], m_readEvent[c]}
  /\ m_sendEvent' = [m_sendEvent EXCEPT ![c] = IF more THEN "Read" ELSE "expired"]
  /\ m_readEvent' = [m_readEvent EXCEPT ![c] = "expired"]
  /\ m_sent' = [m_sent EXCEPT ![c] = IF more THEN @ + 1 ELSE @]
  /\ net' = net \cup {Packet("RESEIVE_DATA", c, writes[c])}
  /\ writes' = [writes EXCEPT ![c] = @ + 1]
  /\ UNCHANGED <<status, reads, tableVars, replies>>

Read(c) ==
  /\ m_sendEvent[c] = "Read"
  /\ m_sendEvent' = [m_sendEvent EXCEPT ![c] = "expired"]
  /\ m_readEvent' = [m_readEvent EXCEPT ![c] =
                       IF m_sent[c] < m_count[c] THEN "Write" ELSE "expired"]
  /\ net' = net \cup {Packet("REQUEST_EID_NA", c, reads[c])}
  /\ reads' = [reads EXCEPT ![c] = @ + 1]
  /\ UNCHANGED <<status, m_sent, writes, tableVars, replies>>

\* The client takes the flag for the number of addresses, and the number for
\* the first byte of the address: it asks nobody, for no node has an address
\* that begins with a number from 1 to Chunk.
ResolutionReplyHandle(p) ==
  /\ p \in net /\ p.kind = "REPLY_EID_NA"
  /\ net' = net \ {p}
  /\ UNCHANGED <<clientVars, tableVars, replies>>

\* Only the first delay is kept.
ClientNeighReply(p) ==
  /\ p \in net /\ p.kind = "NEIGH_INFO_REPLY"
  /\ net' = net \ {p}
  /\ m_neigh_delay_table' = [m_neigh_delay_table EXCEPT ![p.who] = @ \cup {Home[p.who]}]
  /\ UNCHANGED <<clientVars, m_eid_table, resolution_table, m_eid_na_table, replies>>

-----------------------------------------------------------------------------
(* SwitchApplicationv4.                                                      *)

AddEIDNAINFO(list, s) == IF s \in ToSet(list) THEN list ELSE Append(list, s)

ReceiveDataHandle(p) ==
  /\ p \in net /\ p.kind = "RESEIVE_DATA"
  /\ net' = net \ {p}
  /\ m_eid_table' = m_eid_table \cup {Home[p.who]}
  /\ resolution_table' = AddEIDNAINFO(resolution_table, Home[p.who])
  /\ UNCHANGED <<clientVars, m_neigh_delay_table, m_eid_na_table, replies>>

NeighInfoReply(p) ==
  /\ p \in net /\ p.kind = "NEIGH_INFO_RECEIVE"
  /\ net' = (net \ {p}) \cup {Packet("NEIGH_INFO_REPLY", p.who, 0)}
  /\ UNCHANGED <<clientVars, tableVars, replies>>

-----------------------------------------------------------------------------
(* ResolutionApplicationv4.                                                  *)

\* An application registers its address with the server.
Register(a) ==
  /\ Len(m_eid_na_table) < MaxRegist
  /\ m_eid_na_table' = Append(m_eid_na_table, a)
  /\ UNCHANGED <<clientVars, m_neigh_delay_table, m_eid_table, resolution_table, net, replies>>

Reply(flag, addresses) == [flag |-> flag, num |-> Len(addresses), addresses |-> addresses]

\* One turn of RequestHandle's loop, for the i-th address: res takes it in, and is
\* sent when it is full.
Turn(list, s, i) ==
  LET res  == Append(s.res, list[i])
      flag == IF i = Len(list) THEN "PACKET_FINISH" ELSE "PACKET_NOT_FINISH"
  IN  IF i % Chunk # 0 THEN [res |-> res, sent |-> s.sent]
      ELSE [res |-> <<>>, sent |-> Append(s.sent, Reply(flag, res))]

\* What the loop leaves in res, and what it has sent.
Loop(list) ==
  LET after[i \in 0 .. Len(list)] ==
        IF i = 0 THEN [res |-> <<>>, sent |-> <<>>] ELSE Turn(list, after[i - 1], i)
  IN  after[Len(list)]

\* Mutant of RepliesTo: a rest is always sent, though it may be empty.
RepliesWithRest(list) == Append(Loop(list).sent, Reply("PACKET_FINISH", Loop(list).res))

\* The replies to a request for an EID with this list.
RepliesTo(list) ==
  IF Len(list) % Chunk = 0 THEN Loop(list).sent
  ELSE Append(Loop(list).sent, Reply("PACKET_FINISH", Loop(list).res))

\* An EID that is not registered gets no reply.
RequestHandle(p) ==
  LET sent == RepliesTo(m_eid_na_table) IN
  /\ p \in net /\ p.kind = "REQUEST_EID_NA"
  /\ net' = (net \ {p}) \cup
       {[kind |-> "REPLY_EID_NA", who |-> p.who, n |-> p.n, no |-> i, reply |-> sent[i]] :
          i \in DOMAIN sent}
  /\ replies' = replies \cup {[list |-> m_eid_na_table, sent |-> sent]}
  /\ UNCHANGED <<clientVars, tableVars>>

Lose(p) ==
  /\ Lossy /\ p \in net
  /\ net' = net \ {p}
  /\ UNCHANGED <<clientVars, tableVars, replies>>

-----------------------------------------------------------------------------
ReceiveCallback(p) == ResolutionReplyHandle(p) \/ ClientNeighReply(p)
FrontEnd(p)        == ReceiveDataHandle(p) \/ NeighInfoReply(p) \/ RequestHandle(p)

Next ==
  \/ \E c \in Client : StartApplication(c) \/ StopApplication(c) \/ Write(c) \/ Read(c)
  \/ \E p \in net : ReceiveCallback(p) \/ FrontEnd(p) \/ Lose(p)
  \/ \E a \in Registrant : Register(a)

Spec == Init /\ [][Next]_vars

-----------------------------------------------------------------------------
(* Properties.                                                               *)

\* Types of the variables; m_sent never passes m_count, and at most one of a
\* client's two events is pending, none once it has stopped.
TypeOK ==
  /\ status \in [Client -> {"created", "running", "stopped"}]
  /\ \A c \in Client : m_sent[c] \in 0 .. m_count[c]
  /\ m_sendEvent \in [Client -> {"Write", "Read", "expired"}]
  /\ m_readEvent \in [Client -> {"Write", "expired"}]
  /\ \A c \in Client :
       /\ "expired" \in {m_sendEvent[c], m_readEvent[c]}
       /\ status[c] = "stopped" => {m_sendEvent[c], m_readEvent[c]} = {"expired"}
  /\ m_neigh_delay_table \in [Client -> SUBSET Switch]
  /\ m_eid_table \subseteq Switch
  /\ ToSet(resolution_table) \subseteq m_eid_table
  /\ IsInjective(resolution_table)
  /\ m_eid_na_table \in Seq(Registrant) /\ Len(m_eid_na_table) <= MaxRegist

\* The place in the list before the first address of the i-th reply.
Offset(i) == (i - 1) * Chunk

\* RequestHandle cuts the list into packets without loss, repetition or
\* reordering; exactly the last one is marked PACKET_FINISH, no packet holds more
\* than ten addresses and none is empty, also when the list ends on a multiple of
\* ten.
RepliesCarryTheList ==
  \A r \in replies :
    /\ \A i \in DOMAIN r.sent :
         /\ r.sent[i].num \in 1 .. Chunk
         /\ Offset(i) + r.sent[i].num <= Len(r.list)
         /\ r.sent[i].addresses = SubSeq(r.list, Offset(i) + 1, Offset(i) + r.sent[i].num)
         /\ (r.sent[i].flag = "PACKET_FINISH") <=> (i = Len(r.sent))
    /\ \A k \in DOMAIN r.list : \E i \in DOMAIN r.sent :
         k \in Offset(i) + 1 .. Offset(i) + r.sent[i].num
=============================================================================
