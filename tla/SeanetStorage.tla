---------------------------- MODULE SeanetStorage ----------------------------
(***************************************************************************)
(* The Seanet storage service over IPv6: SwitchApplication stores data and   *)
(* registers it with the ResolutionApplication, StorageClientApplication     *)
(* writes to its switch, asks the resolution server where the data is and    *)
(* fetches it there.                                                         *)
(*                                                                          *)
(* Both servers work in two halves.  FrontEnd, the receive callback, puts    *)
(* the packet into packetin and its sender into addressin; AferEnd, a timer, *)
(* takes one element of each and handles them as a pair.                    *)
(***************************************************************************)
EXTENDS Naturals, Sequences

CONSTANTS
  Switch,     \* nodes running SwitchApplication
  Res,        \* the node running ResolutionApplication
  Client,     \* nodes running StorageClientApplication
  EID,
  TheEID,     \* the EID in Write and Read, the same in every client
  Home,       \* Home[c]: m_switch_address of client c
  m_count,    \* [Client -> Nat], attribute MaxPackets
  MaxSize,    \* limit of a DropTailQueue (100)
  TableSize,  \* addresses the resolution table keeps of an EID (3)
  MaxSends,   \* bound on the packets a client sends by itself
  Lossy,      \* the network may lose packets
  Stoppable   \* applications whose stop time lies within the run

Server == Switch \cup {Res}
Node   == Server \cup Client

ASSUME StorageAssumption ==
  /\ Res \notin Switch
  /\ Client \cap Server = {}
  /\ Home \in [Client -> Switch]
  /\ TheEID \in EID
  /\ m_count \in [Client -> Nat]
  /\ MaxSize \in Nat \ {0}
  /\ TableSize \in Nat \ {0}
  /\ MaxSends \in Nat
  /\ Lossy \in BOOLEAN
  /\ Stoppable \subseteq Node

VARIABLES
  status,          \* start and stop of each application
  packetin,        \* per server: packets between FrontEnd and AferEnd
  addressin,       \* per server: their senders
  m_eid_table,     \* per switch: the EIDs it stores
  m_eid_na_table,  \* resolution server: EID -> addresses
  m_sendEvent,     \* per client: the scheduled call, or "expired"
  m_readEvent,
  sends,           \* per client: packets sent by Write and Read
  net,             \* packets in flight
  answered         \* observer: <<client, request, switch>> of REPLY_DATA received

queueVars  == <<packetin, addressin>>
tableVars  == <<m_eid_table, m_eid_na_table>>
clientVars == <<m_sendEvent, m_readEvent, sends>>
vars == <<status, queueVars, tableVars, clientVars, net, answered>>

\* id is the client and the number of the packet by which it began this
\* exchange; list is the payload of a REPLY_EID_NA.
Kind == {"RESEIVE_DATA", "REGIST_EID_NA", "REQUEST_EID_NA", "REPLY_EID_NA",
         "REQUEST_DATA", "REPLY_DATA"}
Packet == [kind : Kind, eid : EID, id : Client \X Nat, src : Node, dst : Node,
           list : Seq(Switch)]

Message(kind, p, from, to, list) ==
  [kind |-> kind, eid |-> p.eid, id |-> p.id, src |-> from, dst |-> to, list |-> list]

Init ==
  /\ status = [n \in Node |-> "created"]
  /\ packetin = [s \in Server |-> <<>>]
  /\ addressin = [s \in Server |-> <<>>]
  /\ m_eid_table = [s \in Switch |-> {}]
  /\ m_eid_na_table = [e \in EID |-> <<>>]
  /\ m_sendEvent = [c \in Client |-> "expired"]
  /\ m_readEvent = [c \in Client |-> "expired"]
  /\ sends = [c \in Client |-> 0]
  /\ net = {}
  /\ answered = {}

-----------------------------------------------------------------------------
(* Start and stop.                                                           *)

StartServer(s) ==
  /\ status[s] = "created"
  /\ status' = [status EXCEPT ![s] = "running"]
  /\ UNCHANGED <<queueVars, tableVars, clientVars, net, answered>>

\* AferEnd is cancelled, but only the IPv4 socket loses its callback: FrontEnd
\* goes on filling the queues.
StopServer(s) ==
  /\ s \in Stoppable
  /\ status[s] = "running"
  /\ status' = [status EXCEPT ![s] = "stopped"]
  /\ UNCHANGED <<queueVars, tableVars, clientVars, net, answered>>

StartClient(c) ==
  /\ status[c] = "created"
  /\ status' = [status EXCEPT ![c] = "running"]
  /\ m_sendEvent' = [m_sendEvent EXCEPT ![c] = "Write"]
  /\ UNCHANGED <<queueVars, tableVars, m_readEvent, sends, net, answered>>

\* Mutant of StopClient: the event that Read scheduled is forgotten.
StopSendOnly(c) ==
  /\ c \in Stoppable
  /\ status[c] = "running"
  /\ status' = [status EXCEPT ![c] = "stopped"]
  /\ m_sendEvent' = [m_sendEvent EXCEPT ![c] = "expired"]
  /\ UNCHANGED <<queueVars, tableVars, m_readEvent, sends, net, answered>>

StopClient(c) ==
  /\ c \in Stoppable
  /\ status[c] = "running"
  /\ status' = [status EXCEPT ![c] = "stopped"]
  /\ m_sendEvent' = [m_sendEvent EXCEPT ![c] = "expired"]
  /\ m_readEvent' = [m_readEvent EXCEPT ![c] = "expired"]
  /\ UNCHANGED <<queueVars, tableVars, sends, net, answered>>

-----------------------------------------------------------------------------
(* Clients.                                                                   *)

\* Client c sends the first packet of an exchange.  m_sent stays 0: nothing
\* increments it, so m_sent < m_count is 0 < m_count.
Begin(c, kind, to) ==
  /\ sends[c] < MaxSends
  /\ sends' = [sends EXCEPT ![c] = @ + 1]
  /\ net' = net \cup {[kind |-> kind, eid |-> TheEID, id |-> <<c, sends[c]>>,
                       src |-> c, dst |-> to, list |-> <<>>]}
  /\ UNCHANGED <<status, queueVars, tableVars, answered>>

Rescheduled(c, call) == IF 0 < m_count[c] THEN call ELSE "expired"

\* Write runs from the event that StartApplication or Read scheduled, and
\* schedules Read in m_sendEvent.
Write(c) ==
  /\ "Write" \in {m_sendEvent[c], m_readEvent[c]}
  /\ m_sendEvent' = [m_sendEvent EXCEPT ![c] = Rescheduled(c, "Read")]
  /\ m_readEvent' = [m_readEvent EXCEPT ![c] = "expired"]
  /\ Begin(c, "RESEIVE_DATA", Home[c])

\* Read asks the resolution server (REQUEST_DATA and REQUEST_EID_NA are both 1)
\* and schedules Write in m_readEvent.
Read(c) ==
  /\ m_sendEvent[c] = "Read"
  /\ m_sendEvent' = [m_sendEvent EXCEPT ![c] = "expired"]
  /\ m_readEvent' = [m_readEvent EXCEPT ![c] = Rescheduled(c, "Write")]
  /\ Begin(c, "REQUEST_EID_NA", Res)

\* Mutant of ResolutionReplyHandle: a reply with one address counts as empty.
ReplyOfSeveral(p) ==
  /\ p \in net /\ p.dst \in Client /\ p.kind = "REPLY_EID_NA"
  /\ net' = (net \ {p}) \cup
       (IF Len(p.list) > 1 THEN {Message("REQUEST_DATA", p, p.dst, p.list[1], <<>>)} ELSE {})
  /\ UNCHANGED <<status, queueVars, tableVars, clientVars, answered>>

\* The data is asked for at the first address of the reply.
ResolutionReplyHandle(p) ==
  /\ p \in net /\ p.dst \in Client /\ p.kind = "REPLY_EID_NA"
  /\ net' = (net \ {p}) \cup
       (IF p.list # <<>> THEN {Message("REQUEST_DATA", p, p.dst, p.list[1], <<>>)} ELSE {})
  /\ UNCHANGED <<status, queueVars, tableVars, clientVars, answered>>

SwitchReplyHandle(p) ==
  /\ p \in net /\ p.dst \in Client /\ p.kind = "REPLY_DATA"
  /\ net' = net \ {p}
  /\ answered' = answered \cup {<<p.dst, p.id, p.src>>}
  /\ UNCHANGED <<status, queueVars, tableVars, clientVars>>

-----------------------------------------------------------------------------
(* Servers: FrontEnd.                                                        *)

\* DropTailQueue: a full queue drops what is to be added.
Enqueue(q, x) == IF Len(q) < MaxSize THEN Append(q, x) ELSE q
Dequeue(q)    == IF q = <<>> THEN q ELSE Tail(q)

\* Mutant of FrontEnd: the sender is kept even if the packet was dropped, in a
\* queue without limit.
FrontEndUnlimited(p) ==
  /\ p \in net /\ p.dst \in Server /\ status[p.dst] # "created"
  /\ net' = net \ {p}
  /\ packetin' = [packetin EXCEPT ![p.dst] = Enqueue(@, p)]
  /\ addressin' = [addressin EXCEPT ![p.dst] = Append(@, p.src)]
  /\ UNCHANGED <<status, tableVars, clientVars, answered>>

FrontEnd(p) ==
  /\ p \in net /\ p.dst \in Server /\ status[p.dst] # "created"
  /\ net' = net \ {p}
  /\ packetin' = [packetin EXCEPT ![p.dst] = Enqueue(@, p)]
  /\ addressin' = [addressin EXCEPT ![p.dst] = Enqueue(@, p.src)]
  /\ UNCHANGED <<status, tableVars, clientVars, answered>>

\* No socket is bound to the port yet.
Unbound(p) ==
  /\ p \in net /\ p.dst \in Server /\ status[p.dst] = "created"
  /\ net' = net \ {p}
  /\ UNCHANGED <<status, queueVars, tableVars, clientVars, answered>>

Lose(p) ==
  /\ Lossy /\ p \in net
  /\ net' = net \ {p}
  /\ UNCHANGED <<status, queueVars, tableVars, clientVars, answered>>

-----------------------------------------------------------------------------
(* Servers: AferEnd.                                                         *)

ReceiveDataHandle(s, p, from) ==
  /\ s \in Switch /\ p.kind = "RESEIVE_DATA"
  /\ m_eid_table' = [m_eid_table EXCEPT ![s] = @ \cup {p.eid}]
  /\ net' = net \cup {Message("REGIST_EID_NA", p, s, Res, <<>>)}
  /\ UNCHANGED m_eid_na_table

RequestDataHandle(s, p, from) ==
  /\ s \in Switch /\ p.kind = "REQUEST_DATA"
  /\ net' = net \cup (IF p.eid \in m_eid_table[s]
                      THEN {Message("REPLY_DATA", p, s, from, <<>>)} ELSE {})
  /\ UNCHANGED tableVars

\* Mutant of AddEIDNATable: one address too many.
AddOneMore(list, a) == IF Len(list) <= TableSize THEN Append(list, a) ELSE list

\* An address is added while there is room, known or not.
AddEIDNATable(list, a) == IF Len(list) < TableSize THEN Append(list, a) ELSE list

RegistHandle(s, p, from) ==
  /\ s = Res /\ p.kind = "REGIST_EID_NA"
  /\ m_eid_na_table' = [m_eid_na_table EXCEPT ![p.eid] = AddEIDNATable(@, from)]
  /\ UNCHANGED <<m_eid_table, net>>

RequestHandle(s, p, from) ==
  /\ s = Res /\ p.kind = "REQUEST_EID_NA"
  /\ net' = net \cup (IF m_eid_na_table[p.eid] # <<>>
                      THEN {Message("REPLY_EID_NA", p, Res, from, m_eid_na_table[p.eid])}
                      ELSE {})
  /\ UNCHANGED tableVars

\* No packet of another kind is sent to a server (TypeOK).
Handle(s, p, from) ==
  \/ ReceiveDataHandle(s, p, from)
  \/ RequestDataHandle(s, p, from)
  \/ RegistHandle(s, p, from)
  \/ RequestHandle(s, p, from)

\* One element of each queue is taken.  If only one queue had one, it would be
\* lost.
AferEnd(s) ==
  /\ status[s] = "running"
  /\ packetin[s] # <<>> \/ addressin[s] # <<>>
  /\ packetin' = [packetin EXCEPT ![s] = Dequeue(@)]
  /\ addressin' = [addressin EXCEPT ![s] = Dequeue(@)]
  /\ IF packetin[s] # <<>> /\ addressin[s] # <<>>
     THEN Handle(s, Head(packetin[s]), Head(addressin[s]))
     ELSE UNCHANGED <<tableVars, net>>
  /\ UNCHANGED <<status, clientVars, answered>>

ReceiveCallback(p) == ResolutionReplyHandle(p) \/ SwitchReplyHandle(p)

-----------------------------------------------------------------------------
Next ==
  \/ \E s \in Server : StartServer(s) \/ StopServer(s) \/ AferEnd(s)
  \/ \E c \in Client : StartClient(c) \/ StopClient(c) \/ Write(c) \/ Read(c)
  \/ \E p \in net : FrontEnd(p) \/ Unbound(p) \/ ReceiveCallback(p) \/ Lose(p)

Spec == Init /\ [][Next]_vars

\* The simulator runs every scheduled event, AferEnd every 0.1 s.
Fairness ==
  /\ \A s \in Server : WF_vars(AferEnd(s))
  /\ WF_vars(\E p \in net : FrontEnd(p) \/ ReceiveCallback(p))

FairSpec == Spec /\ Fairness

-----------------------------------------------------------------------------
(* Properties.                                                               *)

\* What reaches whom: the kinds that the receiver has a handler for.
Handled(p) ==
  \/ p.dst \in Switch /\ p.kind \in {"RESEIVE_DATA", "REQUEST_DATA"}
  \/ p.dst = Res /\ p.kind \in {"REGIST_EID_NA", "REQUEST_EID_NA"}
  \/ p.dst \in Client /\ p.kind \in {"REPLY_EID_NA", "REPLY_DATA"}

Queued(s) == {packetin[s][i] : i \in 1..Len(packetin[s])}

\* Every packet, on its way or in a queue.
Packets == net \cup UNION {Queued(s) : s \in Server}

Stores(n, eid) == n \in Switch /\ eid \in m_eid_table[n]

\* The variables have their types, every packet is addressed to an application
\* with a handler for it, and neither a queue nor the address list of an EID
\* (three slots of 18 bytes) grows beyond its limit.
TypeOK ==
  /\ status \in [Node -> {"created", "running", "stopped"}]
  /\ packetin \in [Server -> Seq(Packet)]
  /\ addressin \in [Server -> Seq(Node)]
  /\ \A s \in Server : Len(packetin[s]) <= MaxSize
  /\ m_eid_table \in [Switch -> SUBSET EID]
  /\ m_eid_na_table \in [EID -> Seq(Switch)]
  /\ \A e \in EID : Len(m_eid_na_table[e]) <= TableSize
  /\ m_sendEvent \in [Client -> {"Write", "Read", "expired"}]
  /\ m_readEvent \in [Client -> {"Write", "expired"}]
  /\ sends \in [Client -> 0..MaxSends]
  /\ net \subseteq Packet
  /\ \A p \in Packets : Handled(p)
  /\ answered \subseteq Client \X (Client \X Nat) \X Switch

\* packetin and addressin are filled by two calls that ignore each other's
\* result and are emptied by two others, yet stay in step: the i-th sender is
\* that of the i-th packet, also after overflow and after a stop.  A server
\* answers and registers whoever addressin names.
QueuesInStep ==
  \A s \in Server :
    /\ Len(packetin[s]) = Len(addressin[s])
    /\ \A i \in 1..Len(packetin[s]) :
         packetin[s][i].src = addressin[s][i] /\ packetin[s][i].dst = s

\* An address is only given out for data that is there: a switch stores an EID
\* before it registers, so every address in the resolution table, in a reply and
\* every switch asked for data holds the EID, whatever is lost or overtaken.
RegisteredHaveStored ==
  /\ \A e \in EID : \A i \in 1..Len(m_eid_na_table[e]) : Stores(m_eid_na_table[e][i], e)
  /\ \A p \in Packets :
       /\ p.kind = "REGIST_EID_NA" => Stores(p.src, p.eid)
       /\ p.kind = "REQUEST_DATA" => Stores(p.dst, p.eid)
       /\ \A i \in 1..Len(p.list) : Stores(p.list[i], p.eid)

\* A reply of the resolution server or of a switch goes to the client that began
\* the exchange, though two timers, two queues and two servers lie between.
AnswersReachAsker ==
  /\ \A p \in Packets : p.kind \in {"REPLY_EID_NA", "REPLY_DATA"} => p.dst = p.id[1]
  /\ \A x \in answered : x[1] = x[2][1]

\* Write and Read alternate by scheduling each other through two events: both are
\* never pending, which the NS_ASSERTs of Write and Read need, and a stopped
\* client has none left.
EventsAlternate ==
  \A c \in Client :
    /\ "expired" \in {m_sendEvent[c], m_readEvent[c]}
    /\ status[c] = "stopped" => {m_sendEvent[c], m_readEvent[c]} = {"expired"}

\* Without loss and overflow, a read that finds the EID registered when it is
\* under way to the resolution server ends with the data at its client.
ReadAnswered ==
  \A c \in Client : \A n \in 0..MaxSends :
    (\E p \in net : p.kind = "REQUEST_EID_NA" /\ p.id = <<c, n>> /\ m_eid_na_table[p.eid] # <<>>)
      ~> (\E s \in Switch : <<c, <<c, n>>, s>> \in answered)
=============================================================================
