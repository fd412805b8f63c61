---------------------------- MODULE SeanetNetwork ----------------------------
(***************************************************************************)
(* The network under the Seanet applications: nodes, their interfaces, the *)
(* nix-vector route between two nodes, and the packets that travel along    *)
(* it hop by hop.                                                           *)
(*                                                                          *)
(* A packet waits in the output queue of the hop-th node of its route.  The *)
(* queues of ns-3 (device queue under an fq_codel queue disc) keep no order *)
(* between flows and may drop, so the packets in flight form a set.  The    *)
(* two addresses of a packet are a function of its source and destination   *)
(* node: Ipv4NixVectorRouting sets the source address to that of the        *)
(* outgoing interface.                                                      *)
(***************************************************************************)
EXTENDS Naturals, Sequences

CONSTANTS
  Switch,    \* nodes running SwitchApplicationv4
  Relay,     \* nodes that only forward (the resolution node, the bare node)
  Client,    \* nodes running MulticastClientApplicationv4
  EID,       \* entity identifiers (multicast groups)
  MaxIf,     \* the largest interface number of a node; 0 is the loopback
  Route,     \* Route[a][b]: the nodes a packet visits from a to b
  IfOf,      \* IfOf[a][b]: the interface of a on its link to neighbour b
  Nil        \* no EID in the payload; the uninitialised Ipv4Address

Node == Switch \cup Relay \cup Client

\* What BuildNixVector yields: a simple path, only clients are never transited.
ASSUME TopologyAssumption ==
  /\ Client \cap (Switch \cup Relay) = {}
  /\ Switch \cap Relay = {}
  /\ Nil \notin Node \cup EID
  /\ MaxIf \in Nat \ {0}
  /\ Route \in [Node -> [Node -> Seq(Node)]]
  /\ \A a, b \in Node : a # b =>
       /\ Len(Route[a][b]) >= 2
       /\ Route[a][b][1] = a
       /\ Route[a][b][Len(Route[a][b])] = b
       /\ \A i \in 2 .. Len(Route[a][b]) - 1 :
            Route[a][b][i] \in (Switch \cup Relay) \ {a, b}
  /\ IfOf \in [Node -> [Node -> 1 .. MaxIf]]

NeighKind  == {"NEIGH_INFO_RECEIVE", "NEIGH_INFO_REPLY"}
GroupKind  == {"REGIST_TO_SOURCE_DR", "REGIST_TO_RN", "GRAFITING_REQUEST",
               "MULTICAST_DATA_TRANS", "REGIST_TO_DEST_DR"}

Packet == [kind : NeighKind \cup GroupKind, eid : EID \cup {Nil},
           src : Node, dst : Node, hop : Nat \ {0}]

\* Mutant of Send: the packet leaves whatever the address.
SendAnyway(kind, e, from, to) ==
  {[kind |-> kind, eid |-> e, src |-> from, dst |-> to, hop |-> 1]}

\* SendPacket / SendTo: nothing leaves for the node itself or an unknown
\* address, GetNixVector finds no vector for either.
Send(kind, e, from, to) ==
  IF to \in Node \ {from}
  THEN {[kind |-> kind, eid |-> e, src |-> from, dst |-> to, hop |-> 1]}
  ELSE {}

\* Mutant of InIf: the interface on which the sender let the packet out.
OutIf(p) == IfOf[p.src][Route[p.src][p.dst][2]]

\* The node a packet reaches next, and the interface it arrives on (iif).
NextNode(p) == Route[p.src][p.dst][p.hop + 1]
InIf(p)     == IfOf[NextNode(p)][Route[p.src][p.dst][p.hop]]

\* Ipv4NixVectorRouting::RouteInput hands the packet on.
Forwarded(p) == [p EXCEPT !.hop = @ + 1]

\* The interface number of the packet's source address; 1 is the interface
\* whose address a switch application takes as its local_address.
SourceIf(p) == IfOf[p.src][Route[p.src][p.dst][2]]
PrimaryIf   == 1
=============================================================================
