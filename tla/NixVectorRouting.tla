--------------------------- MODULE NixVectorRouting ---------------------------
(***************************************************************************)
(* Ipv4NixVectorRouting: source routes found by breadth-first search, kept  *)
(* as a bit string of neighbour indices (the nix-vector), carried by the     *)
(* packet and read off hop by hop, with a cache of nix-vectors and a cache  *)
(* of routes in every node, both keyed by the destination.                   *)
(*                                                                          *)
(* Links are point-to-point.  Device i of a node is its i-th link (device 0  *)
(* is the loopback, which has no channel), and its neighbour index is i - 1. *)
(* Sockets are bound to no device, so oif is null throughout, and addresses  *)
(* are those of existing nodes.                                             *)
(***************************************************************************)
EXTENDS NixVector, FiniteSets

CONSTANTS
  Node,
  Scenarios,   \* the neighbours every node starts with, in the order of its
               \* devices; the <<source, destination>> of the packets to
               \* send, once each; the bound on interface and link changes
  NewLinks,    \* links <<m, n>> that may be added while the simulation runs
  None         \* a null pointer

\* The neighbours of every node under links that are point-to-point, at most
\* one between two nodes; no more of them than a word can number.
IsNetwork(nbr) ==
  /\ nbr \in [Node -> Seq(Node)]
  /\ \A n \in Node :
       /\ Len(nbr[n]) <= Pow[WordSize]
       /\ \A i, j \in DOMAIN nbr[n] : nbr[n][i] = nbr[n][j] => i = j
       /\ \A i \in DOMAIN nbr[n] : /\ nbr[n][i] # n
                                   /\ \E j \in DOMAIN nbr[nbr[n][i]] : nbr[nbr[n][i]][j] = n

ASSUME NixAssumption ==
  /\ IsFiniteSet(Node)
  /\ None \notin Node \cup Vector
  /\ NewLinks \subseteq Node \X Node
  /\ \A l \in NewLinks : l[1] # l[2]
  /\ \A x \in Scenarios :
       /\ IsNetwork(x.neighbors)
       /\ x.flows \subseteq Node \X Node
       /\ \A f \in x.flows : f[1] # f[2]
       /\ x.changes \in Nat

VARIABLES
  scenario,          \* the one chosen
  neighbors,         \* [Node -> Seq(Node)], the other end of every device
  down,              \* interfaces <<node, device>> that are down
  changes,           \* number of changes so far
  g_isCacheDirty,
  m_nixCache,        \* [Node -> [Node -> nix-vector or None]]
  m_ipv4RouteCache,  \* [Node -> [Node -> output device or None]]
  m_totalNeighbors,  \* [Node -> Nat], 0 until counted
  unsent,            \* the flows whose packet is not sent yet
  packets,           \* packets in flight
  delivered,         \* observer: <<flow, hops>> of the packets that arrived
  fatal              \* NS_FATAL_ERROR ended the simulation

netVars   == <<scenario, neighbors, down, changes>>
cacheVars == <<g_isCacheDirty, m_nixCache, m_ipv4RouteCache, m_totalNeighbors>>
vars      == <<netVars, cacheVars, unsent, packets, delivered, fatal>>

NoEntry == [n \in Node |-> [d \in Node |-> None]]

Init ==
  /\ scenario \in Scenarios
  /\ neighbors = scenario.neighbors
  /\ down = {}
  /\ changes = 0
  /\ g_isCacheDirty = TRUE      \* the addresses were assigned before the start
  /\ m_nixCache = NoEntry
  /\ m_ipv4RouteCache = NoEntry
  /\ m_totalNeighbors = [n \in Node |-> 0]
  /\ unsent = scenario.flows
  /\ packets = {}
  /\ delivered = {}
  /\ fatal = FALSE

-----------------------------------------------------------------------------
(* The network seen from a node.                                            *)

FindTotalNeighbors(n) == Len(neighbors[n])
Linked(n, m)          == \E i \in DOMAIN neighbors[n] : neighbors[n][i] = m
DeviceTo(n, m)        == CHOOSE i \in DOMAIN neighbors[n] : neighbors[n][i] = m

\* The devices that n can send by.
Open(n) == {i \in DOMAIN neighbors[n] : <<n, i>> \notin down}

-----------------------------------------------------------------------------
(* The search.  order holds the nodes in the order of their discovery; those *)
(* from place head on are the grey ones, still in the queue.                 *)

\* Mutant of Visit: a grey neighbour changes its parent.
VisitAgain(s, curr, i) ==
  LET m == neighbors[curr][i]
  IN  IF i \notin Open(curr) THEN s
      ELSE IF s.parent[m] = None
      THEN [s EXCEPT !.order = Append(@, m), !.parent[m] = curr]
      ELSE IF \E k \in s.head + 1 .. Len(s.order) : s.order[k] = m
      THEN [s EXCEPT !.parent[m] = curr]
      ELSE s

\* The neighbour at device i of curr is pushed unless it has a parent already.
Visit(s, curr, i) ==
  LET m == neighbors[curr][i]
  IN  IF i \in Open(curr) /\ s.parent[m] = None
      THEN [s EXCEPT !.order = Append(@, m), !.parent[m] = curr]
      ELSE s

\* One turn of the loop: the children of the head are pushed, then it is popped.
Turn(s, dest) ==
  LET curr == s.order[s.head]
      scan[i \in Nat] == IF i = 0 THEN s ELSE Visit(scan[i - 1], curr, i)
  IN  IF s.head > Len(s.order) \/ curr = dest THEN s
      ELSE [scan[FindTotalNeighbors(curr)] EXCEPT !.head = @ + 1]

\* The parent vector that BFS leaves when it searches dest from source; every
\* turn takes another node from the queue.
BFS(source, dest) ==
  LET start == [order  |-> <<source>>,
                head   |-> 1,
                parent |-> [m \in Node |-> IF m = source THEN source ELSE None]]
      loop[k \in Nat] == IF k = 0 THEN start ELSE Turn(loop[k - 1], dest)
  IN  loop[Cardinality(Node)].parent

\* One index is added for the hop from the parent; every neighbour has an
\* index, whether its interface is up or not.
Climb(s, parent, source) ==
  LET p == parent[s.at]
  IN  IF s.at = source THEN s
      ELSE [at     |-> p,
            vector |-> AddNeighborIndex(s.vector, DeviceTo(p, s.at) - 1,
                                        BitCount(FindTotalNeighbors(p)))]

\* From dest up to source.
BuildNixVector(parent, source, dest) ==
  LET climb[k \in Nat] == IF k = 0 THEN [at |-> dest, vector |-> NewVector]
                          ELSE Climb(climb[k - 1], parent, source)
  IN  climb[Cardinality(Node)].vector

GetNixVector(source, dest) ==
  LET parent == BFS(source, dest)
  IN  IF parent[dest] = None THEN None ELSE BuildNixVector(parent, source, dest)

-----------------------------------------------------------------------------
(* Caches.                                                                   *)

\* The caches that RouteOutput and RouteInput find once
\* CheckCacheStateAndFlush has run: all nodes' caches are emptied.
NixCache   == IF g_isCacheDirty THEN NoEntry ELSE m_nixCache
RouteCache == IF g_isCacheDirty THEN NoEntry ELSE m_ipv4RouteCache

TotalNeighbors(n) ==
  IF m_totalNeighbors[n] = 0 THEN FindTotalNeighbors(n) ELSE m_totalNeighbors[n]

\* FindNetDeviceForNixIndex: device 0 if there is no such neighbour.
DeviceFor(n, index) == IF index < FindTotalNeighbors(n) THEN index + 1 ELSE 0

\* What leaves node n by device i for the neighbour at its other end: nothing
\* if the interface is down or the loopback.
Leaves(n, i, flow, vector, hops) ==
  IF i = 0 \/ <<n, i>> \in down THEN {}
  ELSE {[flow |-> flow, at |-> neighbors[n][i], from |-> n, vector |-> vector, hops |-> hops]}

\* With no oif the route found in the cache is never the one wanted, and is
\* built anew.  A node's count of neighbours never exceeds the true one, so the
\* first index is always there to be read.
RouteOutput(f) ==
  LET n      == f[1]
      dest   == f[2]
      cached == NixCache[n][dest]
      vector == IF cached # None THEN cached ELSE GetNixVector(n, dest)
      bits   == BitCount(TotalNeighbors(n))
      device == DeviceFor(n, ExtractNeighborIndex(vector, bits))
  IN  /\ ~ fatal
      /\ f \in unsent
      /\ unsent' = unsent \ {f}
      /\ g_isCacheDirty' = FALSE
      /\ m_nixCache' = [NixCache EXCEPT ![n][dest] = vector]
      /\ \/ /\ vector = None
            /\ m_ipv4RouteCache' = RouteCache
            /\ UNCHANGED <<m_totalNeighbors, packets>>
         \/ /\ vector # None
            /\ m_totalNeighbors' = [m_totalNeighbors EXCEPT ![n] = TotalNeighbors(n)]
            /\ m_ipv4RouteCache' = [RouteCache EXCEPT ![n][dest] = device]
            /\ packets' = packets \cup Leaves(n, device, f, Used(vector, bits), 1)
      /\ UNCHANGED <<netVars, delivered, fatal>>

Arrived(p) == <<p.at, DeviceTo(p.at, p.from)>>   \* the interface it came in by

\* The destination takes the packet in.
LocalDeliver(p) ==
  /\ ~ fatal
  /\ p \in packets
  /\ p.at = p.flow[2] /\ Arrived(p) \notin down
  /\ packets' = packets \ {p}
  /\ delivered' = delivered \cup {<<p.flow, p.hops>>}
  /\ g_isCacheDirty' = FALSE
  /\ m_nixCache' = NixCache
  /\ m_ipv4RouteCache' = RouteCache
  /\ UNCHANGED <<netVars, m_totalNeighbors, unsent, fatal>>

\* Ipv4L3Protocol drops what comes in on an interface that is down.
Refuse(p) ==
  /\ ~ fatal
  /\ p \in packets
  /\ Arrived(p) \in down
  /\ packets' = packets \ {p}
  /\ UNCHANGED <<netVars, cacheVars, unsent, delivered, fatal>>

\* A node in transit reads its index off the vector, but a route already in
\* the cache decides where the packet goes.
RouteInput(p) ==
  LET n      == p.at
      dest   == p.flow[2]
      bits   == BitCount(TotalNeighbors(n))
      cached == RouteCache[n][dest]
      device == IF cached # None THEN cached
                ELSE DeviceFor(n, ExtractNeighborIndex(p.vector, bits))
  IN  /\ ~ fatal
      /\ p \in packets
      /\ n # dest /\ Arrived(p) \notin down
      /\ g_isCacheDirty' = FALSE
      /\ m_nixCache' = NixCache
      /\ m_totalNeighbors' = [m_totalNeighbors EXCEPT ![n] = TotalNeighbors(n)]
      /\ \/ /\ bits <= GetRemainingBits(p.vector)
            /\ m_ipv4RouteCache' = [RouteCache EXCEPT ![n][dest] = device]
            /\ packets' = (packets \ {p})
                 \cup Leaves(n, device, p.flow, Used(p.vector, bits), p.hops + 1)
            /\ UNCHANGED fatal
         \/ /\ bits > GetRemainingBits(p.vector)
            /\ fatal' = TRUE
            /\ m_ipv4RouteCache' = RouteCache
            /\ UNCHANGED packets
      /\ UNCHANGED <<netVars, unsent, delivered>>

-----------------------------------------------------------------------------
(* Changes of the network.                                                   *)

Change ==
  /\ ~ fatal
  /\ changes < scenario.changes
  /\ changes' = changes + 1
  /\ g_isCacheDirty' = TRUE
  /\ UNCHANGED <<scenario, m_nixCache, m_ipv4RouteCache, m_totalNeighbors, unsent,
                 packets, delivered, fatal>>

\* Mutant of NotifyInterfaceDown: the caches are not marked dirty.
KeepCaches(n, i) ==
  /\ ~ fatal
  /\ changes < scenario.changes
  /\ <<n, i>> \notin down
  /\ down' = down \cup {<<n, i>>}
  /\ changes' = changes + 1
  /\ UNCHANGED <<scenario, neighbors, cacheVars, unsent, packets, delivered, fatal>>

NotifyInterfaceDown(n, i) ==
  /\ <<n, i>> \notin down
  /\ down' = down \cup {<<n, i>>}
  /\ UNCHANGED neighbors
  /\ Change

NotifyInterfaceUp(n, i) ==
  /\ <<n, i>> \in down
  /\ down' = down \ {<<n, i>>}
  /\ UNCHANGED neighbors
  /\ Change

\* A new link gets a device and an address at either end.
NotifyAddAddress(m, n) ==
  /\ ~ Linked(m, n)
  /\ \A x \in {m, n} : FindTotalNeighbors(x) < Pow[WordSize]
  /\ neighbors' = [neighbors EXCEPT ![m] = Append(@, n), ![n] = Append(@, m)]
  /\ UNCHANGED down
  /\ Change

-----------------------------------------------------------------------------
Send    == \E f \in unsent : RouteOutput(f)
Receive == \E p \in packets : RouteInput(p) \/ LocalDeliver(p) \/ Refuse(p)

Next ==
  \/ Send
  \/ Receive
  \/ \E n \in Node : \E i \in DOMAIN neighbors[n] :
       NotifyInterfaceDown(n, i) \/ NotifyInterfaceUp(n, i)
  \/ \E l \in NewLinks : NotifyAddAddress(l[1], l[2])

Spec == Init /\ [][Next]_vars

-----------------------------------------------------------------------------
(* Properties.                                                               *)

\* Types of the variables; a packet in flight is between two neighbours.
TypeOK ==
  /\ scenario \in Scenarios
  /\ IsNetwork(neighbors)
  /\ \A x \in down : x[1] \in Node /\ x[2] \in DOMAIN neighbors[x[1]]
  /\ changes \in 0 .. scenario.changes
  /\ g_isCacheDirty \in BOOLEAN
  /\ m_nixCache \in [Node -> [Node -> Vector \cup {None}]]
  /\ m_ipv4RouteCache \in [Node -> [Node -> Nat \cup {None}]]
  /\ m_totalNeighbors \in [Node -> Nat]
  /\ \A n, d \in Node :
       /\ m_nixCache[n][d] = None \/ IsVector(m_nixCache[n][d])
       /\ m_ipv4RouteCache[n][d] \in {None} \cup 0 .. FindTotalNeighbors(n)
       /\ m_totalNeighbors[n] \in 0 .. FindTotalNeighbors(n)
  /\ unsent \subseteq scenario.flows
  /\ packets \subseteq [flow : scenario.flows \ unsent, at : Node, from : Node,
                        vector : Vector, hops : Nat]
  /\ \A p \in packets : /\ Linked(p.from, p.at) /\ Linked(p.at, p.from)
                        /\ IsVector(p.vector)
                        /\ p.hops \in 1 .. p.vector.used
  /\ delivered \subseteq (scenario.flows \ unsent) \X Nat
  /\ fatal \in BOOLEAN

\* "At each hop, the current node extracts the appropriate neighbor-index from
\* the nix-vector and transmits the packet through the corresponding
\* net-device": the route cached for the destination, which RouteInput prefers,
\* is the one the packet's own vector asks for, as long as the network has not
\* changed since the packets were sent.
FollowsVector ==
  changes = 0 => \A p \in packets :
    LET bits  == BitCount(TotalNeighbors(p.at))
        route == RouteCache[p.at][p.flow[2]]
    IN  p.at # p.flow[2] =>
          /\ bits <= GetRemainingBits(p.vector)
          /\ route \in {None, DeviceFor(p.at, ExtractNeighborIndex(p.vector, bits))}

\* The nodes that can be reached from n in at most k hops over open interfaces.
Within(n, k) ==
  LET ball[j \in Nat] ==
        IF j = 0 THEN {n}
        ELSE {m \in Node : \/ m \in ball[j - 1]
                           \/ \E x \in ball[j - 1] : \E i \in Open(x) : neighbors[x][i] = m}
  IN  ball[k]

\* While the network does not change, packets arrive by a shortest way.
DeliveredByShortestWay ==
  changes = 0 => \A x \in delivered :
    /\ x[1][2] \in Within(x[1][1], x[2])
    /\ x[1][2] \notin Within(x[1][1], x[2] - 1)

\* The next hop of a walk along a vector over open interfaces; the walk is at
\* None once the vector cannot be followed.
Hop(here) ==
  LET bits == BitCount(TotalNeighbors(here.at))
      i    == DeviceFor(here.at, ExtractNeighborIndex(here.left, bits))
  IN  IF here.at = None \/ GetRemainingBits(here.left) = 0 THEN here
      ELSE IF bits > GetRemainingBits(here.left) \/ i \notin Open(here.at)
      THEN [here EXCEPT !.at = None]
      ELSE [at |-> neighbors[here.at][i], left |-> Used(here.left, bits)]

\* Where vector v leads from node n; there is at most one hop for every bit.
EndOf(n, v) ==
  LET walk[k \in Nat] == IF k = 0 THEN [at |-> n, left |-> v] ELSE Hop(walk[k - 1])
  IN  walk[GetRemainingBits(v)].at

\* Every node reads its index with the width that BuildNixVector gives it.
WidthsCurrent ==
  \A n \in Node : BitCount(TotalNeighbors(n)) = BitCount(FindTotalNeighbors(n))

\* Unless a flush is due, no cached nix-vector is stale: it leads to the
\* destination over interfaces that are up, when every node on the way reads its
\* index with the width it has remembered.  This is so whatever interfaces went
\* down and up; once links were added, only as long as none of them has made a
\* remembered width too small.
CachedVectorsLive ==
  (~ g_isCacheDirty /\ (neighbors = scenario.neighbors \/ WidthsCurrent)) =>
    \A n, d \in Node : m_nixCache[n][d] # None => EndOf(n, m_nixCache[n][d]) = d

\* "Upon a run-time topology change caches are flushed and the total number of
\* neighbors is reset to zero" (ResetTotalNeighbors): once the caches have been
\* flushed, a node's count of its neighbours is due or is the true one.
NeighborsRecounted ==
  ~ g_isCacheDirty =>
    \A n \in Node : m_totalNeighbors[n] \in {0, FindTotalNeighbors(n)}

\* While the network does not change, no packet for a node that can be reached
\* gets lost: no vector ends too early, and no cached route leads a packet into
\* a node for which its next index was not meant.
NothingLost ==
  changes = 0 =>
    /\ ~ fatal
    /\ \A f \in scenario.flows \ unsent :
         \/ \E p \in packets : p.flow = f
         \/ \E x \in delivered : x[1] = f
         \/ f[2] \notin Within(f[1], Cardinality(Node))
=============================================================================
