------------------------------ MODULE MCTopology ------------------------------
(***************************************************************************)
(* Interface numbers and shortest routes of a small network, computed from  *)
(* its cables in the order in which multicast.cc creates them.              *)
(***************************************************************************)
EXTENDS Naturals, Sequences, SequencesExt, FiniteSets, TLC

\* A function written out as a table, so that TLC computes it only once.
Tabulated(f) == f @@ <<>>

\* A node's interface 1 is its first cable, and so on.
InterfaceOf(cable, m, n) ==
  LET mine == SelectSeq(cable, LAMBDA l : m \in l)
      at   == {i \in DOMAIN mine : mine[i] = {m, n}}
  IN  IF m = n \/ at = {} THEN 1 ELSE CHOOSE i \in at : TRUE

InterfacesOf(cable, nodes) ==
  Tabulated([m \in nodes |-> Tabulated([n \in nodes |-> InterfaceOf(cable, m, n)])])

\* The simple paths of a network.
SimplePaths(cable, nodes) ==
  LET paths[k \in 1 .. Cardinality(nodes)] ==
        IF k = 1 THEN {<<n>> : n \in nodes}
        ELSE {Append(x[1], x[2]) : x \in
                {y \in paths[k - 1] \X nodes :
                   /\ {Last(y[1]), y[2]} \in ToSet(cable)
                   /\ y[2] \notin ToSet(y[1])}}
  IN  UNION {paths[k] : k \in 1 .. Cardinality(nodes)}

Shortest(paths) == CHOOSE p \in paths : \A z \in paths : Len(p) <= Len(z)

ShortestRoutes(cable, nodes) ==
  LET all == SimplePaths(cable, nodes)
  IN  Tabulated([m \in nodes |-> Tabulated([n \in nodes |->
        Shortest({p \in all : p[1] = m /\ Last(p) = n})])])
=============================================================================
