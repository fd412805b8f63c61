----------------------------- MODULE SeanetTables -----------------------------
(***************************************************************************)
(* The tables of SwitchApplicationv4 as values, and the functions that      *)
(* read and extend them.                                                    *)
(*                                                                          *)
(*   cast table        UnicastTable / MultiCastTable of scratch/multicast.cc *)
(*                     key (local address, interface) -> list of EIDs: a     *)
(*                     set per switch and interface, since AddCastTable     *)
(*                     keeps no duplicates and only the length is read.     *)
(*                     {} is an absent key or a NULL list.  Interface 0 is   *)
(*                     the key that stands for the whole switch.            *)
(*   resolution table  EID -> list of addresses in registration order.      *)
(*   delay table       per switch, address -> last measured delay.          *)
(***************************************************************************)
EXTENDS SeanetNetwork, Integers, FiniteSets

CONSTANTS
  TreeTypes,   \* the kinds of tree that may be asked for
  Delays,      \* the delays a measurement can yield
  DelayBound,  \* FindNearestNode's initial shortestime (1 s)
  ScoreBound   \* GetRootNode's initial selected_score (10000)

ASSUME TablesAssumption ==
  /\ TreeTypes \subseteq {"Seanet", "SPT", "RPT"}
  /\ Delays \subseteq Nat
  /\ DelayBound \in Nat
  /\ ScoreBound \in Nat
  /\ IsFiniteSet(EID)

VARIABLE tree_type     \* attribute of the switches, the same for all of them

IfNum   == 0 .. MaxIf
NoDelay == -1          \* the address is not a key of delay_table

CastTable       == [Switch -> [IfNum -> SUBSET EID]]
ResolutionTable == [EID -> Seq(Switch)]
DelayTable      == [Switch -> Delays \cup {NoDelay}]

\* Mutants of AddCastTable: one of the two keys is forgotten.
AddWholeOnly(table, s, i, e) == [table EXCEPT ![s][0] = @ \cup {e}]
AddInterfaceOnly(table, s, i, e) == [table EXCEPT ![s][i] = @ \cup {e}]

\* AddCastTable twice: for (local, interface) and for (local, 0).
AddCastTable(table, s, i, e) ==
  [table EXCEPT ![s] = [j \in IfNum |-> IF j \in {0, i} THEN @[j] \cup {e}
                                                       ELSE @[j]]]

Addresses(list) == {list[i] : i \in DOMAIN list}

\* Mutants of AddEIDNAINFO: no search for duplicates; the new address comes
\* first; an EID without a list gets none.
AddTwice(table, e, s) == [table EXCEPT ![e] = Append(@, s)]
AddFirst(table, e, s) ==
  [table EXCEPT ![e] = IF s \in Addresses(@) THEN @ ELSE <<s>> \o @]
AddToListOnly(table, e, s) ==
  [table EXCEPT ![e] = IF @ = <<>> \/ s \in Addresses(@) THEN @ ELSE Append(@, s)]

\* AddEIDNAINFO: append the address unless the list already holds it.
AddEIDNAINFO(table, e, s) ==
  [table EXCEPT ![e] = IF s \in Addresses(@) THEN @ ELSE Append(@, s)]

\* GetSwitchSocre: 0 unless the switch has both lists.
GetSwitchSocre(unicast, multicast, s) ==
  IF unicast[s][0] = {} \/ multicast[s][0] = {} THEN 0
  ELSE Cardinality(unicast[s][0]) + Cardinality(multicast[s][0])

\* GetRootNode of switch s with delay table d: the addresses it can return.
\* The scan goes in hash order, which the model leaves open.
GetRootNode(unicast, multicast, d, s) ==
  LET score(k) == GetSwitchSocre(unicast, multicast, k)
      known    == {k \in Switch : d[k] # NoDelay}
      eligible == {k \in known : score(k) <= ScoreBound}
  IN  CASE known = {}    -> {s}
        [] known # {} /\ eligible = {} -> known
        [] eligible # {} -> {k \in eligible :
                               \A m \in eligible : score(k) <= score(m)}

\* The RN that the handler of REGIST_TO_SOURCE_DR works with.
RootNode(unicast, multicast, d, s) ==
  CASE tree_type = "Seanet" -> GetRootNode(unicast, multicast, d, s)
    [] tree_type = "SPT"    -> {s}
    [] tree_type = "RPT"    -> {Nil}

\* Mutant of FindNearestNode: only switches with a known delay are considered.
NearestMeasured(list, d) ==
  LET near == {i \in DOMAIN list : d[list[i]] # NoDelay /\ d[list[i]] < DelayBound}
  IN  IF near = {} THEN {Nil} ELSE {list[i] : i \in near}

\* FindNearestNode on one EID's list, as the one-element set of its result.
FindNearestNode(list, d) ==
  LET near == {i \in DOMAIN list : d[list[i]] # NoDelay /\ d[list[i]] < DelayBound}
      best == {i \in near : \A j \in near :
                 \/ d[list[i]] < d[list[j]]
                 \/ d[list[i]] = d[list[j]] /\ i <= j}
  IN  CASE list = <<>> -> {Nil}
        [] list # <<>> /\ tree_type = "SPT" -> {list[Len(list)]}
        [] list # <<>> /\ tree_type # "SPT" /\ near = {} -> {list[1]}
        [] list # <<>> /\ tree_type # "SPT" /\ near # {} -> {list[i] : i \in best}
=============================================================================
