----------------------------- MODULE EidRegistry -----------------------------
(***************************************************************************)
(* What the resolution function of Seanet promises its users: for every EID *)
(* a list of network addresses in the order of their registration, that     *)
(* only grows, and holds no address twice.                                  *)
(***************************************************************************)
EXTENDS Sequences

CONSTANTS EID, Switch
VARIABLE registry

Init == registry = [e \in EID |-> <<>>]

Registered(e) == {registry[e][i] : i \in DOMAIN registry[e]}

Register(e, s) ==
  /\ s \notin Registered(e)
  /\ registry' = [registry EXCEPT ![e] = Append(@, s)]

Next == \E e \in EID, s \in Switch : Register(e, s)

Spec == Init /\ [][Next]_registry
=============================================================================
