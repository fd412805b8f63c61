--------------------------- MODULE MCMulticastRing ---------------------------
(***************************************************************************)
(* An instance of SeanetMulticast with a cycle and a bare node x, so that    *)
(* routes differ with their direction and a branch may cross a node that    *)
(* runs no switch application:                                              *)
(*                                                                          *)
(*        w - a - b - c - r                                                 *)
(*             \     /                                                      *)
(*              - x -                                                       *)
(*                                                                          *)
(* Client w both writes and reads ("All"), r only reads.                    *)
(***************************************************************************)
EXTENDS SeanetMulticast, MCTopology

CONSTANTS a, b, c, x, w, r, e1

Cable      == <<{a, x}, {c, x}, {a, b}, {b, c}, {w, a}, {r, c}>>
Interfaces == InterfacesOf(Cable, Node)
Routes     == ShortestRoutes(Cable, Node)
MCIfOf     == Interfaces
MCRoute    == Routes

MCDr           == [y \in Client |-> IF y = w THEN a ELSE c]
MCFunctionType == [y \in Client |-> IF y = w THEN "All" ELSE "Read"]
MCCount        == [y \in Client |-> 2]
SameEid        == [y \in Client |-> [n \in 1 .. Count[y] |-> e1]]
=============================================================================
