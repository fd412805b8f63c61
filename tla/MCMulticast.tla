----------------------------- MODULE MCMulticast -----------------------------
(***************************************************************************)
(* Instances of SeanetMulticast on a tree: four switches around b,           *)
(*                                                                          *)
(*        w - a - b - c - r                                                 *)
(*                |                                                         *)
(*                d - q                                                     *)
(*                                                                          *)
(* with one writing client w and reading clients r and q.                   *)
(***************************************************************************)
EXTENDS SeanetMulticast, MCTopology

CONSTANTS a, b, c, d, w, r, q, e1, e2

Cable      == <<{a, b}, {b, c}, {b, d}, {w, a}, {r, c}, {q, d}>>
Interfaces == InterfacesOf(Cable, Node)
Routes     == ShortestRoutes(Cable, Node)
MCIfOf     == Interfaces
MCRoute    == Routes

MCDr           == [x \in Client |-> CASE x = w -> a [] x = r -> c [] x = q -> d]
MCFunctionType == [x \in Client |-> IF x = w THEN "Write" ELSE "Read"]
OneEach        == [x \in Client |-> 1]
TwoWrites      == [x \in Client |-> IF x = w THEN 2 ELSE 1]
TwoOfThree     == [x \in Client |-> IF x = q THEN 1 ELSE 2]
SameEid        == [x \in Client |-> [n \in 1 .. Count[x] |-> e1]]
BothEids       == [x \in Client |-> [n \in 1 .. Count[x] |-> IF n = 1 THEN e1 ELSE e2]]
=============================================================================
