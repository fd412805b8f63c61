------------------------------ MODULE MCStorage ------------------------------
(* Two switches, a resolution server and two clients of different switches.   *)
EXTENDS SeanetStorage, TLC

CONSTANTS s1, s2, r, c1, c2, e

MCSwitch == {s1, s2}
MCClient == {c1, c2}
MCHome   == (c1 :> s1) @@ (c2 :> s2)

Unlimited == (c1 :> 100) @@ (c2 :> 100)

NoStop    == {}
SomeStop  == {s1, r, c1}
=============================================================================
