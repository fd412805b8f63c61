------------------------------- MODULE MCClient -------------------------------
(***************************************************************************)
(* Two writers, a reader and a client that does both.  With Base 2 and      *)
(* EID_UNIT 4 a byte of range 5 holds the hundreds of both writers' groups, *)
(* as a byte of 256 holds those of three.                                   *)
(***************************************************************************)
EXTENDS MulticastClient, TLC

CONSTANTS w1, w2, r1, a1

Types   == (w1 :> "Write") @@ (w2 :> "Write") @@ (r1 :> "Read") @@ (a1 :> "All")
Indices == (w1 :> 0) @@ (w2 :> 1) @@ (r1 :> 1) @@ (a1 :> 2)
=============================================================================
