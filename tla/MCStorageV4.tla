----------------------------- MODULE MCStorageV4 -----------------------------
(* Two clients at two switches; replies of two addresses instead of ten.      *)
EXTENDS SeanetStorageV4, TLC

CONSTANTS s1, s2, c1, c2

MCHome  == (c1 :> s1) @@ (c2 :> s2)
\* c2 has MaxPackets 0.
OneNone == (c1 :> 1) @@ (c2 :> 0)
=============================================================================
