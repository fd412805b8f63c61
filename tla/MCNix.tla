-------------------------------- MODULE MCNix --------------------------------
(***************************************************************************)
(* Instances of NixVectorRouting on a square with two tails and a diagonal   *)
(* that may be added, so that there are equally short ways to choose from:  *)
(*                                                                          *)
(*        s - a - b                                                         *)
(*            |   |                                                         *)
(*            c - d - t                                                     *)
(***************************************************************************)
EXTENDS NixVectorRouting, SequencesExt

CONSTANTS s, a, b, c, d, t

Square == {{a, b}, {a, c}, {b, d}, {c, d}}
Tails  == <<{s, a}, {d, t}>>
Closed == <<{s, a}, {s, t}, {d, t}>>

\* The links of the square in every order, with the two tails, and with the two
\* tails joined, which closes rings of five and six nodes.
Tailed   == {o \o Tails : o \in SetToSeqs(Square)}
Rings    == {Closed \o o : o \in SetToSeqs(Square)}
OneOrder == {<<{s, a}, {a, b}, {a, c}, {b, d}, {c, d}, {d, t}>>}

Diagonals == {<<a, d>>, <<b, c>>}
Across    == {<<s, t>>, <<a, t>>, <<s, d>>, <<a, d>>, <<t, a>>}
Around    == {<<a, t>>, <<s, d>>, <<a, d>>, <<t, a>>}
Few       == {<<s, t>>, <<a, t>>}

\* The neighbours of a node in the order of the links at it.
Devices(cable) ==
  [n \in Node |-> LET mine == SelectSeq(cable, LAMBDA l : n \in l)
                 IN  [i \in DOMAIN mine |-> CHOOSE m \in mine[i] : m # n]]

\* Traffic on every network without changes, and changes under traffic on one.
Static == {[neighbors |-> Devices(o), flows |-> Across, changes |-> 0] : o \in Tailed}
            \cup {[neighbors |-> Devices(o), flows |-> Around, changes |-> 0] : o \in Rings}
Flap   == {[neighbors |-> Devices(o), flows |-> Few, changes |-> 2] : o \in OneOrder}
Mixed  == Static \cup Flap
=============================================================================
