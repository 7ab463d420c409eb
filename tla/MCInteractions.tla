--------------------------- MODULE MCInteractions ---------------------------
(* A small instance of Interactions: three requests, two callbacks that overlap. *)
EXTENDS Interactions, TLC

CONSTANTS i1, i2, i3, c1, c2

Alike == Permutations({c1, c2}) \cup Permutations({i1, i2, i3})
=============================================================================
