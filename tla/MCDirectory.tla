----------------------------- MODULE MCDirectory -----------------------------
(* A small instance of Directory: two replicas and two workspaces, alike. *)
EXTENDS Directory, TLC

CONSTANTS r1, r2, w1, w2

Alike == Permutations({r1, r2}) \cup Permutations({w1, w2})
=============================================================================
