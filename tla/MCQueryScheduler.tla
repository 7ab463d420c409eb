-------------------------- MODULE MCQueryScheduler --------------------------
(****************************************************************************)
(* Small instances of QueryScheduler: the core one has three conversations  *)
(* in two workspaces, the placement of one of which moves to a second       *)
(* generation; in the crowded one more workspaces share a pool of two, and  *)
(* conversations are reset.                                                 *)
(****************************************************************************)
EXTENDS QueryScheduler

CONSTANTS q1, q2, q3, q4, w1, w2, w3

MCWorkspaces  == {w1, w2, w3}
MCGenerations == {1, 2}

Session(w, g, launcher) == [ws |-> w, gen |-> g, launcher |-> launcher]

\* q1 and q2 share a session.
ChatA == Session(w1, 1, "a")
ChatB == Session(w1, 2, "b")
Only(w) == Session(w, 1, "a")
MCKeys  == {ChatA, ChatB, Only(w2)}
MCKeyOf == q1 :> ChatA @@ q2 :> ChatA @@ q3 :> ChatB @@ q4 :> Only(w2)

CrowdKeys  == {ChatA, Only(w2), Only(w3)}
CrowdKeyOf == q1 :> ChatA @@ q2 :> ChatA @@ q3 :> Only(w2) @@ q4 :> Only(w3)
=============================================================================
