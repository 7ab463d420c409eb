------------------------- MODULE MCMessageAggregator -------------------------
(****************************************************************************)
(* Three conversations in two workspaces: m1, m2 and m3 belong to k1, m4    *)
(* comes for k1 with another context, m7 is a plain message of k1, m5       *)
(* belongs to another conversation of the workspace of k1, and m6 to the    *)
(* second workspace.                                                        *)
(****************************************************************************)
EXTENDS MessageAggregator, TLC

CONSTANTS m1, m2, m3, m4, m5, m6, m7, k1, k2, k3, w1, w2, old, new

Others      == m5 :> k2 @@ m6 :> k3
MCKeyOf     == [m \in Messages |-> IF m \in DOMAIN Others THEN Others[m] ELSE k1]
MCContextOf == [m \in Messages |-> IF m = m4 THEN new ELSE old]
MCScopeOf   == k1 :> w1 @@ k2 :> w1 @@ k3 :> w2

\* m1, m2 and m3 differ in nothing: they arrive in this order.
InOrder == (m2 \in arrived' => m1 \in arrived') /\ (m3 \in arrived' => m2 \in arrived')
MCSpec  == Init /\ [][Next /\ InOrder]_vars /\ Fairness
=============================================================================
