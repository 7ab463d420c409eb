----------------------------- MODULE MCSteering -----------------------------
(* A small instance of Steering: four messages of one runner, two slots. *)
EXTENDS Steering

\* The first message is the answer to an interaction: it starts a run in any case.
MCSteers == {<<m, r>> \in Messages \X Messages : m # 1}
=============================================================================
