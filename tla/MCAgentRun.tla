----------------------------- MODULE MCAgentRun -----------------------------
(* A small instance of AgentRun: three results, and a call of a plugin. *)
EXTENDS AgentRun

\* A number that is not positive, and two that come in either order.
MCNumbers == {0, 1, 2}

\* The way the run may end itself, one it may not, and one that is no end.
MCPluginEnds == {"completed", "cancelled", "queued"}
=============================================================================
