----------------------------- MODULE MCAgentSync -----------------------------
(* Two handlers, the second one for a request that overtakes the first.    *)
EXTENDS AgentSync

MCSlot == {1, 2}
=============================================================================
