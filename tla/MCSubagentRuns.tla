--------------------------- MODULE MCSubagentRuns ---------------------------
(* One agent in the parent's process, one in a process of its own. *)
EXTENDS SubagentRuns, TLC

CONSTANTS a1, a2
AgentModes == (a1 :> {"thread", "acp"}) @@ (a2 :> {"subprocess"})
=============================================================================
