------------------------- MODULE MCSubagentDelivery -------------------------
(* One subagent in a thread, and a completion of another one. *)
EXTENDS SubagentDelivery, TLC

CONSTANTS a1, n1
AgentModes == a1 :> {"thread"}
Notices == (Run \X Announcer) \cup {n1}
=============================================================================
