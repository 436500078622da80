------------------------ MODULE MCServerConversation ------------------------
(* Tools are interchangeable, and no property names one of them. *)
EXTENDS ServerConversation, TLC

ToolSymmetry == Permutations(ToolWriter)

=============================================================================
