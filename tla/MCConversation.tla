-------------------------- MODULE MCConversation ---------------------------
(* Conversation with interchangeable processes, for TLC. *)
EXTENDS Conversation, TLC

Processes == Permutations(Proc)
=============================================================================
