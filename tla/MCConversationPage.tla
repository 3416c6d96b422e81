-------------------------- MODULE MCConversationPage --------------------------
(* Model values of the ConversationPage runs.                                 *)
EXTENDS ConversationPage

CONSTANTS a, q1, xa, f1, f2, load
=============================================================================
