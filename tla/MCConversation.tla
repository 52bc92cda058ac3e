---------------------------- MODULE MCConversation ----------------------------
(* A person who writes the same words again or other ones, to a model that   *)
(* always answers alike, so that equal exchanges happen.                     *)
EXTENDS Conversation

SameOrOther == {"do it", "never mind"}
OneReply == {"done"}
===============================================================================
