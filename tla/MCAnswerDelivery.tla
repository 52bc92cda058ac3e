-------------------------- MODULE MCAnswerDelivery --------------------------
(* A short answer that is never previewed, and one of several messages.    *)
EXTENDS AnswerDelivery
CONSTANTS short, huge
MCBody == {short, huge}
MCLong == {huge}
MCPieces == [b \in MCBody |-> IF b = huge THEN 2 ELSE 1]
=============================================================================
