-------------------------- MODULE MCUpdateDelivery --------------------------
(***************************************************************************)
(* Small instances of UpdateDelivery for TLC: updates 1 and 2 are messages *)
(* of one conversation, 3 (where there is one) is a /stop beside it.       *)
(***************************************************************************)
EXTENDS UpdateDelivery, TLC

Messages == {1, 2}
MessagesAndStop == {1, 2, 3}
OneConversation == {"k1"}
SameKey == [u \in Update |-> "k1"]
Stop == {3}
NoStop == {}

Symmetry == Permutations(Worker)
============================================================================
