----------------------------- MODULE MCTurnLoop -----------------------------
(* A look, a write the person is asked about and a delivery: the kinds of   *)
(* tool the loop tells apart.                                              *)
EXTENDS TurnLoop

AllTools == {"look", "write", "send"}
Look == {"look"}
Write == {"write"}
Send == {"send"}
=============================================================================
