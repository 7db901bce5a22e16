---------------------------- MODULE MCTurnDriver ----------------------------
(* Instances of TurnDriver: one allocation and its server. *)
EXTENDS TurnDriver
=============================================================================
