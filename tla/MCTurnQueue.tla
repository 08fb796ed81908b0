---------------------------- MODULE MCTurnQueue ----------------------------
(* Instances of TurnQueue for TLC. *)
EXTENDS TurnQueue
=============================================================================
