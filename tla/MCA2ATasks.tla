----------------------------- MODULE MCA2ATasks -----------------------------
(* An instance of A2ATasks for TLC. *)
EXTENDS A2ATasks
=============================================================================
