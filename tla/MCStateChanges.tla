---------------------------- MODULE MCStateChanges ----------------------------
(* A small instance of StateChanges for TLC. *)
EXTENDS StateChanges
=============================================================================
