------------------------- MODULE MCSupervisedActivator -------------------------
(* A small instance of SupervisedActivator for TLC. *)
EXTENDS SupervisedActivator

CONSTANTS c1, t1, web    \* a handler, an attempt, the backend unit
==============================================================================
