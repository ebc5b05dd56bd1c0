----------------------------- MODULE MCUdpProxy ------------------------------
(* A small instance of UdpProxy for TLC. *)
EXTENDS UdpProxy, TLC

\* Session slots are interchangeable; clients are not, because of AnyClient.
Slots == Permutations(Sessions)
==============================================================================
