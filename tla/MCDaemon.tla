------------------------------- MODULE MCDaemon -------------------------------
(* A small instance of Daemon for TLC. *)
EXTENDS Daemon

Both     == {DBus, Ctl}
OnlyDBus == {DBus}
OnlyCtl  == {Ctl}
=============================================================================
