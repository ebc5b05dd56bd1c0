----------------------------- MODULE MCActivator -----------------------------
(* A small instance of Activator for TLC. *)
EXTENDS Activator, TLC

\* Handler slots are interchangeable: no action or invariant names one.
Slots == Permutations(Conns)

\* The kindest systemd under which a unit can still be forgotten: it is down
\* when the daemon starts, a start that fails leaves it down, and an idle stop
\* that is tried again and again succeeds once.
FailedStartIsDown ==
  \A c \in Conns : pc[c] = "start" /\ pc'[c] = "failed" => unit' = "inactive"

FreshFairSpec == /\ Init /\ unit = "inactive"
                 /\ [][Next /\ FailedStartIsDown]_vars
                 /\ Fairness /\ SF_vars(IdleStopOk)
==============================================================================
