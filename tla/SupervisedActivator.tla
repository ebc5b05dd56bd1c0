-------------------------- MODULE SupervisedActivator --------------------------
(***************************************************************************)
(* A socket_activation entry with health_checks: Activator and Restarter   *)
(* at work on one unit, joined by Daemon.Watch and Daemon.Unwatch          *)
(* (internal/daemon/daemon.go).  The activator registers the unit once it  *)
(* is up and takes it out before an idle stop; in between its checks       *)
(* report to the restarter, which restarts the unit on its own account.    *)
(*                                                                         *)
(* Every step is a step of Activator, a step of Restarter, or one of each  *)
(* where they meet.  What systemd has the unit in is shared: `unit` here,  *)
(* of which the activator tells apart only up and down.                    *)
(***************************************************************************)
EXTENDS Integers, Sequences, FiniteSets

CONSTANTS Conns, IdleTimeout, Protocols,   \* as in Activator
          Tasks, MaxShift, None,           \* as in Restarter
          Backend                          \* cfg.Unit

VARIABLES handler,    \* where each handler is: pc of Activator
          active, running, starting, stopping, idleFor, idlePc, watched,
          bound, listening, ctxDone,
          unit, status, tracker, event, pc, target, stale, todo, shift

activatorOwn == <<handler, active, running, starting, stopping, idleFor, idlePc,
                  watched, bound, listening, ctxDone>>
restarterOwn == <<status, tracker, event, pc, target, stale, todo, shift>>
vars == <<activatorOwn, restarterOwn, unit>>

\* What the activator's calls make of the unit: up or not.
UpOrDown == IF unit[Backend] = "active" THEN "active" ELSE "inactive"

A == INSTANCE Activator WITH pc <- handler, unit <- UpOrDown, HasChecks <- TRUE

\* A backend that is not in `units` has no dependents.
R == INSTANCE Restarter WITH Units <- {Backend}, Dependents <- {}

\* What the two modules assume of their constants.
ASSUME ActivatorAssumption ==
  IsFiniteSet(Conns) /\ IdleTimeout \in Nat /\ Protocols \in Nat \ {0}
ASSUME RestarterAssumption ==
  MaxShift \in Nat /\ None \notin {Backend} \cup R!Statuses \cup R!Trackers \cup R!Events

Init == /\ unit \in [{Backend} -> {"active", "failed", "inactive"}]
        /\ A!Init
        /\ status = [u \in {Backend} |-> None]
        /\ tracker = [u \in {Backend} |-> None]
        /\ event = None
        /\ pc = [t \in Tasks |-> "free"]
        /\ target = [t \in Tasks |-> None]
        /\ stale = [t \in Tasks |-> FALSE]
        /\ todo = [t \in Tasks |-> {}]
        /\ shift = [t \in Tasks |-> 0]

----------------------------------------------------------------------------
(* Where the two meet. *)

\* The registration follows the activator's calls of Watch and Unwatch.
Supervise ==
  CASE watched = watched' -> UNCHANGED restarterOwn
    [] ~watched /\ watched' -> R!Register(Backend, TRUE)
    [] watched /\ ~watched' -> R!Unregister(Backend)

UnitMoves == unit' \in [{Backend} -> R!UnitStates]

\* The activator leaves a unit that is not up as it is: failed or inactive.
SameIfDown == UpOrDown' = UpOrDown => unit' = unit

Handles(c) == UnitMoves /\ A!HandlerStep(c) /\ SameIfDown /\ Supervise
Client(c)  == UNCHANGED unit /\ A!ClientStep(c) /\ UNCHANGED restarterOwn
Idles      == UnitMoves /\ A!IdleStep /\ SameIfDown /\ Supervise
Clock      == UNCHANGED unit /\ A!Tick /\ UNCHANGED restarterOwn
Opens      == UNCHANGED unit /\ (A!Bind \/ A!BindFails) /\ UNCHANGED restarterOwn
Closes     == UNCHANGED unit /\ A!CloseListener /\ UNCHANGED restarterOwn
Stops      == UNCHANGED unit /\ A!Shutdown /\ UNCHANGED restarterOwn

\* A check reports while Watch's context is alive: it is derived from the
\* serving one.  Backends are not watched for changes of state.
CheckReports(h) == /\ ~ctxDone
                   /\ R!UpdateHealth(Backend, h)
                   /\ UNCHANGED activatorOwn

HandleEvent == /\ ~ctxDone
               /\ R!Ignore \/ \E t \in Tasks : R!Spawn(t)
               /\ UNCHANGED activatorOwn

\* The attempts go on after the context is cancelled: they have none of it.
Attempts(t)   == R!TaskStep(t) /\ UNCHANGED activatorOwn
Passes(t)     == R!RestartPasses(t) /\ UNCHANGED activatorOwn
CooldownEnds  == R!CooldownEnds(Backend) /\ UNCHANGED activatorOwn

\* The backend exits, fails, or is stopped by an operator.
UnitLeaves    == R!UnitLeaves(Backend) /\ UNCHANGED activatorOwn

Finished      == UNCHANGED unit /\ A!Finished /\ UNCHANGED restarterOwn

Next == \/ \E c \in Conns : Handles(c) \/ Client(c)
        \/ Idles \/ Clock \/ Opens \/ Closes \/ Stops
        \/ \E h \in {"healthy", "unhealthy"} : CheckReports(h)
        \/ HandleEvent
        \/ \E t \in Tasks : Attempts(t) \/ Passes(t)
        \/ CooldownEnds \/ UnitLeaves \/ Finished

Spec == Init /\ [][Next]_vars

\* The fairness of the two modules.  A check that finds the unit down fails,
\* and its failures add up to a report.
FairSpec == /\ Spec
            /\ \A c \in Conns : WF_vars(Handles(c))
            /\ WF_vars(Idles) /\ WF_vars(Clock) /\ WF_vars(Closes)
            /\ \A t \in Tasks : WF_vars(Attempts(t))
            /\ WF_vars(HandleEvent) /\ WF_vars(CooldownEnds)
            /\ WF_vars(unit[Backend] # "active" /\ CheckReports("unhealthy"))

----------------------------------------------------------------------------
(* Properties *)

\* Both components keep their types, and the unit has a status and a tracker
\* exactly while the activator has it watched.
TypeOK == /\ A!TypeOK /\ R!TypeOK
          /\ watched <=> status[Backend] # None
          /\ watched <=> tracker[Backend] # None

\* The restarter acts for the activator only while the activator holds the unit
\* up: an attempt of the present registration reaches systemd neither while the
\* unit is being started nor while it is being stopped for idleness.
RestartsOnlyInUse ==
  \A t \in Tasks :
    pc[t] = "restart" /\ ~stale[t] => running /\ ~starting /\ ~stopping

\* A backend that dies under its activator is noticed and restarted, although
\* the activator itself goes on counting it as running: unless it is stopped
\* for idleness first, its restarts are in cooldown, or the daemon ends.  The
\* first failure since the last report of health is the one that counts.
BackendRevived ==
  (watched /\ unit[Backend] # "active" /\ status[Backend].healthy # "unhealthy") ~>
    (\/ \E t \in Tasks : pc[t] = "restart"
     \/ unit[Backend] = "active" \/ ~watched \/ ctxDone
     \/ (tracker[Backend] # None /\ tracker[Backend].cooling))

----------------------------------------------------------------------------
(* What the documentation says of the code, and the code does not do. *)

\* README.md:189: monitoring is torn down when the unit is stopped for
\* idleness, so the restarter never fights the idle-stop.
NeverFightsIdleStop ==
  [][unit[Backend] # "active" /\ unit'[Backend] = "active"
       => running \/ starting]_vars
==============================================================================
