------------------------------ MODULE Restarter ------------------------------
(***************************************************************************)
(* internal/restarter together with the part of internal/statemanager it   *)
(* hears from: an event loop turns state changes and health results into   *)
(* events, and every failure starts a goroutine (attemptRestart) that      *)
(* waits for a backoff, restarts the unit and then its dependents.         *)
(*                                                                         *)
(* A goroutine keeps a pointer to the tracker it looked up.  A tracker     *)
(* that was replaced or deleted meanwhile is never read again through the  *)
(* table, so the model keeps the registered tracker of each unit, and for  *)
(* each goroutine only whether its own one is stale.                       *)
(*                                                                         *)
(* Time is abstract: a backoff and a cooldown last until some later step   *)
(* ends them.  What is kept of `attempts` is the shift it gives.           *)
(***************************************************************************)
EXTENDS Integers, Sequences, FiniteSets

CONSTANTS Units,        \* supervised units
          Dependents,   \* the pairs <<u, d>> with d in dependents[u]
          Tasks,        \* slots for attemptRestart goroutines
          MaxShift,     \* maxBackoffShift
          None          \* no tracker, no event, no unit

UnitStates == {"active", "failed", "inactive"}

\* What the maps and the channel hold; a tracker's attempts are capped.
Statuses == [state : UnitStates \cup {None}, healthy : {None, "healthy", "unhealthy"}]
Trackers == [enabled : BOOLEAN, attempts : 0..(MaxShift + 1), cooling : BOOLEAN]
Events   == [unit : Units, value : UnitStates \cup {"healthy", "unhealthy"}]

ASSUME NoneAssumption  == None \notin Units \cup Statuses \cup Trackers \cup Events
ASSUME DepsAssumption  == Dependents \subseteq Units \X Units
ASSUME ShiftAssumption == MaxShift \in Nat

VARIABLES unit,      \* the state systemd has each unit in
          status,    \* StateManager.units: None, or the state and health known
          tracker,   \* Restarter.trackers: None, or attempts and cooling
          event,     \* the event the event loop is handing to HandleEvent
          pc,        \* where each attemptRestart is
          target,    \* the unit it restarts
          stale,     \* its tracker is no longer the registered one
          todo,      \* the dependents it has yet to restart
          shift      \* the backoff it waits, as a shift of policy.Backoff

taskVars == <<pc, target, stale, todo, shift>>
vars == <<unit, status, tracker, event, taskVars>>

Unknown    == [state |-> None, healthy |-> None]     \* a new UnitStatus
Fresh(e)   == [enabled |-> e, attempts |-> 0, cooling |-> FALSE]

DependentsOf(u) == {d \in Units : <<u, d>> \in Dependents}

\* An event is a change of state, or a change of health.
Failure(ev)  == ev.value \in {"failed", "unhealthy"}
Recovery(ev) == ev.value \in {"active", "healthy"}

Init == /\ unit \in [Units -> {"active", "failed"}]
        /\ status = [u \in Units |-> None]
        /\ tracker = [u \in Units |-> None]
        /\ event = None
        /\ pc = [t \in Tasks |-> "free"]
        /\ target = [t \in Tasks |-> None]
        /\ stale = [t \in Tasks |-> FALSE]
        /\ todo = [t \in Tasks |-> {}]
        /\ shift = [t \in Tasks |-> 0]

----------------------------------------------------------------------------
(* Registration: by Run and reload, or by a socket activator. *)

\* The trackers the goroutines hold for unit u are not the registered one.
Orphan(u) ==
  stale' = [t \in Tasks |->
             stale[t] \/ (target[t] = u /\ pc[t] \in {"backoff", "restart"})]

Register(u, e) == /\ status[u] = None
                  /\ status' = [status EXCEPT ![u] = Unknown]
                  /\ tracker' = [tracker EXCEPT ![u] = Fresh(e)]
                  /\ Orphan(u)
                  /\ UNCHANGED <<unit, event, pc, target, todo, shift>>

Unregister(u) == /\ status[u] # None
                 /\ status' = [status EXCEPT ![u] = None]
                 /\ tracker' = [tracker EXCEPT ![u] = None]
                 /\ Orphan(u)
                 /\ UNCHANGED <<unit, event, pc, target, todo, shift>>

----------------------------------------------------------------------------
(* StateManager.UpdateState and UpdateHealth, called by the event loop: what  *)
(* does not change the status is not an event.                                *)

UpdateState(u) ==
  /\ event = None /\ status[u] # None
  /\ status[u].state # unit[u]
  /\ status' = [status EXCEPT ![u].state = unit[u]]
  /\ event' = [unit |-> u, value |-> unit[u]]
  /\ UNCHANGED <<unit, tracker, taskVars>>

UpdateHealth(u, h) ==
  /\ event = None /\ status[u] # None
  /\ status[u].healthy # h
  /\ h = "healthy" => unit[u] = "active"    \* no check passes on a dead unit
  /\ status' = [status EXCEPT ![u].healthy = h]
  /\ event' = [unit |-> u, value |-> h]
  /\ UNCHANGED <<unit, tracker, taskVars>>

----------------------------------------------------------------------------
(* HandleEvent and shouldRestart. *)

MustRestart == /\ tracker[event.unit] # None
               /\ tracker[event.unit].enabled
               /\ Failure(event)
               /\ ~tracker[event.unit].cooling

Ignore == /\ event # None
          /\ ~MustRestart
          /\ tracker' = IF /\ Recovery(event) /\ tracker[event.unit] # None
                           /\ tracker[event.unit].enabled
                        THEN [tracker EXCEPT ![event.unit] = Fresh(TRUE)]
                        ELSE tracker
          /\ event' = None
          /\ UNCHANGED <<unit, status, taskVars>>

Spawn(t) == /\ event # None
            /\ MustRestart
            /\ pc[t] = "free"
            /\ pc' = [pc EXCEPT ![t] = "lookup"]
            /\ target' = [target EXCEPT ![t] = event.unit]
            /\ stale' = [stale EXCEPT ![t] = FALSE]
            /\ event' = None
            /\ UNCHANGED <<unit, status, tracker, todo, shift>>

----------------------------------------------------------------------------
(* attemptRestart and cascadeRestart. *)

\* The goroutine ends; its variables are gone with it.
End(t) == /\ pc' = [pc EXCEPT ![t] = "free"]
          /\ target' = [target EXCEPT ![t] = None]
          /\ stale' = [stale EXCEPT ![t] = FALSE]
          /\ todo' = [todo EXCEPT ![t] = {}]
          /\ shift' = [shift EXCEPT ![t] = 0]

\* The tracker is looked up under another name.
MutantNoTracker(t) == /\ pc[t] = "lookup"
                      /\ End(t)
                      /\ UNCHANGED <<unit, status, tracker, event>>

NoTracker(t) == /\ pc[t] = "lookup" /\ tracker[target[t]] = None
                /\ End(t)
                /\ UNCHANGED <<unit, status, tracker, event>>

\* The shift is not capped.
MutantLookup(t) ==
  LET u == target[t]
  IN /\ pc[t] = "lookup" /\ tracker[u] # None
     /\ shift' = [shift EXCEPT ![t] = tracker[u].attempts]
     /\ tracker' = [tracker EXCEPT ![u].attempts = @ + 1]
     /\ stale' = [stale EXCEPT ![t] = FALSE]
     /\ pc' = [pc EXCEPT ![t] = "backoff"]
     /\ UNCHANGED <<unit, status, event, target, todo>>

\* attempts beyond maxBackoffShift all give the same backoff.
Lookup(t) ==
  LET u == target[t]
      n == tracker[u].attempts
  IN /\ pc[t] = "lookup" /\ tracker[u] # None
     /\ shift' = [shift EXCEPT ![t] = IF n > MaxShift THEN MaxShift ELSE n]
     /\ tracker' = [tracker EXCEPT ![u].attempts =
                      IF n > MaxShift THEN MaxShift + 1 ELSE n + 1]
     /\ stale' = [stale EXCEPT ![t] = FALSE]
     /\ pc' = [pc EXCEPT ![t] = "backoff"]
     /\ UNCHANGED <<unit, status, event, target, todo>>

\* time.Sleep(backoff): nothing is looked at again when it returns.
Wake(t) == /\ pc[t] = "backoff"
           /\ pc' = [pc EXCEPT ![t] = "restart"]
           /\ UNCHANGED <<unit, status, tracker, event, target, stale, todo, shift>>

\* On its way the unit is neither active nor failed, which may be seen.
RestartPasses(t) == /\ pc[t] = "restart" /\ unit[target[t]] # "inactive"
                    /\ unit' = [unit EXCEPT ![target[t]] = "inactive"]
                    /\ UNCHANGED <<status, tracker, event, taskVars>>

RestartOk(t) == /\ pc[t] = "restart"
                /\ unit' = [unit EXCEPT ![target[t]] = "active"]
                /\ todo' = [todo EXCEPT ![t] = DependentsOf(target[t])]
                /\ pc' = [pc EXCEPT ![t] = "cascade"]
                /\ UNCHANGED <<status, tracker, event, target, stale, shift>>

\* A restart that fails is tried again.
MutantRetry(t) == /\ pc[t] = "restart"
                  /\ unit' = [unit EXCEPT ![target[t]] = "failed"]
                  /\ pc' = [pc EXCEPT ![t] = "backoff"]
                  /\ UNCHANGED <<status, tracker, event, target, stale, todo, shift>>

\* The cooldown is written to the tracker looked up before the backoff.
RestartFails(t) ==
  /\ pc[t] = "restart"
  /\ unit' = [unit EXCEPT ![target[t]] = "failed"]
  /\ tracker' = IF stale[t] THEN tracker
                ELSE [tracker EXCEPT ![target[t]].cooling = TRUE]
  /\ End(t)
  /\ UNCHANGED <<status, event>>

\* One dependent is restarted; whether that works is only logged.
Cascade(t, d) ==
  /\ pc[t] = "cascade" /\ d \in todo[t]
  /\ unit' \in {[unit EXCEPT ![d] = s] : s \in {"active", "failed"}}
  /\ todo' = [todo EXCEPT ![t] = @ \ {d}]
  /\ UNCHANGED <<status, tracker, event, pc, target, stale, shift>>

CascadeDone(t) == /\ pc[t] = "cascade" /\ todo[t] = {}
                  /\ End(t)
                  /\ UNCHANGED <<unit, status, tracker, event>>

----------------------------------------------------------------------------
(* The outside. *)

CooldownEnds(u) == /\ tracker[u] # None /\ tracker[u].cooling
                   /\ tracker' = [tracker EXCEPT ![u].cooling = FALSE]
                   /\ UNCHANGED <<unit, status, event, taskVars>>

\* The unit fails, or somebody stops it: an operator, or an idle activator
\* that has unregistered it.
UnitLeaves(u) == /\ unit[u] = "active"
                 /\ \/ unit' = [unit EXCEPT ![u] = "failed"]
                    \/ unit' = [unit EXCEPT ![u] = "inactive"]
                 /\ UNCHANGED <<status, tracker, event, taskVars>>

TaskStep(t) == \/ NoTracker(t) \/ Lookup(t) \/ Wake(t) \/ RestartOk(t)
               \/ RestartFails(t) \/ CascadeDone(t)
               \/ \E d \in Units : Cascade(t, d)

EventStep == \/ \E u \in Units : UpdateState(u)
             \/ Ignore \/ \E t \in Tasks : Spawn(t)

Next == \/ \E t \in Tasks : TaskStep(t) \/ RestartPasses(t)
        \/ EventStep
        \/ \E u \in Units : \/ \E e \in BOOLEAN : Register(u, e)
                            \/ Unregister(u) \/ CooldownEnds(u)
                            \/ UnitLeaves(u)
                            \/ \E h \in {"healthy", "unhealthy"} : UpdateHealth(u, h)

Spec == Init /\ [][Next]_vars

\* Goroutines run, systemd answers, sleeps and cooldowns end, and the state of
\* a watched unit is reported.
FairSpec == /\ Spec
            /\ \A t \in Tasks : WF_vars(TaskStep(t))
            /\ WF_vars(EventStep)
            /\ \A u \in Units : WF_vars(UpdateState(u)) /\ WF_vars(CooldownEnds(u))

----------------------------------------------------------------------------
(* Properties *)

\* The variables have their types; attempts and shift stay within their caps.
TypeOK ==
  /\ unit \in [Units -> UnitStates]
  /\ status \in [Units -> Statuses \cup {None}]
  /\ tracker \in [Units -> Trackers \cup {None}]
  /\ event \in Events \cup {None}
  /\ pc \in [Tasks -> {"free", "lookup", "backoff", "restart", "cascade"}]
  /\ target \in [Tasks -> Units \cup {None}]
  /\ stale \in [Tasks -> BOOLEAN]
  /\ todo \in [Tasks -> SUBSET Units]
  /\ shift \in [Tasks -> 0..MaxShift]

Restarting(t, u) == pc[t] = "restart" /\ target[t] = u

\* A failure that calls for a restart is answered by one, whatever other
\* restarts are under way, unless the unit is unregistered, its policy
\* disabled, or one of those restarts fails first.
FailureAnswered ==
  \A u \in Units :
    (event # None /\ event.unit = u /\ MustRestart) ~>
      (\/ \E t \in Tasks : Restarting(t, u)
       \/ tracker[u] = None \/ ~tracker[u].enabled \/ tracker[u].cooling)

\* Every attempt ends: a failed restart is not tried again by itself, and the
\* dependents of a dependent are not restarted in turn.
AttemptsEnd == \A t \in Tasks : pc[t] # "free" ~> pc[t] = "free"

----------------------------------------------------------------------------
(* What the documentation says of the code, and the code does not do. *)

\* README.md:189: monitoring is torn down when the unit is stopped for
\* idleness, so the restarter never fights the idle-stop.
OnlyRegisteredRestarted ==
  [][\A t \in Tasks : pc[t] = "restart" /\ pc'[t] = "cascade"
        => tracker[target[t]] # None]_vars

\* README.md:60: the cooldown is the minimum time between restart cycles.
NoRestartInCooldown ==
  [][\A t \in Tasks : pc[t] = "backoff" /\ pc'[t] = "restart" /\ ~stale[t]
        => ~tracker[target[t]].cooling]_vars

\* README.md:3: failed services are restarted automatically.
FailedUnitRestarted ==
  \A u \in Units :
    (unit[u] = "failed" /\ tracker[u] # None /\ tracker[u].enabled) ~>
      (\/ \E t \in Tasks : Restarting(t, u)
       \/ unit[u] # "failed" \/ tracker[u] = None \/ ~tracker[u].enabled)
=============================================================================
