------------------------------ MODULE Activator ------------------------------
(***************************************************************************)
(* One socket_activation entry (internal/socketactivation/activator.go):   *)
(* connection handlers that start the backend unit on demand and share one *)
(* start attempt, and the idle loop that stops the unit again.             *)
(*                                                                         *)
(* An action is one stretch of code between two points where another       *)
(* goroutine can run: one critical section of Activator.mu, or the return  *)
(* of one call to the outside (systemd, a health probe, a dial).  The      *)
(* elements of Conns are slots for handler goroutines: a slot is taken by  *)
(* an accepted connection, or by a UDP session, and is free again when its *)
(* handler returns.                                                        *)
(*                                                                         *)
(* Time is idleFor, the age of lastActive in ticks: it saturates at        *)
(* IdleTimeout, because maybeStopIdle tells apart only "before the         *)
(* timeout" and "not before it".                                           *)
(***************************************************************************)
EXTENDS Integers, FiniteSets

CONSTANTS Conns,         \* slots for concurrent handler goroutines
          IdleTimeout,   \* cfg.IdleTimeout, in ticks
          Protocols,     \* the number of listeners the entry configures
          HasChecks      \* whether health_checks are configured

ASSUME ConnsAssumption     == IsFiniteSet(Conns)
ASSUME TimeoutAssumption   == IdleTimeout \in Nat
ASSUME ProtocolsAssumption == Protocols \in Nat \ {0}
ASSUME ChecksAssumption    == HasChecks \in BOOLEAN

VARIABLES pc,         \* where each handler goroutine is
          active,     \* Activator.active
          running,    \* Activator.running
          starting,   \* Activator.starting
          stopping,   \* Activator.stopping
          idleFor,    \* the age of Activator.lastActive
          idlePc,     \* where the idle loop is
          watched,    \* the unit is registered with the health supervisor
          unit,       \* the state systemd has the unit in
          bound,      \* the number of listeners bound by Start
          listening,  \* the bound listeners are open
          ctxDone     \* the serving context is cancelled

activity  == <<active, idleFor>>
lifecycle == <<running, starting, stopping>>
backend   == <<watched, unit>>
serving   == <<bound, listening, ctxDone>>
vars == <<pc, idlePc, activity, lifecycle, backend, serving>>

----------------------------------------------------------------------------
(* The places a handler and the idle loop can be in. *)

Unopened == {"free", "accepted"}                      \* before connOpened
Waiting  == {"waitStop", "waitStart"}                 \* on an open channel
Woken    == {"stopClosed", "startClosed"}             \* on a closed channel
Starter  == {"start", "probe", "failStop", "started", "failed"}
Served   == {"dial", "relay"}                         \* past ensureRunning
Places   == Unopened \cup Waiting \cup Woken \cup Starter \cup Served
                     \cup {"ensure", "closing"}

IdleStopping == {"stop", "stopped", "release"}
IdlePlaces   == {"unstarted", "tick", "off"} \cup IdleStopping

UnitStates == {"inactive", "active"}

Open     == {c \in Conns : pc[c] \notin Unopened}
At(set)  == {c \in Conns : pc[c] \in set}

Goto(c, from, to) == /\ pc[c] = from
                     /\ pc' = [pc EXCEPT ![c] = to]

\* close(ch): whoever waits at `from` can go on.  A new channel is made only
\* after the previous one was closed, so those waiting at `from` are exactly
\* the receivers of the channel being closed.
Wake(f, from, to) == [d \in Conns |-> IF f[d] = from THEN to ELSE f[d]]

----------------------------------------------------------------------------
Init == /\ pc = [c \in Conns |-> "free"]
        /\ active = 0
        /\ running = FALSE /\ starting = FALSE /\ stopping = FALSE
        /\ idleFor = IdleTimeout       \* lastActive is the zero time
        /\ idlePc = "unstarted"
        /\ watched = FALSE
        /\ unit \in UnitStates         \* whatever an earlier run left behind
        /\ bound = 0 /\ listening = FALSE /\ ctxDone = FALSE

----------------------------------------------------------------------------
(* Start: bind every protocol, then run the idle loop. *)

Bind == /\ idlePc = "unstarted" /\ bound < Protocols
        /\ bound' = bound + 1
        /\ listening' = ~ctxDone
        /\ idlePc' = IF bound + 1 = Protocols THEN "tick" ELSE idlePc
        /\ UNCHANGED <<pc, activity, lifecycle, backend, ctxDone>>

\* A listener cannot be bound: those already bound are closed, their accepted
\* connections are not, and the idle loop never runs.
BindFails == /\ idlePc = "unstarted"
             /\ listening' = FALSE
             /\ idlePc' = "off"
             /\ UNCHANGED <<pc, activity, lifecycle, backend, bound, ctxDone>>

Shutdown == /\ ~ctxDone
            /\ ctxDone' = TRUE
            /\ UNCHANGED <<pc, idlePc, activity, lifecycle, backend, bound,
                           listening>>

CloseListener == /\ ctxDone /\ listening
                 /\ listening' = FALSE
                 /\ UNCHANGED <<pc, idlePc, activity, lifecycle, backend,
                                bound, ctxDone>>

----------------------------------------------------------------------------
(* handle: one accepted connection, or one UDP session. *)

Accept(c) == /\ listening
             /\ Goto(c, "free", "accepted")
             /\ UNCHANGED <<idlePc, activity, lifecycle, backend, serving>>

\* connOpened forgets to count.
MutantConnOpened(c) == /\ Goto(c, "accepted", "ensure")
                       /\ idleFor' = 0
                       /\ UNCHANGED <<active, idlePc, lifecycle, backend,
                                      serving>>

ConnOpened(c) == /\ Goto(c, "accepted", "ensure")
                 /\ active' = active + 1
                 /\ idleFor' = 0
                 /\ UNCHANGED <<idlePc, lifecycle, backend, serving>>

ConnClosed(c) == /\ Goto(c, "closing", "free")
                 /\ active' = active - 1
                 /\ idleFor' = 0
                 /\ UNCHANGED <<idlePc, lifecycle, backend, serving>>

Dial(c) == /\ \/ Goto(c, "dial", "relay")
              \/ Goto(c, "dial", "closing")
           /\ UNCHANGED <<idlePc, activity, lifecycle, backend, serving>>

MarkTraffic(c) == /\ pc[c] = "relay"
                  /\ idleFor' = 0
                  /\ UNCHANGED <<pc, active, idlePc, lifecycle, backend,
                                 serving>>

RelayEnds(c) == /\ Goto(c, "relay", "closing")
                /\ UNCHANGED <<idlePc, activity, lifecycle, backend, serving>>

----------------------------------------------------------------------------
(* ensureRunning: its first critical section takes one of four ways. *)

JoinStop(c) == /\ stopping
               /\ Goto(c, "ensure", "waitStop")
               /\ UNCHANGED <<idlePc, activity, lifecycle, backend, serving>>

UseRunning(c) == /\ ~stopping /\ running
                 /\ Goto(c, "ensure", "dial")
                 /\ UNCHANGED <<idlePc, activity, lifecycle, backend, serving>>

JoinStart(c) == /\ ~stopping /\ ~running /\ starting
                /\ Goto(c, "ensure", "waitStart")
                /\ UNCHANGED <<idlePc, activity, lifecycle, backend, serving>>

\* A handler that finds a start in progress starts the unit as well.
MutantBeginStart(c) == /\ ~stopping /\ ~running
                       /\ Goto(c, "ensure", "start")
                       /\ starting' = TRUE
                       /\ UNCHANGED <<idlePc, activity, running, stopping,
                                      backend, serving>>

BeginStart(c) == /\ ~stopping /\ ~running /\ ~starting
                 /\ Goto(c, "ensure", "start")
                 /\ starting' = TRUE
                 /\ UNCHANGED <<idlePc, activity, running, stopping, backend,
                                serving>>

RetryAfterStop(c) == /\ Goto(c, "stopClosed", "ensure")
                     /\ UNCHANGED <<idlePc, activity, lifecycle, backend,
                                    serving>>

\* A handler that waited on a start reads its outcome in a second critical
\* section: only `running` decides whether it goes on.
MutantReadOutcome(c) == /\ Goto(c, "startClosed", "dial")
                        /\ UNCHANGED <<idlePc, activity, lifecycle, backend,
                                       serving>>

ReadOutcome(c) ==
  /\ Goto(c, "startClosed", IF running THEN "dial" ELSE "closing")
  /\ UNCHANGED <<idlePc, activity, lifecycle, backend, serving>>

\* The deferred connClosed is skipped when the wait is cancelled.
MutantCancelWait(c) == /\ ctxDone /\ pc[c] \in Waiting \cup Woken
                       /\ pc' = [pc EXCEPT ![c] = "free"]
                       /\ UNCHANGED <<idlePc, activity, lifecycle, backend,
                                      serving>>

\* select may take ctx.Done() even when the channel is closed too.
CancelWait(c) == /\ ctxDone /\ pc[c] \in Waiting \cup Woken
                 /\ pc' = [pc EXCEPT ![c] = "closing"]
                 /\ UNCHANGED <<idlePc, activity, lifecycle, backend, serving>>

----------------------------------------------------------------------------
(* startAndWait, run by the one handler that began the start. *)

\* systemd's start job is done.  Without checks the unit counts as ready.
StartUnit(c) == /\ Goto(c, "start", IF HasChecks THEN "probe" ELSE "started")
                /\ unit' = "active"
                /\ UNCHANGED <<idlePc, activity, lifecycle, watched, serving>>

\* Start returned an error: the job failed, or it was never queued, or only
\* waiting for it was given up, so the unit may be in either state.
StartUnitFails(c) == /\ Goto(c, "start", "failed")
                     /\ unit' \in UnitStates
                     /\ UNCHANGED <<idlePc, activity, lifecycle, watched,
                                    serving>>

ProbeOk(c) == /\ Goto(c, "probe", "started")
              /\ UNCHANGED <<idlePc, activity, lifecycle, backend, serving>>

\* The deadline passed while the serving context is alive: the unit is
\* stopped.  When the serving context ended the unit is left as it is.
ProbeGivesUp(c) == /\ Goto(c, "probe", IF ctxDone THEN "failed" ELSE "failStop")
                   /\ UNCHANGED <<idlePc, activity, lifecycle, backend,
                                  serving>>

\* stopAfterFailedStart: an error of Stop is only logged.
StopFailedStart(c) == /\ Goto(c, "failStop", "failed")
                      /\ unit' \in UnitStates
                      /\ UNCHANGED <<idlePc, activity, lifecycle, watched,
                                     serving>>

\* The start is finished without closing startWait.
MutantFinishStart(c) ==
  /\ pc[c] \in {"started", "failed"}
  /\ pc' = [pc EXCEPT ![c] = IF pc[c] = "started" THEN "dial" ELSE "closing"]
  /\ starting' = FALSE
  /\ running' = (running \/ pc[c] = "started")
  /\ watched' = (watched \/ (HasChecks /\ pc[c] = "started"))
  /\ UNCHANGED <<idlePc, activity, stopping, unit, serving>>

\* The critical section after startAndWait: publish the outcome, register
\* with the supervisor, close startWait.
FinishStart(c) ==
  /\ pc[c] \in {"started", "failed"}
  /\ pc' = [Wake(pc, "waitStart", "startClosed")
              EXCEPT ![c] = IF pc[c] = "started" THEN "dial" ELSE "closing"]
  /\ starting' = FALSE
  /\ running' = (running \/ pc[c] = "started")
  /\ watched' = (watched \/ (HasChecks /\ pc[c] = "started"))
  /\ UNCHANGED <<idlePc, activity, stopping, unit, serving>>

----------------------------------------------------------------------------
(* idleLoop and maybeStopIdle. *)

\* One tick of the clock.
Tick == /\ idleFor < IdleTimeout
        /\ idleFor' = idleFor + 1
        /\ UNCHANGED <<pc, active, idlePc, lifecycle, backend, serving>>

MayStopIdle == /\ running /\ ~starting /\ ~stopping /\ active <= 0
               /\ idleFor >= IdleTimeout

\* The idle stop begins without stopMonitor.
MutantBeginIdleStop == /\ idlePc = "tick" /\ MayStopIdle
                       /\ idlePc' = "stop"
                       /\ stopping' = TRUE
                       /\ UNCHANGED <<pc, activity, running, starting, backend,
                                      serving>>

BeginIdleStop == /\ idlePc = "tick" /\ MayStopIdle
                 /\ idlePc' = "stop"
                 /\ stopping' = TRUE
                 /\ watched' = FALSE
                 /\ UNCHANGED <<pc, activity, running, starting, unit, serving>>

IdleStopOk == /\ idlePc = "stop"
              /\ idlePc' = "stopped"
              /\ unit' = "inactive"
              /\ UNCHANGED <<pc, activity, lifecycle, watched, serving>>

\* maybeStopIdle returns on an error of Stop, and stopping stays set.
MutantIdleStopFails == /\ idlePc = "stop"
                       /\ idlePc' = "tick"
                       /\ unit' \in UnitStates
                       /\ UNCHANGED <<pc, activity, lifecycle, watched, serving>>

\* Stop returned an error: the unit may be in either state, and running and
\* the registration are left as they are.
IdleStopFails == /\ idlePc = "stop"
                 /\ idlePc' = "release"
                 /\ unit' \in UnitStates
                 /\ UNCHANGED <<pc, activity, lifecycle, watched, serving>>

ClearRunning == /\ idlePc = "stopped"
                /\ idlePc' = "release"
                /\ running' = FALSE
                /\ UNCHANGED <<pc, activity, starting, stopping, backend,
                               serving>>

ReleaseStopWait == /\ idlePc = "release"
                   /\ idlePc' = "tick"
                   /\ stopping' = FALSE
                   /\ pc' = Wake(pc, "waitStop", "stopClosed")
                   /\ UNCHANGED <<activity, running, starting, backend, serving>>

IdleLoopExits == /\ ctxDone /\ idlePc = "tick"
                 /\ idlePc' = "off"
                 /\ UNCHANGED <<pc, activity, lifecycle, backend, serving>>

----------------------------------------------------------------------------
(* The outside: the unit may exit on its own.  Once the context is          *)
(* cancelled and every goroutine has returned nothing more happens.         *)

UnitExits == /\ unit = "active"
             /\ unit' = "inactive"
             /\ UNCHANGED <<pc, idlePc, activity, lifecycle, watched, serving>>

Finished == /\ ctxDone /\ idlePc = "off" /\ Open = {} /\ UNCHANGED vars

HandlerStep(c) ==
  \/ ConnOpened(c) \/ ConnClosed(c) \/ Dial(c)
  \/ JoinStop(c) \/ UseRunning(c) \/ JoinStart(c) \/ BeginStart(c)
  \/ RetryAfterStop(c) \/ ReadOutcome(c) \/ CancelWait(c)
  \/ StartUnit(c) \/ StartUnitFails(c) \/ ProbeOk(c) \/ ProbeGivesUp(c)
  \/ StopFailedStart(c) \/ FinishStart(c)

ClientStep(c) == Accept(c) \/ MarkTraffic(c) \/ RelayEnds(c)

IdleStep == \/ BeginIdleStop \/ IdleStopOk \/ IdleStopFails \/ ClearRunning
            \/ ReleaseStopWait \/ IdleLoopExits

Next == \/ \E c \in Conns : HandlerStep(c) \/ ClientStep(c)
        \/ IdleStep \/ Tick
        \/ Bind \/ BindFails \/ Shutdown \/ CloseListener
        \/ UnitExits \/ Finished

Spec == Init /\ [][Next]_vars

\* Goroutines are scheduled, every call to systemd or to a backend returns
\* (jobs, probes and dials have timeouts), and the clock runs.  Nothing makes
\* a client connect, send or hang up, or the daemon shut down.
Fairness == /\ \A c \in Conns : WF_vars(HandlerStep(c))
            /\ WF_vars(IdleStep) /\ WF_vars(Tick) /\ WF_vars(Bind)
            /\ WF_vars(CloseListener)

FairSpec == Spec /\ Fairness

----------------------------------------------------------------------------
(* Properties *)

\* Every variable has its type; in particular `active` never goes negative.
TypeOK == /\ pc \in [Conns -> Places]
          /\ active \in Nat
          /\ running \in BOOLEAN /\ starting \in BOOLEAN
          /\ stopping \in BOOLEAN
          /\ idleFor \in 0..IdleTimeout
          /\ idlePc \in IdlePlaces
          /\ watched \in BOOLEAN
          /\ unit \in UnitStates
          /\ bound \in 0..Protocols
          /\ listening \in BOOLEAN /\ ctxDone \in BOOLEAN

\* The counter the idle check reads is the number of handlers between
\* connOpened and connClosed, whichever way each of them returns.
ActiveCount == active = Cardinality(Open)

\* At most one start, stop after a failed start, or idle stop of the unit is
\* in flight: concurrent connections share one attempt, and a start and a stop
\* never overlap.
OneUnitOperation ==
  /\ \A c, d \in Conns : (pc[c] \in Starter /\ pc[d] \in Starter) => c = d
  /\ At(Starter) # {} => idlePc \notin IdleStopping

\* From the return of ensureRunning until its connection closes a handler
\* can rely on the unit: it counts as running and no stop is in flight,
\* although dial and relay run outside the critical sections.
ServedWhileRunning ==
  At(Served) # {} => running /\ ~stopping /\ idlePc \notin IdleStopping

\* The supervisor checks and restarts the unit only while the activator holds
\* it up, and never while a start or a stop of it is in progress.
MonitoredOnlyWhileUp == watched => running /\ ~starting /\ ~stopping

\* Whoever waits on a channel waits on one that somebody still closes.
NoStrandedWaiter ==
  /\ At({"waitStart"}) # {} => At(Starter) # {}
  /\ At({"waitStop"}) # {} => idlePc \in IdleStopping

\* An idle stop begins only when no connection is open and none has opened,
\* closed or moved a byte for the whole idle timeout.
IdleStopWhenIdle ==
  [][idlePc # "stop" /\ idlePc' = "stop" => Open = {} /\ idleFor = IdleTimeout]_vars

\* Every accepted connection is either handed to the backend or closed: none
\* waits forever on a start or a stop, whatever fails.
EveryConnAnswered ==
  \A c \in Conns : (pc[c] \in Places \ ({"free"} \cup Served)) ~>
                     (pc[c] \in {"free"} \cup Served)

\* A running unit without connections is stopped, or the stop is at least
\* tried, unless a connection comes or the daemon shuts down.
IdleUnitRetired ==
  (running /\ Open = {} /\ idlePc = "tick") ~>
    (idlePc = "stop" \/ Open # {} \/ ctxDone)

----------------------------------------------------------------------------
(* The activator implements OnDemandUnit.  A unit whose stop succeeded is    *)
(* down from the moment running is cleared, before the waiters are released. *)

Phase == IF starting THEN "starting"
         ELSE IF ~running THEN "down"
         ELSE IF stopping THEN "stopping" ELSE "up"

Promise == INSTANCE OnDemandUnit
             WITH Clients <- Conns, phase <- Phase, present <- Open,
                  served <- At(Served)

\* Every step of the handlers and of the idle loop is a step the abstract unit
\* may take, or none.
ImplementsOnDemandUnit == Promise!Spec

----------------------------------------------------------------------------
(* What the documentation says of the code, and the code does not do. *)

\* README.md:189: while the backend is running its health checks keep running.
RunningIsMonitored == HasChecks /\ running /\ ~stopping => watched

\* README.md:162: with no connections and no traffic for idle_timeout the unit
\* is stopped again.
IdleUnitEventuallyStops ==
  (unit = "active" /\ Open = {} /\ bound = Protocols) ~>
    (unit = "inactive" \/ Open # {} \/ ctxDone)
==============================================================================
