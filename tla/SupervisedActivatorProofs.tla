---------------------- MODULE SupervisedActivatorProofs -----------------------
(***************************************************************************)
(* The activator and the restarter on one unit, for any number of          *)
(* handlers and of attempts.                                               *)
(*                                                                         *)
(* The invariants of the two modules were proved about each of them alone. *)
(* They carry over: every step here is a step of Activator or leaves its   *)
(* variables, the state of the unit apart, as they are; and so for         *)
(* Restarter.  What joins them is that the unit is registered with the     *)
(* restarter exactly while the activator has it watched (Joined).          *)
(***************************************************************************)
EXTENDS SupervisedActivator, TLAPS

AP == INSTANCE ActivatorProofs WITH pc <- handler, unit <- UpOrDown, HasChecks <- TRUE
RP == INSTANCE RestarterProofs WITH Units <- {Backend}, Dependents <- {}

\* The activator's registration is the restarter's.
Joined == watched <=> status[Backend] # None

\* Nothing depends on the backend.
NoDependents == \A t \in Tasks : todo[t] = {}

UnitTyped == unit \in [{Backend} -> R!UnitStates]

IInv == AP!IInv /\ RP!IInv /\ Joined /\ NoDependents

----------------------------------------------------------------------------
(* The proofs about the components are instances of their own, A with AP and *)
(* R with RP: what the actions of the one do the actions of the other do.    *)

LEMMA Assumptions ==
  /\ AP!ConnsAssumption /\ AP!TimeoutAssumption /\ AP!ProtocolsAssumption
  /\ AP!ChecksAssumption
  /\ RP!NoneAssumption /\ RP!DepsAssumption /\ RP!ShiftAssumption
<1>1. /\ AP!ConnsAssumption /\ AP!TimeoutAssumption /\ AP!ProtocolsAssumption
      /\ AP!ChecksAssumption
  BY ActivatorAssumption
     DEF ActivatorAssumption, AP!ConnsAssumption, AP!TimeoutAssumption,
         AP!ProtocolsAssumption, AP!ChecksAssumption, IsFiniteSet, AP!IsFiniteSet
<1>2. RP!NoneAssumption /\ RP!DepsAssumption /\ RP!ShiftAssumption
  BY RestarterAssumption
     DEF RestarterAssumption, RP!NoneAssumption, RP!DepsAssumption, RP!ShiftAssumption,
         R!Statuses, RP!Statuses, R!Trackers, RP!Trackers, R!Events, RP!Events,
         R!UnitStates, RP!UnitStates
<1> QED BY <1>1, <1>2

LEMMA SameHandlers ==
  ASSUME NEW c \in Conns
  PROVE  /\ A!HandlerStep(c) => AP!HandlerStep(c)
         /\ A!ClientStep(c) => AP!ClientStep(c)
<1> USE DEF A!Goto, AP!Goto, A!Wake, AP!Wake, A!Waiting, AP!Waiting, A!Woken, AP!Woken,
            A!UnitStates, AP!UnitStates, A!activity, AP!activity, A!lifecycle,
            AP!lifecycle, A!backend, AP!backend, A!serving, AP!serving
<1>1. A!HandlerStep(c) => AP!HandlerStep(c)
  BY DEF A!HandlerStep, AP!HandlerStep, A!ConnOpened, AP!ConnOpened, A!ConnClosed,
         AP!ConnClosed, A!Dial, AP!Dial, A!JoinStop, AP!JoinStop, A!UseRunning,
         AP!UseRunning, A!JoinStart, AP!JoinStart, A!BeginStart, AP!BeginStart,
         A!RetryAfterStop, AP!RetryAfterStop, A!ReadOutcome, AP!ReadOutcome,
         A!CancelWait, AP!CancelWait, A!StartUnit, AP!StartUnit, A!StartUnitFails,
         AP!StartUnitFails, A!ProbeOk, AP!ProbeOk, A!ProbeGivesUp, AP!ProbeGivesUp,
         A!StopFailedStart, AP!StopFailedStart, A!FinishStart, AP!FinishStart
<1>2. A!ClientStep(c) => AP!ClientStep(c)
  BY DEF A!ClientStep, AP!ClientStep, A!Accept, AP!Accept, A!MarkTraffic,
         AP!MarkTraffic, A!RelayEnds, AP!RelayEnds
<1> QED BY <1>1, <1>2

LEMMA SameOthers ==
  /\ (A!IdleStep => AP!IdleStep) /\ (A!Tick => AP!Tick)
  /\ (A!Bind => AP!Bind) /\ (A!BindFails => AP!BindFails)
  /\ (A!Shutdown => AP!Shutdown) /\ (A!CloseListener => AP!CloseListener)
  /\ A!Finished => AP!Finished
BY DEF A!IdleStep, AP!IdleStep, A!BeginIdleStop, AP!BeginIdleStop, A!MayStopIdle,
       AP!MayStopIdle, A!IdleStopOk, AP!IdleStopOk, A!IdleStopFails, AP!IdleStopFails,
       A!ClearRunning, AP!ClearRunning, A!ReleaseStopWait, AP!ReleaseStopWait,
       A!IdleLoopExits, AP!IdleLoopExits, A!Tick, AP!Tick, A!Bind, AP!Bind, A!BindFails,
       AP!BindFails, A!Shutdown, AP!Shutdown, A!CloseListener, AP!CloseListener,
       A!Finished, AP!Finished, A!Open, AP!Open, A!Unopened, AP!Unopened, A!vars, AP!vars,
       A!Wake, AP!Wake, A!UnitStates, AP!UnitStates, A!activity, AP!activity, A!lifecycle,
       AP!lifecycle, A!backend, AP!backend, A!serving, AP!serving

LEMMA SameRestarter ==
  /\ \A e \in BOOLEAN : R!Register(Backend, e) => RP!Register(Backend, e)
  /\ R!Unregister(Backend) => RP!Unregister(Backend)
  /\ \A h \in {"healthy", "unhealthy"} : R!UpdateHealth(Backend, h) => RP!UpdateHealth(Backend, h)
  /\ R!Ignore => RP!Ignore
  /\ \A t \in Tasks : /\ R!Spawn(t) => RP!Spawn(t)
                      /\ R!TaskStep(t) => RP!TaskStep(t)
                      /\ R!RestartPasses(t) => RP!RestartPasses(t)
  /\ R!CooldownEnds(Backend) => RP!CooldownEnds(Backend)
  /\ R!UnitLeaves(Backend) => RP!UnitLeaves(Backend)
<1> USE DEF R!taskVars, RP!taskVars, R!Fresh, RP!Fresh, R!Unknown, RP!Unknown, R!Orphan,
            RP!Orphan, R!End, RP!End, R!MustRestart, RP!MustRestart, R!Failure, RP!Failure,
            R!Recovery, RP!Recovery, R!DependentsOf, RP!DependentsOf
<1>1. /\ \A e \in BOOLEAN : R!Register(Backend, e) => RP!Register(Backend, e)
      /\ R!Unregister(Backend) => RP!Unregister(Backend)
  BY DEF R!Register, RP!Register, R!Unregister, RP!Unregister
<1>2. /\ \A h \in {"healthy", "unhealthy"} : R!UpdateHealth(Backend, h) => RP!UpdateHealth(Backend, h)
      /\ R!Ignore => RP!Ignore
      /\ \A t \in Tasks : R!Spawn(t) => RP!Spawn(t)
  BY DEF R!UpdateHealth, RP!UpdateHealth, R!Ignore, RP!Ignore, R!Spawn, RP!Spawn
<1>3. \A t \in Tasks : R!TaskStep(t) => RP!TaskStep(t)
  BY DEF R!TaskStep, RP!TaskStep, R!NoTracker, RP!NoTracker, R!Lookup, RP!Lookup, R!Wake,
         RP!Wake, R!RestartOk, RP!RestartOk, R!RestartFails, RP!RestartFails,
         R!CascadeDone, RP!CascadeDone, R!Cascade, RP!Cascade
<1>4. /\ \A t \in Tasks : R!RestartPasses(t) => RP!RestartPasses(t)
      /\ R!CooldownEnds(Backend) => RP!CooldownEnds(Backend)
      /\ R!UnitLeaves(Backend) => RP!UnitLeaves(Backend)
  BY DEF R!RestartPasses, RP!RestartPasses, R!CooldownEnds, RP!CooldownEnds, R!UnitLeaves,
         RP!UnitLeaves
<1> QED BY <1>1, <1>2, <1>3, <1>4

----------------------------------------------------------------------------
(* Each component keeps its invariant through the steps of the other.        *)

\* The activator's invariant says nothing of the unit but that it is up or not.
LEMMA ActivatorUntouched ==
  ASSUME AP!IInv, UNCHANGED activatorOwn
  PROVE  AP!IInv'
<1> USE DEF activatorOwn
<1>1. UpOrDown' \in AP!UnitStates BY DEF UpOrDown, AP!UnitStates
<1>2. AP!TypeOK' BY <1>1 DEF AP!IInv, AP!TypeOK
<1>3. AP!ActiveCount' BY DEF AP!IInv, AP!ActiveCount, AP!Open
<1>4. AP!Lifecycle'
  BY DEF AP!IInv, AP!Lifecycle, AP!StartOwned, AP!StopOwned, AP!StartExcludes, AP!Relying,
         AP!MonitoredOnlyWhileUp
<1> QED BY <1>2, <1>3, <1>4 DEF AP!IInv

LEMMA RestarterUntouched ==
  ASSUME RP!IInv, UNCHANGED restarterOwn, UnitTyped'
  PROVE  RP!IInv'
<1> USE DEF restarterOwn
<1>1. unit' \in [{Backend} -> RP!UnitStates] BY DEF UnitTyped, R!UnitStates, RP!UnitStates
<1>2. RP!TypeOK' BY <1>1 DEF RP!IInv, RP!TypeOK
<1> QED BY <1>2 DEF RP!IInv, RP!Together, RP!HasTarget, RP!OwnTracked

LEMMA ActivatorActs ==
  ASSUME AP!IInv,
         \/ \E c \in Conns : AP!HandlerStep(c) \/ AP!ClientStep(c)
         \/ AP!IdleStep \/ AP!Tick \/ AP!Bind \/ AP!BindFails \/ AP!Shutdown
         \/ AP!CloseListener \/ AP!Finished
  PROVE  AP!IInv'
<1>1. AP!Next BY DEF AP!Next
<1> QED BY <1>1, Assumptions, AP!NextIInv

LEMMA RestarterActs ==
  ASSUME RP!IInv, RP!Next
  PROVE  RP!IInv'
BY Assumptions, RP!NextIInv

\* The registration of the restarter follows the one of the activator.
LEMMA Supervises ==
  ASSUME IInv, Supervise, watched' \in BOOLEAN, UnitTyped'
  PROVE  RP!IInv' /\ Joined' /\ NoDependents'
<1>1. watched \in BOOLEAN BY DEF IInv, AP!IInv, AP!TypeOK
<1>2. CASE watched' = watched
  <2>1. UNCHANGED restarterOwn BY <1>2 DEF Supervise
  <2> QED BY <1>2, <2>1, RestarterUntouched DEF IInv, Joined, NoDependents, restarterOwn
<1>3. CASE ~watched /\ watched'
  <2>1. R!Register(Backend, TRUE) BY <1>3 DEF Supervise
  <2>2. RP!Next BY <2>1, SameRestarter DEF RP!Next
  <2>3. status'[Backend] # None
    BY <2>1, RP!Made, Assumptions DEF R!Register, R!Unknown, RP!Unknown, IInv, RP!IInv, RP!TypeOK
  <2>4. NoDependents' BY <2>1 DEF R!Register, IInv, NoDependents
  <2> QED BY <1>3, <2>2, <2>3, <2>4, RestarterActs DEF IInv, Joined
<1>4. CASE watched /\ ~watched'
  <2>1. R!Unregister(Backend) BY <1>4 DEF Supervise
  <2>2. RP!Next BY <2>1, SameRestarter DEF RP!Next
  <2>3. status'[Backend] = None BY <2>1 DEF R!Unregister, IInv, RP!IInv, RP!TypeOK
  <2>4. NoDependents' BY <2>1 DEF R!Unregister, IInv, NoDependents
  <2> QED BY <1>4, <2>2, <2>3, <2>4, RestarterActs DEF IInv, Joined
<1> QED BY <1>1, <1>2, <1>3, <1>4

\* A step of the restarter of its own registers nothing.
LEMMA RestarterKeeps ==
  ASSUME IInv,
         \/ \E h \in {"healthy", "unhealthy"} : R!UpdateHealth(Backend, h)
         \/ R!Ignore \/ \E t \in Tasks : R!Spawn(t) \/ R!TaskStep(t) \/ R!RestartPasses(t)
         \/ R!CooldownEnds(Backend) \/ R!UnitLeaves(Backend)
  PROVE  RP!IInv' /\ NoDependents' /\ (status'[Backend] = None <=> status[Backend] = None)
<1> USE DEF R!taskVars
<1>1. RP!Next BY SameRestarter DEF RP!Next, RP!EventStep
<1>2. RP!IInv' BY <1>1, RestarterActs DEF IInv
<1>3. NoDependents'
  <2>1. ASSUME NEW t \in Tasks, R!TaskStep(t) PROVE NoDependents'
    <3>1. R!DependentsOf(target[t]) = {} BY DEF R!DependentsOf
    <3> QED BY <2>1, <3>1
            DEF R!TaskStep, R!NoTracker, R!Lookup, R!Wake, R!RestartOk, R!RestartFails,
                R!CascadeDone, R!Cascade, R!End, NoDependents, IInv, RP!IInv, RP!TypeOK
  <2> QED BY <2>1 DEF R!UpdateHealth, R!Ignore, R!Spawn, R!RestartPasses, R!CooldownEnds,
                      R!UnitLeaves, NoDependents, IInv
<1>4. status'[Backend] = None <=> status[Backend] = None
  <2>1. ASSUME NEW h \in {"healthy", "unhealthy"}, R!UpdateHealth(Backend, h)
        PROVE  status'[Backend] = None <=> status[Backend] = None
    <3>1. status[Backend] # None BY <2>1 DEF R!UpdateHealth
    <3>2. status[Backend] \in RP!Statuses BY <3>1 DEF IInv, RP!IInv, RP!TypeOK
    <3>3. [status[Backend] EXCEPT !.healthy = h] \in RP!Statuses
      BY <3>2 DEF RP!Statuses
    <3>4. status'[Backend] = [status[Backend] EXCEPT !.healthy = h]
      BY <2>1 DEF R!UpdateHealth, IInv, RP!IInv, RP!TypeOK
    <3>5. None \notin RP!Statuses
      BY RestarterAssumption
         DEF RestarterAssumption, R!Statuses, RP!Statuses, R!UnitStates, RP!UnitStates
    <3> QED BY <3>1, <3>3, <3>4, <3>5
  <2>2. CASE status' = status BY <2>2
  <2> QED BY <2>1, <2>2 DEF R!Ignore, R!Spawn, R!TaskStep, R!NoTracker, R!Lookup, R!Wake,
             R!RestartOk, R!RestartFails, R!CascadeDone, R!Cascade, R!RestartPasses,
             R!CooldownEnds, R!UnitLeaves
<1> QED BY <1>2, <1>3, <1>4

----------------------------------------------------------------------------
LEMMA InitIInv == ASSUME Init PROVE IInv
<1>1. AP!Init
  BY DEF Init, A!Init, AP!Init, A!UnitStates, AP!UnitStates
<1>2. AP!IInv BY <1>1, Assumptions, AP!InitIInv
<1>3. RP!IInv
  BY Assumptions
     DEF RP!ShiftAssumption, Init, R!UnitStates, RP!UnitStates, RP!IInv, RP!TypeOK,
         RP!Together, RP!HasTarget, RP!OwnTracked
<1> QED BY <1>2, <1>3 DEF Init, A!Init, IInv, Joined, NoDependents

LEMMA NextIInv == ASSUME IInv, [Next]_vars PROVE IInv'
<1>1. ASSUME UNCHANGED restarterOwn, UNCHANGED <<unit, watched>>, AP!IInv' PROVE IInv'
  <2>1. UnitTyped' BY <1>1 DEF IInv, RP!IInv, RP!TypeOK, UnitTyped, R!UnitStates, RP!UnitStates
  <2> QED BY <1>1, <2>1, RestarterUntouched DEF IInv, Joined, NoDependents, restarterOwn
<1>2. ASSUME AP!IInv', UnitMoves, Supervise PROVE IInv'
  <2>1. UnitTyped' BY <1>2 DEF UnitMoves, UnitTyped
  <2>2. watched' \in BOOLEAN BY <1>2 DEF AP!IInv, AP!TypeOK
  <2> QED BY <1>2, <2>1, <2>2, Supervises DEF IInv
<1>3. ASSUME NEW c \in Conns, Handles(c) PROVE IInv'
  <2>1. AP!IInv' BY <1>3, SameHandlers, ActivatorActs DEF Handles, IInv
  <2> QED BY <1>2, <1>3, <2>1 DEF Handles
<1>4. CASE Idles
  <2>1. AP!IInv' BY <1>4, SameOthers, ActivatorActs DEF Idles, IInv
  <2> QED BY <1>2, <1>4, <2>1 DEF Idles
<1>5. ASSUME NEW c \in Conns, Client(c) PROVE IInv'
  <2>1. AP!IInv' BY <1>5, SameHandlers, ActivatorActs DEF Client, IInv
  <2>2. watched' = watched
    BY <1>5 DEF Client, A!ClientStep, A!Accept, A!MarkTraffic, A!RelayEnds, A!backend
  <2> QED BY <1>1, <1>5, <2>1, <2>2 DEF Client
<1>6. CASE Clock \/ Opens \/ Closes \/ Stops \/ Finished
  <2>1. AP!IInv'
    BY <1>6, SameOthers, ActivatorActs DEF Clock, Opens, Closes, Stops, Finished, IInv
  <2>2. /\ watched' = watched
        /\ UNCHANGED <<unit, restarterOwn>>
    BY <1>6 DEF Clock, Opens, Closes, Stops, Finished, A!Tick, A!Bind, A!BindFails,
                A!Shutdown, A!CloseListener, A!Finished, A!backend, A!vars
  <2> QED BY <1>1, <2>1, <2>2
<1>7. ASSUME UNCHANGED activatorOwn,
             \/ \E h \in {"healthy", "unhealthy"} : R!UpdateHealth(Backend, h)
             \/ R!Ignore \/ \E t \in Tasks : R!Spawn(t) \/ R!TaskStep(t) \/ R!RestartPasses(t)
             \/ R!CooldownEnds(Backend) \/ R!UnitLeaves(Backend)
      PROVE  IInv'
  <2>1. AP!IInv' BY <1>7, ActivatorUntouched DEF IInv
  <2>2. RP!IInv' /\ NoDependents' /\ (status'[Backend] = None <=> status[Backend] = None)
    BY <1>7, RestarterKeeps
  <2> QED BY <1>7, <2>1, <2>2 DEF IInv, Joined, activatorOwn
<1>8. CASE UNCHANGED vars
  <2>1. AP!IInv' BY <1>8, ActivatorUntouched DEF vars, IInv
  <2> QED BY <1>1, <1>8, <2>1 DEF vars, activatorOwn
<1> QED BY <1>3, <1>4, <1>5, <1>6, <1>7, <1>8
        DEF Next, CheckReports, HandleEvent, Attempts, Passes, CooldownEnds, UnitLeaves

----------------------------------------------------------------------------
(* Theorems *)

\* Both components keep their invariants next to each other, and the unit is
\* registered with the restarter exactly while the activator has it watched.
THEOREM Inductive == Spec => []IInv
<1>1. Init => IInv BY InitIInv
<1>2. IInv /\ [Next]_vars => IInv' BY NextIInv
<1> QED BY <1>1, <1>2, PTL DEF Spec

\* Every variable keeps its type, and there is a status and a tracker exactly
\* while the unit is watched.
THEOREM TypeCorrect == Spec => []TypeOK
<1>1. IInv => TypeOK
  <2> SUFFICES ASSUME IInv PROVE TypeOK OBVIOUS
  <2>1. A!TypeOK
    BY DEF IInv, AP!IInv, A!TypeOK, AP!TypeOK, A!Places, AP!Places, A!Unopened, AP!Unopened,
           A!Waiting, AP!Waiting, A!Woken, AP!Woken, A!Starter, AP!Starter, A!Served,
           AP!Served, A!IdlePlaces, AP!IdlePlaces, A!IdleStopping, AP!IdleStopping,
           A!UnitStates, AP!UnitStates
  <2>2. R!TypeOK
    BY DEF IInv, RP!IInv, R!TypeOK, RP!TypeOK, R!UnitStates, RP!UnitStates, R!Statuses,
           RP!Statuses, R!Trackers, RP!Trackers, R!Events, RP!Events
  <2> QED BY <2>1, <2>2 DEF IInv, RP!IInv, RP!Together, Joined, TypeOK
<1> QED BY Inductive, <1>1, PTL

\* An attempt that still has the registered tracker restarts the unit only
\* while the activator holds it up, although it was started a backoff ago.
LEMMA InUse == ASSUME IInv PROVE RestartsOnlyInUse
<1> SUFFICES ASSUME NEW t \in Tasks, pc[t] = "restart", ~stale[t]
             PROVE  running /\ ~starting /\ ~stopping
  BY DEF RestartsOnlyInUse
<1>1. target[t] = Backend BY DEF IInv, RP!IInv, RP!HasTarget
<1>2. tracker[Backend] # None BY <1>1 DEF IInv, RP!IInv, RP!OwnTracked
<1>3. watched BY <1>2 DEF IInv, RP!IInv, RP!Together, Joined
<1> QED BY <1>3 DEF IInv, AP!IInv, AP!Lifecycle, AP!MonitoredOnlyWhileUp

THEOREM RestartsSafely == Spec => []RestartsOnlyInUse
<1>1. IInv => RestartsOnlyInUse BY InUse
<1> QED BY Inductive, <1>1, PTL

\* What brings the unit up while the activator neither uses nor starts it is
\* an attempt of an earlier registration, and nothing else: README.md:189
\* holds but for those.
OnlyStaleFights ==
  [][unit[Backend] # "active" /\ unit'[Backend] = "active" =>
       \/ running \/ starting
       \/ \E t \in Tasks : pc[t] = "restart" /\ stale[t]]_vars

THEOREM FightsAreStale == Spec => OnlyStaleFights
<1>1. IInv /\ [Next]_vars =>
        [unit[Backend] # "active" /\ unit'[Backend] = "active" =>
           \/ running \/ starting
           \/ \E t \in Tasks : pc[t] = "restart" /\ stale[t]]_vars
  <2> SUFFICES ASSUME IInv, [Next]_vars, unit[Backend] # "active", unit'[Backend] = "active"
               PROVE  running \/ starting \/ \E t \in Tasks : pc[t] = "restart" /\ stale[t]
    OBVIOUS
  <2>1. UpOrDown = "inactive" /\ UpOrDown' = "active" BY DEF UpOrDown
  <2>2. ASSUME NEW c \in Conns, Handles(c) PROVE starting
    <3>1. handler[c] \in {"start", "failStop"}
      BY <2>1, <2>2 DEF Handles, A!HandlerStep, A!ConnOpened, A!ConnClosed, A!Dial,
                A!JoinStop, A!UseRunning, A!JoinStart, A!BeginStart, A!RetryAfterStop,
                A!ReadOutcome, A!CancelWait, A!StartUnit, A!StartUnitFails, A!ProbeOk,
                A!ProbeGivesUp, A!StopFailedStart, A!FinishStart, A!Goto, A!backend
    <3> QED BY <3>1 DEF IInv, AP!IInv, AP!Lifecycle, AP!StartOwned, AP!Starter
  <2>3. CASE Idles
    <3>1. idlePc = "stop"
      BY <2>1, <2>3 DEF Idles, A!IdleStep, A!BeginIdleStop, A!IdleStopOk, A!IdleStopFails,
                A!ClearRunning, A!ReleaseStopWait, A!IdleLoopExits, A!backend
    <3> QED BY <3>1 DEF IInv, AP!IInv, AP!Lifecycle, AP!StopOwned
  <2>4. ASSUME NEW t \in Tasks, Attempts(t)
        PROVE  running \/ (pc[t] = "restart" /\ stale[t])
    <3>1. pc[t] = "restart"
      BY <2>4 DEF Attempts, R!TaskStep, R!NoTracker, R!Lookup, R!Wake, R!RestartOk,
                  R!RestartFails, R!CascadeDone, R!Cascade, IInv, NoDependents
    <3> QED BY <3>1, InUse DEF RestartsOnlyInUse
  <2>5. ASSUME NEW t \in Tasks, Passes(t) PROVE FALSE
    <3>1. unit' = [unit EXCEPT ![target[t]] = "inactive"] BY <2>5 DEF Passes, R!RestartPasses
    <3>2. unit \in [{Backend} -> RP!UnitStates] BY DEF IInv, RP!IInv, RP!TypeOK
    <3> QED BY <3>1, <3>2
  <2>6. CASE UnitLeaves
    BY <2>6 DEF UnitLeaves, R!UnitLeaves
  <2>7. unit' # unit OBVIOUS
  <2> QED BY <2>2, <2>3, <2>4, <2>5, <2>6, <2>7
          DEF Next, Client, Clock, Opens, Closes, Stops, CheckReports, R!UpdateHealth,
              HandleEvent, R!Ignore, R!Spawn, CooldownEnds, R!CooldownEnds, Finished, vars
<1> QED BY Inductive, <1>1, PTL DEF Spec, OnlyStaleFights

----------------------------------------------------------------------------
(* What the activator promises on its own it keeps next to the restarter.     *)

\* Starts and stops exclude each other, a connection is served only while the
\* unit counts as running, and whoever waits is woken, although the restarter
\* takes the same unit down and up again.
THEOREM ActivatorKept ==
  Spec => [](A!OneUnitOperation /\ A!ServedWhileRunning /\ A!NoStrandedWaiter)
<1>1. IInv => A!OneUnitOperation /\ A!ServedWhileRunning /\ A!NoStrandedWaiter
  BY DEF IInv, AP!IInv, AP!Lifecycle, AP!StartOwned, AP!StopOwned, AP!StartExcludes,
         AP!Relying, A!OneUnitOperation, A!ServedWhileRunning, A!NoStrandedWaiter, A!At,
         A!Starter, AP!Starter, A!Served, AP!Served, A!IdleStopping, AP!IdleStopping
<1> QED BY Inductive, <1>1, PTL

\* A step of the activator is one of the abstract unit, or none; one of the
\* restarter is none.
LEMMA PromiseStep ==
  ASSUME IInv, [Next]_vars
  PROVE  [AP!Promise!Next]_(AP!Promise!vars)
<1>1. ASSUME AP!Next PROVE [AP!Promise!Next]_(AP!Promise!vars)
  BY <1>1, Assumptions, AP!StepRefines DEF IInv
<1>2. ASSUME UNCHANGED activatorOwn PROVE UNCHANGED AP!Promise!vars
  BY <1>2, Assumptions, AP!Silent DEF IInv, AP!IInv, activatorOwn, AP!lifecycle
<1>3. ASSUME NEW c \in Conns, Handles(c) \/ Client(c) PROVE AP!Next
  BY <1>3, SameHandlers DEF Handles, Client, AP!Next
<1>4. CASE Idles \/ Clock \/ Opens \/ Closes \/ Stops \/ Finished
  <2>1. AP!Next
    BY <1>4, SameOthers DEF Idles, Clock, Opens, Closes, Stops, Finished, AP!Next
  <2> QED BY <1>1, <2>1
<1>5. CASE \/ \E h \in {"healthy", "unhealthy"} : CheckReports(h)
           \/ HandleEvent \/ CooldownEnds \/ UnitLeaves \/ UNCHANGED vars
           \/ \E t \in Tasks : Attempts(t) \/ Passes(t)
  <2>1. UNCHANGED activatorOwn
    BY <1>5 DEF CheckReports, HandleEvent, CooldownEnds, UnitLeaves, Attempts, Passes, vars
  <2> QED BY <1>2, <2>1
<1> QED BY <1>1, <1>3, <1>4, <1>5 DEF Next

\* So activator and restarter together still implement the unit that
\* OnDemandUnit describes: the supervision of a backend changes nothing of what
\* its clients are promised.
THEOREM PromiseKept == Spec => AP!ImplementsOnDemandUnit
<1>1. Init => AP!Promise!Init
  BY DEF Init, A!Init, AP!Promise!Init, AP!Phase, AP!Open, AP!At, AP!Unopened, AP!Served
<1>2. IInv /\ [Next]_vars => [AP!Promise!Next]_(AP!Promise!vars) BY PromiseStep
<1> QED BY <1>1, <1>2, Inductive, PTL DEF Spec, AP!ImplementsOnDemandUnit, AP!Promise!Spec
===============================================================================
