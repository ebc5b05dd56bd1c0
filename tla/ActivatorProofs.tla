-------------------------- MODULE ActivatorProofs ----------------------------
(***************************************************************************)
(* The invariants of Activator, for every number of handlers, every idle   *)
(* timeout and every set of listeners.                                     *)
(*                                                                         *)
(* The argument has two halves.  Lifecycle says who owns `starting` and    *)
(* `stopping` and that the two exclude each other; it is preserved because *)
(* every change of them is one critical section.  What protects a handler  *)
(* that runs outside the critical sections is the counter: an idle stop    *)
(* needs active = 0, so by ActiveCount it begins only when no handler is   *)
(* between connOpened and connClosed.                                      *)
(***************************************************************************)
EXTENDS Activator, FiniteSetTheorems, TLAPS

StartOwned ==
  /\ \A c, d \in Conns : (pc[c] \in Starter /\ pc[d] \in Starter) => c = d
  /\ starting <=> \E c \in Conns : pc[c] \in Starter

StopOwned == /\ stopping <=> idlePc \in IdleStopping
             /\ idlePc \in {"stop", "stopped"} => running

StartExcludes == starting => ~running /\ ~stopping

\* Handlers past the test of `stopping`, other than the starter, rely on a
\* start in progress or done.
Relying == \A c \in Conns :
  /\ pc[c] \in {"waitStart", "startClosed"} \cup Served => ~stopping
  /\ pc[c] \in Served => running
  /\ pc[c] = "waitStart" => starting
  /\ pc[c] = "waitStop" => stopping

Lifecycle == /\ StartOwned
             /\ StopOwned
             /\ StartExcludes
             /\ Relying
             /\ MonitoredOnlyWhileUp

IInv == TypeOK /\ ActiveCount /\ Lifecycle

----------------------------------------------------------------------------
\* Every step keeps every variable in its type, the count apart: that the
\* counter does not go below zero follows from ActiveCount.
LEMMA TypeStep ==
  ASSUME TypeOK, [Next]_vars, active' \in Nat
  PROVE  TypeOK'
<1> USE ConnsAssumption, TimeoutAssumption, ProtocolsAssumption, ChecksAssumption
<1> USE DEF TypeOK, Places, Unopened, Waiting, Woken, Starter, Served,
            IdlePlaces, IdleStopping, UnitStates, Goto, Wake,
            activity, lifecycle, backend, serving
<1>1. ASSUME NEW c \in Conns, HandlerStep(c)
      PROVE  TypeOK'
  <2>1. CASE ConnOpened(c) BY <2>1 DEF ConnOpened
  <2>2. CASE ConnClosed(c) BY <2>2 DEF ConnClosed
  <2>3. CASE Dial(c) BY <2>3 DEF Dial
  <2>4. CASE JoinStop(c) BY <2>4 DEF JoinStop
  <2>5. CASE UseRunning(c) BY <2>5 DEF UseRunning
  <2>6. CASE JoinStart(c) BY <2>6 DEF JoinStart
  <2>7. CASE BeginStart(c) BY <2>7 DEF BeginStart
  <2>8. CASE RetryAfterStop(c) BY <2>8 DEF RetryAfterStop
  <2>9. CASE ReadOutcome(c) BY <2>9 DEF ReadOutcome
  <2>10. CASE CancelWait(c) BY <2>10 DEF CancelWait
  <2>11. CASE StartUnit(c) BY <2>11 DEF StartUnit
  <2>12. CASE StartUnitFails(c) BY <2>12 DEF StartUnitFails
  <2>13. CASE ProbeOk(c) BY <2>13 DEF ProbeOk
  <2>14. CASE ProbeGivesUp(c) BY <2>14 DEF ProbeGivesUp
  <2>15. CASE StopFailedStart(c) BY <2>15 DEF StopFailedStart
  <2>16. CASE FinishStart(c) BY <2>16 DEF FinishStart
  <2> QED BY <1>1, <2>1, <2>2, <2>3, <2>4, <2>5, <2>6, <2>7, <2>8, <2>9, <2>10,
             <2>11, <2>12, <2>13, <2>14, <2>15, <2>16 DEF HandlerStep
<1>2. ASSUME NEW c \in Conns, ClientStep(c)
      PROVE  TypeOK'
  BY <1>2 DEF ClientStep, Accept, MarkTraffic, RelayEnds
<1>3. CASE IdleStep
  BY <1>3 DEF IdleStep, BeginIdleStop, IdleStopOk, IdleStopFails, ClearRunning,
              ReleaseStopWait, IdleLoopExits
<1>4. CASE Tick BY <1>4 DEF Tick
<1>5. CASE Bind \/ BindFails
  <2>1. CASE Bind
    <3>1. bound + 1 \in 0..Protocols BY <2>1 DEF Bind, ProtocolsAssumption
    <3>2. bound' \in 0..Protocols BY <2>1, <3>1 DEF Bind
    <3>3. listening' \in BOOLEAN BY <2>1 DEF Bind
    <3>4. idlePc' \in IdlePlaces BY <2>1 DEF Bind
    <3> QED BY <2>1, <3>2, <3>3, <3>4 DEF Bind
  <2>2. CASE BindFails BY <2>2 DEF BindFails
  <2> QED BY <1>5, <2>1, <2>2
<1>6. CASE Shutdown \/ CloseListener \/ UnitExits
  BY <1>6 DEF Shutdown, CloseListener, UnitExits
<1>7. CASE Finished \/ UNCHANGED vars BY <1>7 DEF Finished, vars
<1> QED BY <1>1, <1>2, <1>3, <1>4, <1>5, <1>6, <1>7 DEF Next

----------------------------------------------------------------------------
\* A step that neither opens nor closes a connection keeps the count.
LEMMA CountKept ==
  ASSUME ActiveCount, active' = active,
         \A d \in Conns : pc'[d] \in Unopened <=> pc[d] \in Unopened
  PROVE  ActiveCount'
<1>1. Open' = Open BY DEF Open
<1> QED BY <1>1 DEF ActiveCount

LEMMA OpenIsFinite == IsFiniteSet(Open) /\ Cardinality(Open) \in Nat
BY ConnsAssumption, FS_Subset, FS_CardinalityType DEF ConnsAssumption, Open

\* connOpened and connClosed keep `active` the number of open connections, and
\* no other code touches either.
LEMMA CountStep ==
  ASSUME TypeOK, ActiveCount, [Next]_vars
  PROVE  active' \in Nat /\ ActiveCount'
<1> USE DEF Goto, Unopened, activity, serving, lifecycle, backend
<1>1. ASSUME NEW c \in Conns, ConnOpened(c)
      PROVE  active' \in Nat /\ ActiveCount'
  <2>1. c \notin Open /\ Open' = Open \cup {c}
    BY <1>1 DEF ConnOpened, Open, TypeOK
  <2>2. Cardinality(Open') = Cardinality(Open) + 1
    BY <2>1, OpenIsFinite, FS_AddElement
  <2> QED BY <1>1, <2>2 DEF ConnOpened, ActiveCount, TypeOK
<1>2. ASSUME NEW c \in Conns, ConnClosed(c)
      PROVE  active' \in Nat /\ ActiveCount'
  <2>1. c \in Open /\ Open' = Open \ {c}
    BY <1>2 DEF ConnClosed, Open, TypeOK
  <2>2. /\ Cardinality(Open') = Cardinality(Open) - 1
        /\ IsFiniteSet(Open')
    BY <2>1, OpenIsFinite, FS_RemoveElement
  <2>3. Cardinality(Open') \in Nat BY <2>2, FS_CardinalityType
  <2> QED BY <1>2, <2>2, <2>3 DEF ConnClosed, ActiveCount
<1>3. ASSUME NEW c \in Conns,
             HandlerStep(c), ~ConnOpened(c), ~ConnClosed(c)
      PROVE  active' \in Nat /\ ActiveCount'
  <2>1. CASE CancelWait(c)
    <3>1. \A d \in Conns : pc'[d] \in Unopened <=> pc[d] \in Unopened
      BY <2>1 DEF CancelWait, Waiting, Woken, TypeOK
    <3> QED BY <2>1, <3>1, CountKept DEF CancelWait, TypeOK
  <2>2. CASE FinishStart(c)
    <3>1. \A d \in Conns : pc'[d] \in Unopened <=> pc[d] \in Unopened
      BY <2>2 DEF FinishStart, Wake, TypeOK
    <3> QED BY <2>2, <3>1, CountKept DEF FinishStart, TypeOK
  <2>3. CASE \/ Dial(c) \/ JoinStop(c) \/ UseRunning(c) \/ JoinStart(c)
             \/ BeginStart(c) \/ RetryAfterStop(c) \/ ReadOutcome(c)
    <3>1. /\ active' = active
          /\ \A d \in Conns : pc'[d] \in Unopened <=> pc[d] \in Unopened
      BY <2>3 DEF Dial, JoinStop, UseRunning, JoinStart, BeginStart,
                  RetryAfterStop, ReadOutcome, TypeOK
    <3> QED BY <3>1, CountKept DEF TypeOK
  <2>4. CASE \/ StartUnit(c) \/ StartUnitFails(c) \/ ProbeOk(c)
             \/ ProbeGivesUp(c) \/ StopFailedStart(c)
    <3>1. /\ active' = active
          /\ \A d \in Conns : pc'[d] \in Unopened <=> pc[d] \in Unopened
      BY <2>4 DEF StartUnit, StartUnitFails, ProbeOk, ProbeGivesUp,
                  StopFailedStart, TypeOK
    <3> QED BY <3>1, CountKept DEF TypeOK
  <2> QED BY <1>3, <2>1, <2>2, <2>3, <2>4 DEF HandlerStep
<1>4. ASSUME NEW c \in Conns, ClientStep(c)
      PROVE  active' \in Nat /\ ActiveCount'
  <2>1. /\ active' = active
        /\ \A d \in Conns : pc'[d] \in Unopened <=> pc[d] \in Unopened
    BY <1>4 DEF ClientStep, Accept, MarkTraffic, RelayEnds, TypeOK
  <2> QED BY <2>1, CountKept DEF TypeOK
<1>5. CASE ReleaseStopWait
  <2>1. \A d \in Conns : pc'[d] \in Unopened <=> pc[d] \in Unopened
    BY <1>5 DEF ReleaseStopWait, Wake, TypeOK
  <2> QED BY <1>5, <2>1, CountKept DEF ReleaseStopWait, TypeOK
<1>6. CASE pc' = pc /\ active' = active
  BY <1>6, CountKept DEF TypeOK
<1> QED
  BY <1>1, <1>2, <1>3, <1>4, <1>5, <1>6
     DEF Next, vars, IdleStep, BeginIdleStop, IdleStopOk, IdleStopFails,
         ClearRunning, IdleLoopExits, Tick, Bind, BindFails, Shutdown,
         CloseListener, UnitExits, Finished

----------------------------------------------------------------------------
\* An idle stop is not begun while a connection is open.
LEMMA IdleMeansNobody ==
  ASSUME TypeOK, ActiveCount, MayStopIdle
  PROVE  Open = {}
<1>1. Cardinality(Open) = 0 BY OpenIsFinite DEF ActiveCount, MayStopIdle, TypeOK
<1> QED BY <1>1, OpenIsFinite, FS_EmptySet

\* Every handler step leaves the lifecycle in order.
LEMMA HandlerLifecycle ==
  ASSUME TypeOK, Lifecycle, NEW c \in Conns, HandlerStep(c)
  PROVE  Lifecycle'
<1> USE DEF Lifecycle, StartOwned, StopOwned, StartExcludes, Relying,
            MonitoredOnlyWhileUp, TypeOK, Goto, Waiting, Woken, Starter, Served,
            activity, lifecycle, backend, serving
<1>1. CASE ConnOpened(c) BY <1>1 DEF ConnOpened
<1>2. CASE ConnClosed(c) BY <1>2 DEF ConnClosed
<1>3. CASE Dial(c) BY <1>3 DEF Dial
<1>4. CASE JoinStop(c) BY <1>4 DEF JoinStop
<1>5. CASE UseRunning(c) BY <1>5 DEF UseRunning
<1>6. CASE JoinStart(c) BY <1>6 DEF JoinStart
<1>7. CASE BeginStart(c) BY <1>7 DEF BeginStart
<1>8. CASE RetryAfterStop(c) BY <1>8 DEF RetryAfterStop
<1>9. CASE ReadOutcome(c) BY <1>9 DEF ReadOutcome
<1>10. CASE CancelWait(c) BY <1>10 DEF CancelWait
<1>11. CASE StartUnit(c) BY <1>11 DEF StartUnit
<1>12. CASE StartUnitFails(c) BY <1>12 DEF StartUnitFails
<1>13. CASE ProbeOk(c) BY <1>13 DEF ProbeOk
<1>14. CASE ProbeGivesUp(c) BY <1>14 DEF ProbeGivesUp
<1>15. CASE StopFailedStart(c) BY <1>15 DEF StopFailedStart
<1>16. CASE FinishStart(c)
  <2>1. StartOwned' BY <1>16 DEF FinishStart, Wake
  <2>2. StopOwned' BY <1>16 DEF FinishStart
  <2>3. StartExcludes' BY <1>16 DEF FinishStart
  <2>4. Relying' BY <1>16 DEF FinishStart, Wake
  <2>5. MonitoredOnlyWhileUp' BY <1>16 DEF FinishStart
  <2> QED BY <2>1, <2>2, <2>3, <2>4, <2>5
<1> QED BY <1>1, <1>2, <1>3, <1>4, <1>5, <1>6, <1>7, <1>8, <1>9, <1>10,
           <1>11, <1>12, <1>13, <1>14, <1>15, <1>16 DEF HandlerStep

\* The idle loop and everything else leave it in order too.
LEMMA OtherLifecycle ==
  ASSUME TypeOK, ActiveCount, Lifecycle,
         \/ \E c \in Conns : ClientStep(c)
         \/ IdleStep \/ Tick \/ Bind \/ BindFails \/ Shutdown \/ CloseListener
         \/ UnitExits \/ UNCHANGED vars
  PROVE  Lifecycle'
<1> USE DEF Lifecycle, StartOwned, StopOwned, StartExcludes, Relying,
            MonitoredOnlyWhileUp, TypeOK, Goto, Starter, Served, IdleStopping,
            activity, lifecycle, backend, serving
<1>1. ASSUME NEW c \in Conns, ClientStep(c)
      PROVE  Lifecycle'
  BY <1>1 DEF ClientStep, Accept, MarkTraffic, RelayEnds
<1>2. CASE BeginIdleStop
  <2>1. \A d \in Conns : pc[d] \in Unopened
    BY <1>2, IdleMeansNobody DEF BeginIdleStop, Open
  <2>2. \A d \in Conns : pc[d] \notin {"waitStart", "startClosed"} \cup Served
    BY <2>1 DEF Unopened
  <2> QED BY <1>2, <2>2 DEF BeginIdleStop, MayStopIdle
<1>3. CASE IdleStopOk \/ IdleStopFails \/ IdleLoopExits
  BY <1>3 DEF IdleStopOk, IdleStopFails, IdleLoopExits
<1>4. CASE ClearRunning BY <1>4 DEF ClearRunning
<1>5. CASE ReleaseStopWait BY <1>5 DEF ReleaseStopWait, Wake
<1>6. CASE Tick \/ Shutdown \/ CloseListener \/ UnitExits \/ UNCHANGED vars
  BY <1>6 DEF Tick, Shutdown, CloseListener, UnitExits, vars
<1>7. CASE Bind \/ BindFails BY <1>7 DEF Bind, BindFails
<1> QED BY <1>1, <1>2, <1>3, <1>4, <1>5, <1>6, <1>7 DEF IdleStep

----------------------------------------------------------------------------
LEMMA InitIInv == Init => IInv
<1> SUFFICES ASSUME Init PROVE IInv OBVIOUS
<1>1. TypeOK
  <2>1. pc \in [Conns -> Places] BY DEF Init, Places, Unopened
  <2>2. idleFor \in 0..IdleTimeout /\ bound \in 0..Protocols
    BY TimeoutAssumption, ProtocolsAssumption
       DEF Init, TimeoutAssumption, ProtocolsAssumption
  <2>3. active \in Nat /\ idlePc \in IdlePlaces BY DEF Init, IdlePlaces
  <2> QED BY <2>1, <2>2, <2>3 DEF Init, TypeOK
<1>2. ActiveCount
  <2>1. Open = {} BY DEF Init, Open, Unopened
  <2> QED BY <2>1, FS_EmptySet DEF Init, ActiveCount
<1>3. Lifecycle
  BY DEF Init, Lifecycle, StartOwned, StopOwned, StartExcludes, Relying,
         MonitoredOnlyWhileUp, Starter, Served, IdleStopping
<1> QED BY <1>1, <1>2, <1>3 DEF IInv

LEMMA NextIInv == IInv /\ [Next]_vars => IInv'
<1> SUFFICES ASSUME IInv, [Next]_vars PROVE IInv' OBVIOUS
<1>1. active' \in Nat /\ ActiveCount' BY CountStep DEF IInv
<1>2. TypeOK' BY <1>1, TypeStep DEF IInv
<1>3. Lifecycle'
  BY HandlerLifecycle, OtherLifecycle DEF IInv, Next, Finished
<1> QED BY <1>1, <1>2, <1>3 DEF IInv

\* The conjunction that is preserved by every step.
THEOREM Inductive == Spec => []IInv
<1> QED BY InitIInv, NextIInv, PTL DEF Spec

\* Every variable keeps its type; the connection counter is never negative.
THEOREM TypeCorrect == Spec => []TypeOK
<1>1. IInv => TypeOK BY DEF IInv
<1> QED BY <1>1, Inductive, PTL

\* The counter the idle check reads is the number of open connections.
THEOREM ActiveCorrect == Spec => []ActiveCount
<1>1. IInv => ActiveCount BY DEF IInv
<1> QED BY <1>1, Inductive, PTL

\* No two starts or stops of the unit are ever in flight together.
THEOREM OneOperation == Spec => []OneUnitOperation
<1>1. IInv => OneUnitOperation
  BY DEF IInv, Lifecycle, StartOwned, StopOwned, StartExcludes,
         OneUnitOperation, At
<1> QED BY <1>1, Inductive, PTL

\* A connection past ensureRunning is never pulled from under by a stop.
THEOREM ServedSafely == Spec => []ServedWhileRunning
<1>1. IInv => ServedWhileRunning
  BY DEF IInv, Lifecycle, StopOwned, Relying, ServedWhileRunning, At
<1> QED BY <1>1, Inductive, PTL

\* The supervisor never acts on a unit that is not up, or is in transition.
THEOREM MonitoredSafely == Spec => []MonitoredOnlyWhileUp
<1>1. IInv => MonitoredOnlyWhileUp BY DEF IInv, Lifecycle
<1> QED BY <1>1, Inductive, PTL

\* Every wait is on a channel that its owner has yet to close.
THEOREM WaitersOwned == Spec => []NoStrandedWaiter
<1>1. IInv => NoStrandedWaiter
  BY DEF IInv, Lifecycle, StartOwned, StopOwned, Relying, NoStrandedWaiter, At
<1> QED BY <1>1, Inductive, PTL

\* An idle stop begins only after idle_timeout without anybody there.
THEOREM StopsOnlyIdle == Spec => IdleStopWhenIdle
<1>1. IInv /\ [Next]_vars =>
        [idlePc # "stop" /\ idlePc' = "stop" => Open = {} /\ idleFor = IdleTimeout]_vars
  <2> SUFFICES ASSUME IInv, [Next]_vars, idlePc # "stop", idlePc' = "stop"
               PROVE  Open = {} /\ idleFor = IdleTimeout
    OBVIOUS
  <2>1. BeginIdleStop
    BY DEF Next, HandlerStep, ClientStep, IdleStep, ConnOpened, ConnClosed, Dial,
           JoinStop, UseRunning, JoinStart, BeginStart, RetryAfterStop,
           ReadOutcome, CancelWait, StartUnit, StartUnitFails, ProbeOk,
           ProbeGivesUp, StopFailedStart, FinishStart, Accept, MarkTraffic,
           RelayEnds, IdleStopOk, IdleStopFails, ClearRunning, ReleaseStopWait,
           IdleLoopExits, Tick, Bind, BindFails, Shutdown, CloseListener,
           UnitExits, Finished, vars
  <2>2. MayStopIdle BY <2>1 DEF BeginIdleStop
  <2>3. idleFor = IdleTimeout
    BY <2>2, TimeoutAssumption DEF MayStopIdle, IInv, TypeOK, TimeoutAssumption
  <2> QED BY <2>2, <2>3, IdleMeansNobody DEF IInv
<1> QED BY <1>1, Inductive, PTL DEF Spec, IdleStopWhenIdle

----------------------------------------------------------------------------
\* A step that keeps the phase, the open connections and the served ones is
\* no step of the abstract unit.
LEMMA Silent ==
  ASSUME TypeOK, UNCHANGED lifecycle,
         \A d \in Conns : pc'[d] \in Unopened <=> pc[d] \in Unopened,
         \A d \in Conns : pc'[d] \in Served <=> pc[d] \in Served
  PROVE  UNCHANGED Promise!vars
<1>1. Open' = Open BY DEF Open
<1>2. At(Served)' = At(Served) BY DEF At, Served
<1>3. Phase' = Phase BY DEF Phase, lifecycle
<1> QED BY <1>1, <1>2, <1>3 DEF Promise!vars

\* What each handler step is to the abstract unit.
LEMMA HandlerRefines ==
  ASSUME IInv, NEW c \in Conns, HandlerStep(c)
  PROVE  Promise!Next \/ UNCHANGED Promise!vars
<1> USE DEF Goto, Unopened, Served, activity, lifecycle, backend, serving
<1>1. TypeOK /\ Lifecycle BY DEF IInv
<1>2. CASE ConnOpened(c)
  <2>1. Promise!Arrive(c)
    BY <1>1, <1>2 DEF ConnOpened, Promise!Arrive, Phase, Open, At, TypeOK
  <2> QED BY <2>1 DEF Promise!Next
<1>3. CASE ConnClosed(c)
  <2>1. Promise!Leave(c)
    BY <1>1, <1>3 DEF ConnClosed, Promise!Leave, Phase, Open, At, TypeOK
  <2> QED BY <2>1 DEF Promise!Next
<1>4. CASE Dial(c)
  <2>1. CASE Goto(c, "dial", "relay")
    BY <1>1, <1>4, <2>1, Silent DEF Dial, TypeOK
  <2>2. CASE Goto(c, "dial", "closing")
    <3>1. Promise!Drop(c)
      BY <1>1, <1>4, <2>2 DEF Dial, Promise!Drop, Phase, Open, At, TypeOK
    <3> QED BY <3>1 DEF Promise!Next
  <2> QED BY <1>4, <2>1, <2>2 DEF Dial
<1>5. CASE JoinStop(c) \/ JoinStart(c) \/ RetryAfterStop(c)
  BY <1>1, <1>5, Silent DEF JoinStop, JoinStart, RetryAfterStop, TypeOK
<1>6. CASE UseRunning(c)
  <2>1. Phase = "up" /\ Phase' = "up"
    BY <1>1, <1>6 DEF UseRunning, Phase, Lifecycle, StartExcludes, TypeOK
  <2>2. Promise!Admit(c)
    BY <1>1, <1>6, <2>1 DEF UseRunning, Promise!Admit, Open, At, TypeOK
  <2> QED BY <2>2 DEF Promise!Next
<1>7. CASE ReadOutcome(c)
  <2>1. CASE ~running
    BY <1>1, <1>7, <2>1, Silent DEF ReadOutcome, TypeOK
  <2>2. CASE running
    <3>1. Phase = "up" /\ Phase' = "up"
      BY <1>1, <1>7, <2>2
         DEF ReadOutcome, Phase, Lifecycle, StartExcludes, Relying, TypeOK
    <3>2. Promise!Admit(c)
      BY <1>1, <1>7, <2>2, <3>1 DEF ReadOutcome, Promise!Admit, Open, At, TypeOK
    <3> QED BY <3>2 DEF Promise!Next
  <2> QED BY <1>1, <2>1, <2>2 DEF TypeOK
<1>8. CASE BeginStart(c)
  <2>1. Promise!BeginStart
    BY <1>1, <1>8 DEF BeginStart, Promise!BeginStart, Phase, Open, At, TypeOK
  <2> QED BY <2>1 DEF Promise!Next
<1>9. CASE CancelWait(c)
  BY <1>1, <1>9, Silent DEF CancelWait, Waiting, Woken, TypeOK
<1>10. CASE \/ StartUnit(c) \/ StartUnitFails(c) \/ ProbeOk(c)
            \/ ProbeGivesUp(c) \/ StopFailedStart(c)
  BY <1>1, <1>10, Silent DEF StartUnit, StartUnitFails, ProbeOk, ProbeGivesUp,
                             StopFailedStart, TypeOK
<1>11. CASE FinishStart(c)
  <2>1. starting /\ ~running /\ ~stopping
    BY <1>1, <1>11 DEF FinishStart, Lifecycle, StartOwned, StartExcludes, Starter
  <2>2. CASE pc[c] = "started"
    <3>1. Phase = "starting" /\ Phase' = "up"
      BY <1>11, <2>1, <2>2 DEF FinishStart, Phase
    <3>2. Open' = Open /\ At(Served)' = At(Served) \cup {c}
      BY <1>1, <1>11, <2>2 DEF FinishStart, Wake, Open, At, TypeOK
    <3>3. c \in Open \ At(Served) BY <2>2 DEF Open, At
    <3>4. Promise!StartSucceeds(c)
      BY <3>1, <3>2, <3>3 DEF Promise!StartSucceeds
    <3> QED BY <3>4 DEF Promise!Next
  <2>3. CASE pc[c] = "failed"
    <3>1. Phase = "starting" /\ Phase' = "down"
      BY <1>11, <2>1, <2>3 DEF FinishStart, Phase
    <3>2. Open' = Open /\ At(Served)' = At(Served)
      BY <1>1, <1>11, <2>3 DEF FinishStart, Wake, Open, At, TypeOK
    <3> QED BY <3>1, <3>2 DEF Promise!StartFails, Promise!Next
  <2> QED BY <1>11, <2>2, <2>3 DEF FinishStart
<1> QED BY <1>2, <1>3, <1>4, <1>5, <1>6, <1>7, <1>8, <1>9, <1>10, <1>11
           DEF HandlerStep

\* What the idle loop is to the abstract unit.
LEMMA IdleRefines ==
  ASSUME IInv, IdleStep
  PROVE  Promise!Next \/ UNCHANGED Promise!vars
<1> USE DEF Unopened, Served, activity, lifecycle, backend, serving
<1>1. TypeOK /\ Lifecycle BY DEF IInv
<1>2. CASE BeginIdleStop
  <2>1. Open = {} BY <1>2, IdleMeansNobody DEF BeginIdleStop, IInv
  <2>2. Phase = "up" /\ Phase' = "stopping"
    BY <1>2 DEF BeginIdleStop, MayStopIdle, Phase
  <2>3. UNCHANGED <<Open, At(Served)>> BY <1>2 DEF BeginIdleStop, Open, At
  <2> QED BY <2>1, <2>2, <2>3 DEF Promise!BeginStop, Promise!Next
<1>3. CASE IdleStopOk \/ IdleStopFails \/ IdleLoopExits
  BY <1>1, <1>3, Silent DEF IdleStopOk, IdleStopFails, IdleLoopExits
<1>4. CASE ClearRunning
  <2>1. Phase = "stopping" /\ Phase' = "down"
    BY <1>1, <1>4 DEF ClearRunning, Phase, Lifecycle, StopOwned, StartExcludes,
                      IdleStopping
  <2>2. UNCHANGED <<Open, At(Served)>> BY <1>4 DEF ClearRunning, Open, At
  <2> QED BY <2>1, <2>2 DEF Promise!EndStop, Promise!Next
<1>5. CASE ReleaseStopWait
  <2>1. stopping /\ ~starting
    BY <1>1, <1>5 DEF ReleaseStopWait, Lifecycle, StopOwned, StartExcludes,
                      IdleStopping, TypeOK
  <2>2. Open' = Open /\ At(Served)' = At(Served)
    BY <1>1, <1>5 DEF ReleaseStopWait, Wake, Open, At, TypeOK
  <2>3. CASE running
    <3>1. Phase = "stopping" /\ Phase' = "up"
      BY <1>5, <2>1, <2>3 DEF ReleaseStopWait, Phase
    <3> QED BY <2>2, <3>1 DEF Promise!EndStop, Promise!Next
  <2>4. CASE ~running
    <3>1. Phase' = Phase BY <1>5, <2>1, <2>4 DEF ReleaseStopWait, Phase
    <3> QED BY <2>2, <3>1 DEF Promise!vars
  <2> QED BY <1>1, <2>3, <2>4 DEF TypeOK
<1> QED BY <1>2, <1>3, <1>4, <1>5 DEF IdleStep

LEMMA StepRefines == IInv /\ [Next]_vars => [Promise!Next]_(Promise!vars)
<1> SUFFICES ASSUME IInv, [Next]_vars
             PROVE  Promise!Next \/ UNCHANGED Promise!vars
  OBVIOUS
<1> USE DEF Goto, Unopened, Served, activity, lifecycle, backend, serving
<1>1. TypeOK BY DEF IInv
<1>2. ASSUME NEW c \in Conns, Accept(c) \/ MarkTraffic(c)
      PROVE  UNCHANGED Promise!vars
  BY <1>1, <1>2, Silent DEF Accept, MarkTraffic, TypeOK
<1>3. ASSUME NEW c \in Conns, RelayEnds(c)
      PROVE  Promise!Next
  <2>1. Promise!Drop(c)
    BY <1>1, <1>3 DEF RelayEnds, Promise!Drop, Phase, Open, At, TypeOK
  <2> QED BY <2>1 DEF Promise!Next
<1>4. ASSUME \/ Tick \/ Bind \/ BindFails \/ Shutdown \/ CloseListener
             \/ UnitExits \/ Finished \/ UNCHANGED vars
      PROVE  UNCHANGED Promise!vars
  <2>1. UNCHANGED <<pc, lifecycle>>
    BY <1>4 DEF Tick, Bind, BindFails, Shutdown, CloseListener, UnitExits,
                Finished, vars
  <2> QED BY <1>1, <2>1, Silent
<1> QED BY <1>2, <1>3, <1>4, HandlerRefines, IdleRefines DEF Next, ClientStep

\* The locks, channels and goroutines of the activator implement the unit that
\* OnDemandUnit describes.
THEOREM Refinement == Spec => ImplementsOnDemandUnit
<1>1. Init => Promise!Init
  BY DEF Init, Promise!Init, Phase, Open, At, Unopened, Served
<1>2. IInv /\ [Next]_vars => [Promise!Next]_(Promise!vars) BY StepRefines
<1> QED BY <1>1, <1>2, Inductive, PTL DEF Spec, ImplementsOnDemandUnit, Promise!Spec
==============================================================================
