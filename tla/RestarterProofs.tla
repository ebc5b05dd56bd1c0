--------------------------- MODULE RestarterProofs ----------------------------
(***************************************************************************)
(* What the goroutines of attemptRestart may rely on, for all units,       *)
(* dependents, goroutines and backoff shifts.                              *)
(*                                                                         *)
(* A goroutine keeps the tracker it looked up through its backoff and its  *)
(* restart and writes to it without looking it up again.  OwnTracked says  *)
(* when that write reaches the registered tracker.  Nothing limits a unit  *)
(* to one goroutine; that it has no more than one is the hypothesis of     *)
(* CooldownKept, and the run MCRestarterCooldown shows what happens        *)
(* without it.                                                             *)
(***************************************************************************)
EXTENDS Restarter, TLAPS

\* A unit is tracked exactly while its status is kept.
Together == \A u \in Units : tracker[u] = None <=> status[u] = None

\* Whoever runs has a unit to restart, and only a cascade has dependents to do.
HasTarget ==
  \A t \in Tasks : /\ pc[t] # "free" => target[t] \in Units
                   /\ pc[t] = "free" => target[t] = None
                   /\ pc[t] # "cascade" => todo[t] = {}

\* The tracker a goroutine writes to, if it is not stale, is the registered one.
OwnTracked ==
  \A t \in Tasks : pc[t] \in {"backoff", "restart"} /\ ~stale[t] => tracker[target[t]] # None

IInv == TypeOK /\ Together /\ HasTarget /\ OwnTracked

\* No unit has two goroutines.
OneAttempt ==
  \A t, r \in Tasks : pc[t] # "free" /\ target[t] = target[r] => t = r

\* A goroutine that has not restarted its unit yet waits for no cooldown: it
\* was started outside of one, and only its own failure begins another.
Calm ==
  \A t \in Tasks :
    /\ pc[t] = "lookup" \/ (pc[t] \in {"backoff", "restart"} /\ ~stale[t])
    /\ tracker[target[t]] # None
    => ~tracker[target[t]].cooling

----------------------------------------------------------------------------
\* What registering makes is a status and a tracker.
LEMMA Made ==
  /\ Unknown \in Statuses /\ Unknown # None
  /\ \A e \in BOOLEAN : /\ Fresh(e) \in Trackers /\ Fresh(e) # None
                        /\ Fresh(e).cooling = FALSE
<1>1. Unknown \in Statuses BY DEF Unknown, Statuses
<1>2. \A e \in BOOLEAN : Fresh(e) \in Trackers /\ Fresh(e).cooling = FALSE
  BY ShiftAssumption DEF ShiftAssumption, Fresh, Trackers
<1> QED BY <1>1, <1>2, NoneAssumption DEF NoneAssumption

\* What is done to a tracker leaves a tracker.
LEMMA Tracked ==
  ASSUME NEW r \in Trackers
  PROVE  /\ r # None
         /\ \A n \in 0..(MaxShift + 1) : /\ [r EXCEPT !.attempts = n] \in Trackers
                                         /\ [r EXCEPT !.attempts = n].cooling = r.cooling
         /\ \A b \in BOOLEAN : [r EXCEPT !.cooling = b] \in Trackers
                               /\ [r EXCEPT !.cooling = b].cooling = b
BY NoneAssumption DEF NoneAssumption, Trackers

\* What End and Orphan leave of the goroutines.
LEMMA Ended ==
  ASSUME TypeOK, NEW t \in Tasks, End(t)
  PROVE  /\ pc'[t] = "free" /\ target'[t] = None /\ todo'[t] = {}
         /\ \A r \in Tasks : r # t => /\ pc'[r] = pc[r] /\ target'[r] = target[r]
                                      /\ stale'[r] = stale[r] /\ todo'[r] = todo[r]
BY DEF End, TypeOK

LEMMA Orphaned ==
  ASSUME NEW u \in Units, Orphan(u)
  PROVE  /\ stale' \in [Tasks -> BOOLEAN]
         /\ \A t \in Tasks : ~stale'[t] =>
              ~stale[t] /\ ~(target[t] = u /\ pc[t] \in {"backoff", "restart"})
BY DEF Orphan

----------------------------------------------------------------------------
LEMMA TypeStep ==
  ASSUME TypeOK, HasTarget, OwnTracked, [Next]_vars
  PROVE  TypeOK'
<1> USE DEF taskVars
<1>1. ASSUME NEW u \in Units, NEW e \in BOOLEAN, Register(u, e) PROVE TypeOK'
  BY <1>1, Made, Orphaned DEF Register, TypeOK
<1>2. ASSUME NEW u \in Units, Unregister(u) PROVE TypeOK'
  BY <1>2, Orphaned DEF Unregister, TypeOK
<1>3. ASSUME NEW u \in Units, UpdateState(u) PROVE TypeOK'
  BY <1>3 DEF UpdateState, TypeOK, Statuses, Events
<1>4. ASSUME NEW u \in Units, NEW h \in {"healthy", "unhealthy"}, UpdateHealth(u, h)
      PROVE  TypeOK'
  BY <1>4 DEF UpdateHealth, TypeOK, Statuses, Events
<1>5. CASE Ignore
  <2>1. event.unit \in Units BY <1>5 DEF Ignore, TypeOK, Events
  <2> QED BY <1>5, <2>1, Made DEF Ignore, TypeOK
<1>6. ASSUME NEW t \in Tasks, Spawn(t) PROVE TypeOK'
  <2>1. event.unit \in Units BY <1>6 DEF Spawn, TypeOK, Events
  <2> QED BY <1>6, <2>1 DEF Spawn, TypeOK
<1>7. ASSUME NEW t \in Tasks, End(t) PROVE /\ pc' \in [Tasks -> {"free", "lookup", "backoff", "restart", "cascade"}]
                                          /\ target' \in [Tasks -> Units \cup {None}]
                                          /\ stale' \in [Tasks -> BOOLEAN]
                                          /\ todo' \in [Tasks -> SUBSET Units]
                                          /\ shift' \in [Tasks -> 0..MaxShift]
  BY <1>7, ShiftAssumption DEF End, TypeOK, ShiftAssumption
<1>8. ASSUME NEW t \in Tasks, NoTracker(t) \/ CascadeDone(t) PROVE TypeOK'
  BY <1>7, <1>8 DEF NoTracker, CascadeDone, TypeOK
<1>9. ASSUME NEW t \in Tasks, Lookup(t) PROVE TypeOK'
  <2> DEFINE u == target[t]
             n == tracker[u].attempts
             m == IF n > MaxShift THEN MaxShift + 1 ELSE n + 1
  <2>1. u \in Units /\ tracker[u] \in Trackers
    BY <1>9 DEF Lookup, HasTarget, TypeOK
  <2>2. m \in 0..(MaxShift + 1) /\ (IF n > MaxShift THEN MaxShift ELSE n) \in 0..MaxShift
    BY <2>1, ShiftAssumption DEF ShiftAssumption, Trackers
  <2>3. tracker' = [tracker EXCEPT ![u] = [tracker[u] EXCEPT !.attempts = m]]
    BY <1>9, <2>1 DEF Lookup, TypeOK
  <2>4. tracker' \in [Units -> Trackers \cup {None}]
    BY <2>1, <2>2, <2>3, Tracked DEF TypeOK
  <2>5. shift' \in [Tasks -> 0..MaxShift] BY <1>9, <2>2 DEF Lookup, TypeOK
  <2> QED BY <1>9, <2>4, <2>5 DEF Lookup, TypeOK
<1>10. ASSUME NEW t \in Tasks, Wake(t) \/ RestartPasses(t) PROVE TypeOK'
  BY <1>10 DEF Wake, RestartPasses, TypeOK, UnitStates
<1>11. ASSUME NEW t \in Tasks, RestartOk(t) PROVE TypeOK'
  BY <1>11 DEF RestartOk, TypeOK, UnitStates, DependentsOf
<1>12. ASSUME NEW t \in Tasks, RestartFails(t) PROVE TypeOK'
  <2>1. tracker' \in [Units -> Trackers \cup {None}]
    <3>1. CASE stale[t] BY <1>12, <3>1 DEF RestartFails, TypeOK
    <3>2. CASE ~stale[t]
      <4>1. target[t] \in Units /\ tracker[target[t]] \in Trackers
        BY <1>12, <3>2 DEF RestartFails, HasTarget, OwnTracked, TypeOK
      <4>2. tracker' = [tracker EXCEPT ![target[t]] = [tracker[target[t]] EXCEPT !.cooling = TRUE]]
        BY <1>12, <3>2, <4>1 DEF RestartFails, TypeOK
      <4> QED BY <4>1, <4>2, Tracked DEF TypeOK
    <3> QED BY <3>1, <3>2
  <2>2. unit' \in [Units -> UnitStates] BY <1>12 DEF RestartFails, TypeOK, UnitStates
  <2> QED BY <1>7, <1>12, <2>1, <2>2 DEF RestartFails, TypeOK
<1>13. ASSUME NEW t \in Tasks, NEW d \in Units, Cascade(t, d) PROVE TypeOK'
  BY <1>13 DEF Cascade, TypeOK, UnitStates
<1>14. ASSUME NEW u \in Units, CooldownEnds(u) PROVE TypeOK'
  <2>1. tracker[u] \in Trackers BY <1>14 DEF CooldownEnds, TypeOK
  <2>2. tracker' = [tracker EXCEPT ![u] = [tracker[u] EXCEPT !.cooling = FALSE]]
    BY <1>14, <2>1 DEF CooldownEnds, TypeOK
  <2>3. tracker' \in [Units -> Trackers \cup {None}] BY <2>1, <2>2, Tracked DEF TypeOK
  <2> QED BY <1>14, <2>3 DEF CooldownEnds, TypeOK
<1>15. ASSUME NEW u \in Units, UnitLeaves(u) PROVE TypeOK'
  BY <1>15 DEF UnitLeaves, TypeOK, UnitStates
<1>16. CASE UNCHANGED vars BY <1>16 DEF vars, TypeOK
<1> QED BY <1>1, <1>2, <1>3, <1>4, <1>5, <1>6, <1>8, <1>9, <1>10, <1>11, <1>12,
           <1>13, <1>14, <1>15, <1>16 DEF Next, TaskStep, EventStep

----------------------------------------------------------------------------
\* The three steps that write to a tracker leave one where there was one; only
\* a restart that fails begins a cooldown, for the unit it restarted.
LEMMA LookupWrites ==
  ASSUME TypeOK, HasTarget, NEW t \in Tasks, Lookup(t)
  PROVE  /\ \A u \in Units : tracker'[u] = None <=> tracker[u] = None
         /\ \A u \in Units : tracker[u] # None => tracker'[u].cooling = tracker[u].cooling
<1> DEFINE n == tracker[target[t]].attempts
           m == IF n > MaxShift THEN MaxShift + 1 ELSE n + 1
           r == [tracker[target[t]] EXCEPT !.attempts = m]
<1>1. target[t] \in Units /\ tracker[target[t]] \in Trackers /\ tracker[target[t]] # None
  BY DEF Lookup, HasTarget, TypeOK
<1>2. m \in 0..(MaxShift + 1) BY <1>1, ShiftAssumption DEF ShiftAssumption, Trackers
<1>3. \A u \in Units : tracker'[u] = IF u = target[t] THEN r ELSE tracker[u]
  BY <1>1 DEF Lookup, TypeOK
<1>4. r # None /\ r.cooling = tracker[target[t]].cooling BY <1>1, <1>2, Tracked
<1> HIDE DEF r
<1> QED BY <1>1, <1>3, <1>4

LEMMA FailureWrites ==
  ASSUME TypeOK, HasTarget, OwnTracked, NEW t \in Tasks, RestartFails(t)
  PROVE  /\ \A u \in Units : tracker'[u] = None <=> tracker[u] = None
         /\ \A u \in Units : u # target[t] => tracker'[u] = tracker[u]
<1> DEFINE r == [tracker[target[t]] EXCEPT !.cooling = TRUE]
<1>1. CASE stale[t] BY <1>1 DEF RestartFails
<1>2. CASE ~stale[t]
  <2>1. target[t] \in Units /\ tracker[target[t]] \in Trackers /\ tracker[target[t]] # None
    BY <1>2 DEF RestartFails, HasTarget, OwnTracked, TypeOK
  <2>2. \A u \in Units : tracker'[u] = IF u = target[t] THEN r ELSE tracker[u]
    BY <1>2, <2>1 DEF RestartFails, TypeOK
  <2>3. r # None BY <2>1, Tracked
  <2> HIDE DEF r
  <2> QED BY <2>1, <2>2, <2>3
<1> QED BY <1>1, <1>2

LEMMA CooldownWrites ==
  ASSUME TypeOK, NEW v \in Units, CooldownEnds(v)
  PROVE  /\ \A u \in Units : tracker'[u] = None <=> tracker[u] = None
         /\ \A u \in Units : tracker'[u] # None /\ tracker'[u].cooling => tracker[u].cooling
<1> DEFINE r == [tracker[v] EXCEPT !.cooling = FALSE]
<1>1. tracker[v] \in Trackers /\ tracker[v] # None BY DEF CooldownEnds, TypeOK
<1>2. \A u \in Units : tracker'[u] = IF u = v THEN r ELSE tracker[u]
  BY <1>1 DEF CooldownEnds, TypeOK
<1>3. r # None /\ r.cooling = FALSE BY <1>1, Tracked
<1> HIDE DEF r
<1> QED BY <1>1, <1>2, <1>3

LEMMA TogetherStep ==
  ASSUME TypeOK, HasTarget, OwnTracked, Together, [Next]_vars
  PROVE  Together'
<1> USE DEF taskVars
<1>1. ASSUME NEW u \in Units, NEW e \in BOOLEAN, Register(u, e) PROVE Together'
  BY <1>1, Made DEF Register, Together, TypeOK
<1>2. ASSUME NEW u \in Units, Unregister(u) PROVE Together'
  BY <1>2 DEF Unregister, Together, TypeOK
<1>3. ASSUME \A u \in Units : tracker'[u] = None <=> tracker[u] = None,
             \A u \in Units : status'[u] = None <=> status[u] = None
      PROVE  Together'
  BY <1>3 DEF Together
<1>4. ASSUME NEW u \in Units,
             UpdateState(u) \/ \E h \in {"healthy", "unhealthy"} : UpdateHealth(u, h)
      PROVE  Together'
  <2>1. status[u] \in Statuses /\ tracker' = tracker
    BY <1>4 DEF UpdateState, UpdateHealth, TypeOK
  <2>2. \E r \in Statuses : status' = [status EXCEPT ![u] = r]
    <3>1. CASE UpdateState(u)
      <4>1. [status[u] EXCEPT !.state = unit[u]] \in Statuses
        BY <2>1 DEF Statuses, TypeOK
      <4> QED BY <3>1, <4>1 DEF UpdateState, TypeOK
    <3>2. ASSUME NEW h \in {"healthy", "unhealthy"}, UpdateHealth(u, h)
          PROVE \E r \in Statuses : status' = [status EXCEPT ![u] = r]
      <4>1. [status[u] EXCEPT !.healthy = h] \in Statuses BY <2>1 DEF Statuses
      <4> QED BY <3>2, <4>1 DEF UpdateHealth, TypeOK
    <3> QED BY <1>4, <3>1, <3>2
  <2>3. \A r \in Statuses : r # None BY NoneAssumption DEF NoneAssumption
  <2> QED BY <1>3, <2>1, <2>2, <2>3 DEF TypeOK
<1>5. CASE Ignore
  <2>1. \A u \in Units : tracker'[u] = None <=> tracker[u] = None
    BY <1>5, Made DEF Ignore, TypeOK
  <2> QED BY <1>3, <1>5, <2>1 DEF Ignore
<1>6. ASSUME NEW t \in Tasks, Lookup(t) PROVE Together'
  BY <1>3, <1>6, LookupWrites DEF Lookup
<1>7. ASSUME NEW t \in Tasks, RestartFails(t) PROVE Together'
  BY <1>3, <1>7, FailureWrites DEF RestartFails
<1>8. ASSUME NEW u \in Units, CooldownEnds(u) PROVE Together'
  BY <1>3, <1>8, CooldownWrites DEF CooldownEnds
<1>9. ASSUME UNCHANGED <<tracker, status>> PROVE Together' BY <1>3, <1>9
<1> QED BY <1>1, <1>2, <1>4, <1>5, <1>6, <1>7, <1>8, <1>9
        DEF Next, TaskStep, EventStep, NoTracker, Wake, RestartOk, CascadeDone, Cascade,
            RestartPasses, Spawn, UnitLeaves, vars

LEMMA TargetStep ==
  ASSUME TypeOK, HasTarget, [Next]_vars
  PROVE  HasTarget'
<1> USE DEF taskVars
<1>1. ASSUME UNCHANGED <<pc, target, todo>> PROVE HasTarget' BY <1>1 DEF HasTarget
<1>2. ASSUME NEW t \in Tasks, Spawn(t) PROVE HasTarget'
  <2>1. event.unit \in Units BY <1>2 DEF Spawn, TypeOK, Events
  <2> QED BY <1>2, <2>1 DEF Spawn, HasTarget, TypeOK
<1>3. ASSUME NEW t \in Tasks, End(t) PROVE HasTarget'
  BY <1>3, Ended DEF HasTarget
<1>4. ASSUME NEW t \in Tasks, Lookup(t) \/ Wake(t) \/ RestartOk(t) PROVE HasTarget'
  BY <1>4 DEF Lookup, Wake, RestartOk, HasTarget, TypeOK
<1>5. ASSUME NEW t \in Tasks, NEW d \in Units, Cascade(t, d) PROVE HasTarget'
  BY <1>5 DEF Cascade, HasTarget, TypeOK
<1> QED BY <1>1, <1>2, <1>3, <1>4, <1>5
        DEF Next, TaskStep, EventStep, NoTracker, RestartFails, CascadeDone, RestartPasses,
            Register, Unregister, UpdateState, UpdateHealth, Ignore, CooldownEnds,
            UnitLeaves, vars

LEMMA OwnTrackedStep ==
  ASSUME TypeOK, HasTarget, OwnTracked, [Next]_vars
  PROVE  OwnTracked'
<1> USE DEF taskVars
<1>1. ASSUME NEW u \in Units, NEW e \in BOOLEAN, Register(u, e) PROVE OwnTracked'
  BY <1>1, Orphaned DEF Register, OwnTracked, HasTarget, TypeOK
<1>2. ASSUME NEW u \in Units, Unregister(u) PROVE OwnTracked'
  BY <1>2, Orphaned DEF Unregister, OwnTracked, HasTarget, TypeOK
<1>3. ASSUME UNCHANGED <<pc, target, stale>>,
             \A u \in Units : tracker'[u] = None => tracker[u] = None
      PROVE  OwnTracked'
  BY <1>3 DEF OwnTracked, HasTarget
<1>4. CASE Ignore
  BY <1>3, <1>4, Made DEF Ignore, TypeOK
<1>5. ASSUME NEW t \in Tasks, Spawn(t) PROVE OwnTracked'
  BY <1>5 DEF Spawn, OwnTracked, TypeOK
<1>6. ASSUME NEW t \in Tasks, Lookup(t) PROVE OwnTracked'
  BY <1>6, LookupWrites DEF Lookup, OwnTracked, HasTarget, TypeOK
<1>7. ASSUME NEW t \in Tasks, Wake(t) \/ RestartOk(t) PROVE OwnTracked'
  BY <1>7 DEF Wake, RestartOk, OwnTracked, TypeOK
<1>8. ASSUME NEW t \in Tasks, RestartFails(t) PROVE OwnTracked'
  <2>1. \A r \in Tasks : pc'[r] # "free" =>
          pc'[r] = pc[r] /\ target'[r] = target[r] /\ stale'[r] = stale[r]
    BY <1>8, Ended DEF RestartFails
  <2>2. \A u \in Units : tracker'[u] = None <=> tracker[u] = None BY <1>8, FailureWrites
  <2> QED BY <2>1, <2>2 DEF OwnTracked, HasTarget
<1>9. ASSUME NEW t \in Tasks, NoTracker(t) \/ CascadeDone(t) PROVE OwnTracked'
  BY <1>9, Ended DEF NoTracker, CascadeDone, OwnTracked
<1>10. ASSUME NEW u \in Units, CooldownEnds(u) PROVE OwnTracked'
  BY <1>3, <1>10, CooldownWrites DEF CooldownEnds
<1>11. ASSUME UNCHANGED <<pc, target, stale, tracker>> PROVE OwnTracked' BY <1>3, <1>11
<1> QED BY <1>1, <1>2, <1>4, <1>5, <1>6, <1>7, <1>8, <1>9, <1>10, <1>11
        DEF Next, TaskStep, EventStep, Cascade, RestartPasses, UpdateState, UpdateHealth,
            UnitLeaves, vars

LEMMA InitIInv == ASSUME Init PROVE IInv
BY ShiftAssumption DEF ShiftAssumption, Init, IInv, TypeOK, UnitStates, Together, HasTarget,
       OwnTracked

LEMMA NextIInv == ASSUME IInv, [Next]_vars PROVE IInv'
BY TypeStep, TogetherStep, TargetStep, OwnTrackedStep DEF IInv

----------------------------------------------------------------------------
\* Without a second goroutine for its unit, nobody else can begin a cooldown
\* for a goroutine that has yet to restart.
LEMMA CalmStep ==
  ASSUME IInv, OneAttempt, Calm, [Next]_vars
  PROVE  Calm'
<1> USE DEF taskVars, IInv
<1>1. ASSUME UNCHANGED <<pc, target>>,
             \A t \in Tasks : stale[t] => stale'[t],
             \A u \in Units : tracker'[u] # None /\ tracker'[u].cooling =>
               tracker[u] # None /\ tracker[u].cooling
      PROVE  Calm'
  BY <1>1 DEF Calm, HasTarget, TypeOK
<1>2. ASSUME NEW u \in Units, NEW e \in BOOLEAN, Register(u, e) PROVE Calm'
  BY <1>1, <1>2, Made, Orphaned DEF Register, TypeOK
<1>3. ASSUME NEW u \in Units, Unregister(u) PROVE Calm'
  BY <1>1, <1>3, Orphaned DEF Unregister, TypeOK
<1>4. CASE Ignore
  BY <1>1, <1>4, Made DEF Ignore, TypeOK
<1>5. ASSUME NEW t \in Tasks, Spawn(t) PROVE Calm'
  BY <1>5 DEF Spawn, MustRestart, Calm, TypeOK
<1>6. ASSUME NEW t \in Tasks, Lookup(t) PROVE Calm'
  BY <1>6, LookupWrites DEF Lookup, Calm, HasTarget, TypeOK
<1>7. ASSUME NEW t \in Tasks, Wake(t) \/ RestartOk(t) PROVE Calm'
  BY <1>7 DEF Wake, RestartOk, Calm, TypeOK
<1>8. ASSUME NEW t \in Tasks, RestartFails(t) PROVE Calm'
  <2>1. \A r \in Tasks : pc'[r] # "free" => r # t /\ pc'[r] = pc[r] /\ target'[r] = target[r]
    BY <1>8, Ended DEF RestartFails
  <2>2. \A r \in Tasks : r # t /\ pc[r] # "free" => target[r] # target[t]
    BY <1>8 DEF RestartFails, OneAttempt
  <2> QED BY <1>8, <2>1, <2>2, Ended, FailureWrites DEF RestartFails, Calm, HasTarget
<1>9. ASSUME NEW t \in Tasks, NoTracker(t) \/ CascadeDone(t) PROVE Calm'
  BY <1>9, Ended DEF NoTracker, CascadeDone, Calm
<1>10. ASSUME NEW u \in Units, CooldownEnds(u) PROVE Calm'
  BY <1>1, <1>10, CooldownWrites DEF CooldownEnds
<1>11. ASSUME UNCHANGED <<pc, target, stale, tracker>> PROVE Calm' BY <1>1, <1>11
<1> QED BY <1>2, <1>3, <1>4, <1>5, <1>6, <1>7, <1>8, <1>9, <1>10, <1>11
        DEF Next, TaskStep, EventStep, Cascade, RestartPasses, UpdateState, UpdateHealth,
            UnitLeaves, vars

----------------------------------------------------------------------------
(* Theorems *)

\* Who holds which tracker, and for which unit, holds together through every
\* registration, event, attempt and cooldown.
THEOREM Inductive == Spec => []IInv
<1>1. Init => IInv BY InitIInv
<1>2. IInv /\ [Next]_vars => IInv' BY NextIInv
<1> QED BY <1>1, <1>2, PTL DEF Spec

\* Every variable keeps its type.  In particular the write that begins a
\* cooldown finds a tracker, and the shift never exceeds maxBackoffShift.
THEOREM TypeCorrect == Spec => []TypeOK
<1>1. IInv => TypeOK BY DEF IInv
<1> QED BY Inductive, <1>1, PTL

\* As long as no unit has two goroutines of attemptRestart, no restart of the
\* registered tracker begins in its cooldown: README.md:60 holds of each
\* goroutine for itself, and fails only between two of them.
THEOREM CooldownKept == Spec /\ []OneAttempt => NoRestartInCooldown
<1>1. Init => Calm BY DEF Init, Calm
<1>2. IInv /\ OneAttempt /\ Calm /\ [Next]_vars => Calm' BY CalmStep
<1>3. IInv /\ Calm /\ [Next]_vars =>
        [\A t \in Tasks : pc[t] = "backoff" /\ pc'[t] = "restart" /\ ~stale[t]
           => ~tracker[target[t]].cooling]_vars
  BY DEF IInv, OwnTracked, Calm
<1> QED BY Inductive, <1>1, <1>2, <1>3, PTL DEF Spec, NoRestartInCooldown

\* A restart that succeeds is one of a registered unit, or of an attempt whose
\* registration is over: OnlyRegisteredRestarted fails for no other reason.
OnlyStaleUnregistered ==
  [][\A t \in Tasks : pc[t] = "restart" /\ pc'[t] = "cascade"
       => tracker[target[t]] # None \/ stale[t]]_vars

\* An attempt looks at its tracker before the backoff only; still, one that
\* restarts an unregistered unit is always left over from a registration that
\* was there when it began.
THEOREM UnregisteredByStale == Spec => OnlyStaleUnregistered
<1>1. IInv => [\A t \in Tasks : pc[t] = "restart" /\ pc'[t] = "cascade"
                 => tracker[target[t]] # None \/ stale[t]]_vars
  BY DEF IInv, OwnTracked
<1> QED BY Inductive, <1>1, PTL DEF OnlyStaleUnregistered
===============================================================================
