----------------------------- MODULE DaemonProofs -----------------------------
(***************************************************************************)
(* What the unit manager guarantees, for any goroutines and any units;     *)
(* that the daemon uses it as its specification allows, so that the        *)
(* daemon has these guarantees too; and what config.Load, of which a       *)
(* reload waits for the answer, says of a configuration, with the order    *)
(* that DependencyOrder makes of an accepted one.                          *)
(*                                                                         *)
(* The argument for the first two rests on HolderInside: under DBusManager *)
(* whoever is past the mutex holds it, so at most one goroutine of the     *)
(* daemon has a job, and by JobsAwaited it is that goroutine's own until   *)
(* systemd ends it.  The one for the third rests on Walk: each call of     *)
(* visit was made by the one before it, and what a loop has passed is      *)
(* finished or being visited by its latest call.  So a name met on the     *)
(* stack closes a cycle, and a finished one is on none.                    *)
(***************************************************************************)
EXTENDS Daemon, Dependencies, SequenceTheorems, NaturalsInduction, WellFoundedInduction, TLAPS

\* Only DBusManager makes anyone wait for the mutex.
LockersSerial == \A g \in Callers : At(g, "lock") => Serial

ManagerInv == /\ ManagerTypeOK
              /\ JobsAwaited
              /\ HolderInside
              /\ LockersSerial

OwnJobsKept ==
  Serial => \A u \in Units :
              job[u] \in Callers /\ job'[u] # job[u] => job'[u] \in {None, Foreign}

----------------------------------------------------------------------------
\* What a call that is under way looks like.
LEMMA CallShape ==
  ASSUME ManagerTypeOK, NEW g \in Callers, ~At(g, "idle")
  PROVE  /\ call[g] \in [at : {"lock", "request", "job"}, op : {"read", "job"}, unit : Units]
         /\ call[g].unit \in Units
BY DEF ManagerTypeOK, Calls, At, NoCall

LEMMA ManagerInitial == ManagerInit => ManagerInv
<1> SUFFICES ASSUME ManagerInit PROVE ManagerInv
  OBVIOUS
<1> USE DEF ManagerInit
<1>1. \A g \in Callers : call[g] = NoCall
  OBVIOUS
<1>2. ManagerTypeOK
  BY ManagersAssumption DEF ManagerTypeOK, Calls, DBus
<1>3. JobsAwaited /\ LockersSerial
  BY <1>1, OwnersAssumption DEF JobsAwaited, LockersSerial, At, NoCall
<1>4. HolderInside
  BY <1>1, ManagersAssumption, OwnersAssumption DEF HolderInside, At, NoCall, Serial, DBus
<1> QED BY <1>2, <1>3, <1>4 DEF ManagerInv

\* A call that ends gives back the mutex, and takes its job with it: only
\* CtlManager leaves one behind.
LEMMA FinishKeeps ==
  ASSUME ManagerInv, NEW g \in Callers, ~At(g, "idle"), ~At(g, "lock"), Finish(g),
         job' \in [Units -> Callers \cup {None, Foreign, Orphan}],
         \A u \in Units : \/ job'[u] = job[u] /\ job[u] # g
                          \/ job[u] = g /\ job'[u] = None
                          \/ job[u] = g /\ job'[u] = Orphan /\ ~Serial
  PROVE  ManagerInv' /\ OwnJobsKept
<1> USE OwnersAssumption DEF ManagerInv
<1>1. ManagerTypeOK'
  BY DEF ManagerTypeOK, Finish, Calls
<1>2. call' = [call EXCEPT ![g] = NoCall] /\ Serial' = Serial
  BY DEF Finish, Serial
<1>3. \A h \in Callers : call'[h] = IF h = g THEN NoCall ELSE call[h]
  BY <1>2 DEF ManagerTypeOK
<1>4. \A u \in Units : job'[u] # g /\ \A h \in Callers \ {g} : job'[u] = h <=> job[u] = h
  OBVIOUS
<1>5. JobsAwaited'
  BY <1>3, <1>4 DEF JobsAwaited, At, NoCall
<1>6. HolderInside'
  <2> SUFFICES ASSUME Serial', NEW h \in Callers
               PROVE  (At(h, "request") \/ At(h, "job"))' <=> mu' = h
    BY DEF HolderInside
  <2>1. mu' = None BY <1>2 DEF Finish
  <2>2. mu = g BY <1>2 DEF HolderInside, ManagerTypeOK, Calls, At, NoCall
  <2> QED BY <1>2, <1>3, <2>1, <2>2 DEF HolderInside, At, NoCall
<1>7. LockersSerial'
  BY <1>2, <1>3 DEF LockersSerial, At, NoCall
<1>8. OwnJobsKept
  BY DEF OwnJobsKept
<1> QED BY <1>1, <1>5, <1>6, <1>7, <1>8

\* Every step of the manager keeps the invariant and replaces no job of the
\* daemon's own.
LEMMA ManagerStep ==
  ASSUME ManagerInv, [ManagerNext]_manager
  PROVE  ManagerInv' /\ OwnJobsKept
<1> USE OwnersAssumption DEF ManagerInv
<1>1. ASSUME NEW g \in Callers, NEW op \in {"read", "job"}, NEW u \in Units, Begin(g, op, u)
      PROVE  ManagerInv' /\ OwnJobsKept
  <2> DEFINE new == [at |-> IF Serial THEN "lock" ELSE "request", op |-> op, unit |-> u]
  <2>1. \A h \in Callers : call'[h] = IF h = g THEN new ELSE call[h]
    BY <1>1 DEF Begin, ManagerTypeOK
  <2>2. ManagerTypeOK'
    BY <1>1 DEF Begin, ManagerTypeOK, Calls
  <2>3. JobsAwaited'
    BY <1>1, <2>1 DEF Begin, Idle, JobsAwaited, At
  <2>4. HolderInside' /\ LockersSerial'
    BY <1>1, <2>1 DEF Begin, Idle, HolderInside, LockersSerial, At, Serial
  <2> QED BY <1>1, <2>2, <2>3, <2>4 DEF Begin, OwnJobsKept
<1>2. ASSUME NEW g \in Callers, Acquire(g)
      PROVE  ManagerInv' /\ OwnJobsKept
  <2>1. \A h \in Callers : call'[h] = IF h = g THEN [call[g] EXCEPT !.at = "request"] ELSE call[h]
    BY <1>2 DEF Acquire, Goto, ManagerTypeOK
  <2>2. Serial /\ Serial'
    BY <1>2 DEF Acquire, Serial
  <2>3. ManagerTypeOK'
    BY <1>2 DEF Acquire, Goto, At, ManagerTypeOK, Calls, NoCall
  <2>4. \A h \in Callers : call[h] \in Calls
    BY DEF ManagerTypeOK
  <2>5. At(g, "request")' /\ ~At(g, "job")' /\ \A h \in Callers \ {g} : call'[h] = call[h]
    BY <1>2, <2>1, <2>4 DEF Acquire, At, Calls, NoCall
  <2>6. JobsAwaited'
    BY <1>2, <2>5 DEF Acquire, JobsAwaited, At
  <2>7. HolderInside' /\ LockersSerial'
    BY <1>2, <2>2, <2>5 DEF Acquire, HolderInside, LockersSerial, At
  <2> QED BY <1>2, <2>3, <2>6, <2>7 DEF Acquire, OwnJobsKept
<1>3. ASSUME NEW g \in Callers, Read(g) \/ Refused(g)
      PROVE  ManagerInv' /\ OwnJobsKept
  <2>1. At(g, "request") /\ Finish(g) /\ job' = job
    BY <1>3 DEF Read, Refused
  <2>2. \A u \in Units : job[u] # g
    BY <2>1 DEF JobsAwaited, At
  <2>3. ~At(g, "idle") /\ ~At(g, "lock")
    BY <2>1 DEF At
  <2> QED BY <2>1, <2>2, <2>3, FinishKeeps DEF ManagerTypeOK
<1>4. ASSUME NEW g \in Callers, JobEnds(g) \/ GiveUp(g)
      PROVE  ManagerInv' /\ OwnJobsKept
  <2> DEFINE u == call[g].unit
  <2>1. At(g, "job") /\ Finish(g)
    BY <1>4 DEF JobEnds, GiveUp
  <2>2. ~At(g, "idle") /\ ~At(g, "lock")
    BY <2>1 DEF At
  <2>3. u \in Units
    BY <2>2, CallShape
  <2>4. \A v \in Units : job[v] = g <=> v = u
    BY <2>1 DEF JobsAwaited
  <2>5. \/ job' = [job EXCEPT ![u] = None]
        \/ job' = [job EXCEPT ![u] = Orphan] /\ ~Serial
    BY <1>4 DEF JobEnds, GiveUp
  <2>6. /\ job' \in [Units -> Callers \cup {None, Foreign, Orphan}]
        /\ \A v \in Units : \/ job'[v] = job[v] /\ job[v] # g
                            \/ job[v] = g /\ job'[v] = None
                            \/ job[v] = g /\ job'[v] = Orphan /\ ~Serial
    BY <2>3, <2>4, <2>5 DEF ManagerTypeOK
  <2> QED BY <2>1, <2>2, <2>6, FinishKeeps
<1>5. ASSUME NEW g \in Callers, Enqueue(g)
      PROVE  ManagerInv' /\ OwnJobsKept
  <2> DEFINE u == call[g].unit
  <2>1. At(g, "request") /\ call[g].op = "job" /\ mu' = mu /\ job' = [job EXCEPT ![u] = g]
    BY <1>5 DEF Enqueue
  <2>2. u \in Units /\ call[g] \in [at : {"lock", "request", "job"}, op : {"read", "job"}, unit : Units]
    BY <2>1, CallShape DEF At
  <2>3. \A h \in Callers : call'[h] = IF h = g THEN [call[g] EXCEPT !.at = "job"]
                                    ELSE IF job[u] = h THEN NoCall ELSE call[h]
    BY <1>5 DEF Enqueue, Replaced
  <2>4. \A v \in Units : job'[v] = IF v = u THEN g ELSE job[v]
    BY <2>1 DEF ManagerTypeOK
  <2>5. At(g, "job")' /\ call'[g].unit = u
    BY <2>2, <2>3 DEF At
  <2>6. ManagerTypeOK'
    <3>1. call' \in [Callers -> Calls]
      <4>1. call' = [h \in Callers |-> call'[h]]
        BY <1>5 DEF Enqueue
      <4>2. \A h \in Callers : call'[h] \in Calls
        BY <2>2, <2>3 DEF ManagerTypeOK, Calls
      <4> QED BY <4>1, <4>2
    <3> QED BY <2>1, <3>1 DEF ManagerTypeOK
  <2>7. JobsAwaited'
    <3> SUFFICES ASSUME NEW h \in Callers, NEW v \in Units
                 PROVE  job'[v] = h <=> (At(h, "job")' /\ call'[h].unit = v)
      BY DEF JobsAwaited, At
    <3>1. CASE h = g
      <4>1. job'[v] = g <=> v = u
        BY <2>1, <2>2, <2>4 DEF JobsAwaited, At
      <4>2. At(g, "job")' /\ (call'[g].unit = v <=> v = u)
        BY <2>5
      <4> QED BY <3>1, <4>1, <4>2 DEF At
    <3>2. CASE h # g
      BY <3>2, <2>2, <2>3, <2>4 DEF JobsAwaited, At, NoCall
    <3> QED BY <3>1, <3>2
  <2>8. Serial => \A h \in Callers \ {g} : ~At(h, "job") /\ ~At(h, "request")
    BY <2>1 DEF HolderInside, At
  <2>9. Serial' = Serial
    BY <2>1 DEF Serial
  <2>10. HolderInside' /\ LockersSerial'
    BY <2>1, <2>3, <2>5, <2>8, <2>9 DEF HolderInside, LockersSerial, At, NoCall
  <2>11. OwnJobsKept
    <3> SUFFICES ASSUME Serial, job[u] \in Callers PROVE FALSE
      BY <2>4 DEF OwnJobsKept
    <3> QED BY <2>1, <2>2, <2>8 DEF JobsAwaited, At
  <2> QED BY <2>6, <2>7, <2>10, <2>11
<1>6. ASSUME NEW u \in Units, ForeignJob(u)
      PROVE  ManagerInv' /\ OwnJobsKept
  <2>1. job' = [job EXCEPT ![u] = Foreign] /\ job[u] # Foreign
    BY <1>6 DEF ForeignJob
  <2>2. \A h \in Callers : call'[h] = IF job[u] = h THEN NoCall ELSE call[h]
    BY <1>6 DEF ForeignJob, Replaced
  <2>3. mu' = IF mu \in Callers /\ job[u] = mu THEN None ELSE mu
    BY <1>6 DEF ForeignJob, Replaced
  <2>4. \A v \in Units : job'[v] = IF v = u THEN Foreign ELSE job[v]
    BY <2>1 DEF ManagerTypeOK
  <2>5. ManagerTypeOK'
    <3>1. call' \in [Callers -> Calls]
      BY <1>6 DEF ForeignJob, ManagerTypeOK, Calls
    <3> QED BY <2>1, <2>3, <3>1 DEF ManagerTypeOK
  <2>6. JobsAwaited'
    BY <2>2, <2>4 DEF JobsAwaited, At, NoCall
  <2>7. Serial' = Serial
    BY <2>3 DEF Serial
  <2>8. HolderInside'
    <3> SUFFICES ASSUME Serial, NEW h \in Callers
                 PROVE  (At(h, "request") \/ At(h, "job"))' <=> mu' = h
      BY <2>7 DEF HolderInside
    <3>1. CASE job[u] = h
      BY <3>1, <2>2, <2>3 DEF HolderInside, JobsAwaited, At, NoCall
    <3>2. CASE job[u] # h
      BY <3>2, <2>2, <2>3 DEF HolderInside, At
    <3> QED BY <3>1, <3>2
  <2>9. LockersSerial'
    BY <2>2, <2>7 DEF LockersSerial, At, NoCall
  <2>10. OwnJobsKept
    BY <2>4 DEF OwnJobsKept
  <2> QED BY <2>5, <2>6, <2>8, <2>9, <2>10
<1>7. ASSUME NEW u \in Units, LooseJobEnds(u)
      PROVE  ManagerInv' /\ OwnJobsKept
  <2>1. job[u] \notin Callers /\ call' = call /\ mu' = mu /\ job' = [job EXCEPT ![u] = None]
    BY <1>7 DEF LooseJobEnds
  <2> QED BY <2>1 DEF ManagerTypeOK, JobsAwaited, HolderInside, LockersSerial, At, Serial, OwnJobsKept
<1>8. CASE UNCHANGED manager
  BY <1>8 DEF manager, ManagerTypeOK, JobsAwaited, HolderInside, LockersSerial, At, Serial, OwnJobsKept
<1> QED BY <1>1, <1>2, <1>3, <1>4, <1>5, <1>6, <1>7, <1>8
        DEF ManagerNext, CallStep, OutsideStep

----------------------------------------------------------------------------
\* The manager's variables keep their types.
THEOREM ManagerTypeCorrect == ManagerSpec => []ManagerTypeOK
<1>1. ManagerInv /\ [ManagerNext]_manager => ManagerInv'
  BY ManagerStep
<1>2. ManagerInv => ManagerTypeOK
  BY DEF ManagerInv
<1> QED BY ManagerInitial, <1>1, <1>2, PTL DEF ManagerSpec

\* A job that is a goroutine's own is waited for by it, and nothing else is
\* waited for.
THEOREM JobsAwaitedCorrect == ManagerSpec => []JobsAwaited
<1>1. ManagerInv /\ [ManagerNext]_manager => ManagerInv'
  BY ManagerStep
<1>2. ManagerInv => JobsAwaited
  BY DEF ManagerInv
<1> QED BY ManagerInitial, <1>1, <1>2, PTL DEF ManagerSpec

\* Under DBusManager no operation of the daemon makes systemd cancel the job of
\* another, however many goroutines call it.
THEOREM OwnJobsCorrect == ManagerSpec => OwnJobsNotReplaced
<1>1. ManagerInv /\ [ManagerNext]_manager => ManagerInv'
  BY ManagerStep
<1>2. ManagerInv /\ [ManagerNext]_manager => [OwnJobsKept]_manager
  BY ManagerStep
<1>3. ManagerSpec => [][OwnJobsKept]_manager
  BY ManagerInitial, <1>1, <1>2, PTL DEF ManagerSpec
<1> QED BY <1>3, PTL DEF OwnJobsNotReplaced, OwnJobsKept

----------------------------------------------------------------------------
\* The daemon's own variables keep their types, and its steps are steps of the
\* manager.
DaemonTypeOK == /\ todo \in [Units -> 0..2]
                /\ scan \subseteq Timers /\ due \in Timers \cup {None}

RestOK == /\ phase \in {"boot", "ready", "select", "load", "register", "stopped", "hungup"}
          /\ sigCh \in {None, "hup", "term"}
          /\ told \in {None, "READY", "RELOADING", "STOPPING"}
          /\ cancelled \in BOOLEAN /\ asked \in BOOLEAN
          /\ overdue \in [Timers -> BOOLEAN]
          /\ probe \in [Probes -> {"none", "open", "dropped"}]

LEMMA DaemonInitial == Init => ManagerInit /\ DaemonTypeOK /\ RestOK
<1> SUFFICES ASSUME Init PROVE DaemonTypeOK /\ RestOK /\ ManagerInit
  OBVIOUS
<1>1. AllUnits \in [Units -> 0..2]
  BY DEF AllUnits, CallsPerUnit
<1>2. DaemonTypeOK
  BY <1>1 DEF Init, DaemonTypeOK
<1>3. RestOK
  BY DEF Init, RestOK
<1> QED BY <1>2, <1>3 DEF Init

LEMMA DaemonStep ==
  ASSUME ManagerTypeOK, DaemonTypeOK, RestOK, [Next]_vars
  PROVE  [ManagerNext]_manager /\ DaemonTypeOK' /\ RestOK'
<1> USE DaemonAssumption
<1> USE DEF DaemonTypeOK, RestOK, main, notif, timer, rest
<1>1. ASSUME MainStep
      PROVE  [ManagerNext]_manager /\ DaemonTypeOK' /\ RestOK'
  <2>1. ASSUME NEW u \in Units, RegisterUnit(u)
        PROVE  [ManagerNext]_manager /\ DaemonTypeOK' /\ RestOK'
    <3>1. ManagerNext
      BY <2>1 DEF RegisterUnit, ManagerNext
    <3> QED BY <2>1, <3>1 DEF RegisterUnit
  <2>2. ASSUME BootDone \/ Notify \/ TakeHup \/ TakeTerm \/ LoadFails \/ LoadOk \/ ReloadDone
        PROVE  [ManagerNext]_manager /\ DaemonTypeOK' /\ RestOK'
    <3>1. UNCHANGED <<manager, timer, overdue, probe, asked>>
      BY <2>2 DEF BootDone, Notify, TakeHup, TakeTerm, LoadFails, LoadOk, ReloadDone
    <3>2. AllUnits \in [Units -> 0..2]
      BY DEF AllUnits, CallsPerUnit
    <3>3. todo' \in [Units -> 0..2]
      BY <2>2, <3>2 DEF BootDone, Notify, TakeHup, TakeTerm, LoadFails, LoadOk, ReloadDone
    <3>4. RestOK'
      BY <2>2, <3>1 DEF BootDone, Notify, TakeHup, TakeTerm, LoadFails, LoadOk, ReloadDone
    <3> QED BY <3>1, <3>3, <3>4
  <2> QED BY <1>1, <2>1, <2>2 DEF MainStep
<1>2. ASSUME BootFails \/ Exit \/ (\E s \in Signals : Signal(s))
      PROVE  [ManagerNext]_manager /\ DaemonTypeOK' /\ RestOK'
  BY <1>2 DEF BootFails, Exit, Signal
<1>3. ASSUME TimerStep \/ TimerNotRead \/ \E t \in Timers : TimerRead(t)
      PROVE  [ManagerNext]_manager /\ DaemonTypeOK' /\ RestOK'
  <2>1. CASE Tick BY <2>1 DEF Tick
  <2>2. CASE RestartTimer
    <3>1. ManagerNext BY <2>2 DEF RestartTimer, ManagerNext
    <3> QED BY <2>2, <3>1 DEF RestartTimer
  <2>3. ASSUME NEW t \in Timers, ReadTimer(t)
        PROVE  [ManagerNext]_manager /\ DaemonTypeOK' /\ RestOK'
    <3>1. ManagerNext BY <2>3 DEF ReadTimer, ManagerNext
    <3> QED BY <2>3, <3>1 DEF ReadTimer
  <2>4. ASSUME TimerNotRead \/ \E t \in Timers : TimerRead(t)
        PROVE  [ManagerNext]_manager /\ DaemonTypeOK' /\ RestOK'
    <3>1. ManagerNext BY <2>4 DEF TimerNotRead, TimerRead, ManagerNext, CallStep
    <3> QED BY <2>4, <3>1 DEF TimerNotRead, TimerRead
  <2> QED BY <1>3, <2>1, <2>2, <2>3, <2>4 DEF TimerStep
<1>4. ASSUME NEW t \in Timers, TimerLate(t) \/ TimerFires(t)
      PROVE  [ManagerNext]_manager /\ DaemonTypeOK' /\ RestOK'
  BY <1>4 DEF TimerLate, TimerFires
<1>5. ASSUME \/ \E w \in Workers, u \in Units : WorkerCalls(w, u)
             \/ MainReads
             \/ \E g \in Callers : Locks(g) \/ Asks(g) \/ JobDone(g) \/ GivesUp(g)
             \/ \E u \in Units : Outside(u)
      PROVE  [ManagerNext]_manager /\ DaemonTypeOK' /\ RestOK'
  <2>1. ManagerNext
    BY <1>5 DEF WorkerCalls, MainReads, Locks, Asks, JobDone, GivesUp, Outside,
                ManagerNext, CallStep
  <2>2. UNCHANGED rest
    BY <1>5 DEF WorkerCalls, MainReads, Locks, Asks, JobDone, GivesUp, Outside
  <2> QED BY <2>1, <2>2
<1>6. ASSUME NEW r \in Probes, Request(r) \/ Respond(r)
      PROVE  [ManagerNext]_manager /\ DaemonTypeOK' /\ RestOK'
  BY <1>6 DEF Request, Respond
<1>7. CASE Finished \/ UNCHANGED vars
  BY <1>7 DEF Finished, vars
<1> QED BY <1>1, <1>2, <1>3, <1>4, <1>5, <1>6, <1>7 DEF Next

\* The daemon's variables keep their types.
THEOREM TypeCorrect == Spec => []TypeOK
<1> DEFINE I == ManagerInv /\ DaemonTypeOK /\ RestOK
<1>1. Init => I
  BY ManagerInitial, DaemonInitial
<1>2. I /\ [Next]_vars => I'
  BY ManagerStep, DaemonStep DEF ManagerInv
<1>3. I => TypeOK
  BY DEF ManagerInv, DaemonTypeOK, RestOK, TypeOK
<1> QED BY <1>1, <1>2, <1>3, PTL DEF Spec

\* Whatever its goroutines do, the daemon uses the manager as ManagerSpec says.
THEOREM UsesManager == Spec => ManagerSpec
<1> DEFINE I == ManagerInv /\ DaemonTypeOK /\ RestOK
<1>1. Init => I /\ ManagerInit
  BY ManagerInitial, DaemonInitial
<1>2. I /\ [Next]_vars => I' /\ [ManagerNext]_manager
  BY ManagerStep, DaemonStep DEF ManagerInv
<1> QED BY <1>1, <1>2, PTL DEF Spec, ManagerSpec

\* Hence no restart attempt, timer restart or request on the control socket
\* makes systemd cancel a job that another of them waits for.
THEOREM DaemonKeepsItsJobs == Spec => OwnJobsNotReplaced
BY UsesManager, OwnJobsCorrect

----------------------------------------------------------------------------
(* The depends_on relation: config.Load and DependencyOrder.                    *)

\* The edges the traversals follow.
Followed ==
  {e \in BareNames \X BareNames : \E j \in DOMAIN BareDeps(e[1]) : BareDeps(e[1])[j] = e[2]}

\* The calls st of visit, with the loop over the units at p, when D is finished:
\* each call was made by the one before it, no name has two, and what a loop is
\* past is finished, or being visited by its latest call.
CallOf(st, i, D) ==
  /\ st[i].name \notin D
  /\ st[i].next <= Len(BareDeps(st[i].name)) + 1
  /\ \A j \in 1..(st[i].next - 1) :
       \/ BareDeps(st[i].name)[j] \in D
       \/ i < Len(st) /\ BareDeps(st[i].name)[j] = st[i + 1].name
  /\ i < Len(st) => \E j \in DOMAIN BareDeps(st[i].name) :
                       BareDeps(st[i].name)[j] = st[i + 1].name

Roots(st, p, D) ==
  \A k \in 1..(p - 1) : \/ units[k].unit.name \in D
                        \/ st # <<>> /\ units[k].unit.name = st[1].name

Walk(st, p, D) ==
  /\ \A i \in DOMAIN st : CallOf(st, i, D)
  /\ \A i, j \in DOMAIN st : st[i].name = st[j].name => i = j
  /\ Roots(st, p, D)

\* What a finished name depends on is finished.
Closed(D) == \A e \in Followed : e[1] \in D => e[2] \in D

OnStack == {stack[i].name : i \in DOMAIN stack}

Distinct == \A k, l \in DOMAIN units : units[k].unit = units[l].unit => k = l

Starting == stage = "validate" => verdict = "none" /\ order = <<>> /\ pos = 1 /\ stack = <<>>
                                  /\ visiting = {} /\ visited = {}

Detecting == stage = "detect" =>
  /\ AllKnown /\ verdict = "none" /\ order = <<>>
  /\ visiting = OnStack
  /\ Walk(stack, pos, visited) /\ Closed(visited) /\ ~Cyclic(Followed, visited)

Ordering == stage = "order" =>
  /\ verdict = "accepted"
  /\ UniqueNames => visited = ToSet(order) \cup OnStack /\ Walk(stack, pos, ToSet(order))

\* The names of the order come after what they depend on.
Ordered ==
  /\ \A a, b \in DOMAIN order : order[a] = order[b] => a = b
  /\ \A a \in DOMAIN order : \A n \in BareNames :
       <<order[a], n>> \in Followed => \E b \in DOMAIN order : b < a /\ order[b] = n

\* The verdict is right, and the order complete in the end.  Where a service and
\* a timer share a name, sorting the units may change which of the two has the
\* dependencies of that name, and the order need not follow what was validated.
Judged ==
  /\ verdict = "rejected" => stage = "done" /\ (AllKnown => Cyclic(Followed, BareNames))
  /\ verdict = "accepted" => AllKnown /\ (UniqueNames => ~Cyclic(Followed, BareNames))
  /\ verdict = "accepted" /\ stage = "done" /\ UniqueNames => ToSet(order) = BareNames
  /\ stage = "done" => verdict # "none"

LoadInv == /\ LoadTypeOK /\ Distinct
           /\ Starting /\ Detecting /\ Ordering /\ Judged
           /\ UniqueNames => Ordered

----------------------------------------------------------------------------
\* A set of natural numbers has a least one.
LEMMA Least ==
  ASSUME NEW S \in SUBSET Nat, S # {}
  PROVE  \E n \in S : \A m \in S : n <= m
<1>1. PICK n \in S : \A m \in S : <<m, n>> \notin OpToRel(<, Nat)
  BY NatLessThanWellFounded, WFMin, Zenon
<1>2. \A m \in S : ~(m < n)  BY <1>1 DEF OpToRel
<1> QED  BY <1>2

Frames == [name : BareNames, next : Nat \ {0}]

\* What is said of the units alone stays.
LEMMA Same ==
  ASSUME UNCHANGED units
  PROVE  /\ Described' = Described /\ BareNames' = BareNames
         /\ AllKnown' <=> AllKnown
         /\ UniqueNames' <=> UniqueNames
         /\ \A n : BareDeps(n)' = BareDeps(n)
         /\ Followed' = Followed
<1>1. Described' = Described  BY DEF Described
<1>2. BareNames' = BareNames  BY <1>1 DEF BareNames
<1>3. AllKnown' <=> AllKnown  BY <1>1, <1>2 DEF AllKnown, Known
<1>4. \A n : BareDeps(n)' = BareDeps(n)  BY DEF BareDeps, Latest
<1>5. Followed' = Followed  BY <1>2, <1>4 DEF Followed
<1>6. UniqueNames' <=> UniqueNames  BY <1>1 DEF UniqueNames
<1> QED  BY <1>1, <1>2, <1>3, <1>4, <1>5, <1>6

LEMMA Listed ==
  ASSUME LoadTypeOK
  PROVE  /\ Len(units) \in Nat /\ DOMAIN units = 1..Len(units)
         /\ \A k \in DOMAIN units : /\ units[k].unit \in Unit /\ units[k].deps \in Seq(Dep)
                                    /\ units[k].unit.name \in BareNames
         /\ \A n \in BareNames : \E k \in DOMAIN units : units[k].unit.name = n
         /\ BareNames \subseteq Names
<1>1. units \in Seq([unit : Unit, deps : Seq(Dep)])  BY DEF LoadTypeOK
<1>2. Len(units) \in Nat /\ DOMAIN units = 1..Len(units)  BY <1>1
<1> DEFINE Entries == [unit : Unit, deps : Seq(Dep)]
<1>3. \A k \in DOMAIN units : units[k].unit \in Unit /\ units[k].deps \in Seq(Dep)
  <2>1. \A k \in DOMAIN units : units[k] \in Entries
    <3> HIDE DEF Entries
    <3> QED  BY <1>1, <1>2, ElementOfSeq DEF Entries
  <2> QED  BY <2>1
<1>4. \A k \in DOMAIN units : units[k].unit.name \in BareNames
  BY DEF Described, BareNames
<1>5. \A n \in BareNames : \E k \in DOMAIN units : units[k].unit.name = n
  BY DEF Described, BareNames
<1>6. BareNames \subseteq Names  BY <1>3, <1>5 DEF Unit
<1> QED  BY <1>2, <1>3, <1>4, <1>5, <1>6

\* A name has a latest unit.
LEMMA LatestNamed ==
  ASSUME LoadTypeOK, NEW n \in BareNames
  PROVE  Latest(n) \in DOMAIN units /\ units[Latest(n)].unit.name = n
<1> DEFINE named == {k \in DOMAIN units : units[k].unit.name = n}
           after == {Len(units) - k : k \in named}
<1>1. Len(units) \in Nat /\ named \subseteq 1..Len(units) /\ named # {}  BY Listed
<1>2. after \in SUBSET Nat /\ after # {}  BY <1>1
<1>3. PICK m \in after : \A l \in after : m <= l
  <2> HIDE DEF after
  <2> QED  BY <1>2, Least
<1>4. PICK k \in named : m = Len(units) - k  OBVIOUS
<1>5. \A l \in named : l <= k
  <2> TAKE l \in named
  <2>1. Len(units) - l \in after  OBVIOUS
  <2>2. Len(units) - k <= Len(units) - l  BY <1>3, <1>4, <2>1
  <2> QED  BY <1>1, <2>2
<1> QED  BY <1>5 DEF Latest

LEMMA DepsOf ==
  ASSUME LoadTypeOK, NEW n \in BareNames
  PROVE  /\ Len(BareDeps(n)) \in Nat /\ DOMAIN BareDeps(n) = 1..Len(BareDeps(n))
         /\ AllKnown => \A j \in DOMAIN BareDeps(n) : /\ BareDeps(n)[j] \in BareNames
                                                    /\ <<n, BareDeps(n)[j]>> \in Followed
<1> DEFINE deps == units[Latest(n)].deps
<1>1. Latest(n) \in DOMAIN units  BY LatestNamed
<1>2. deps \in Seq(Dep)  BY <1>1, Listed
<1>3. Len(deps) \in Nat /\ DOMAIN deps = 1..Len(deps) /\ \A j \in DOMAIN deps : deps[j] \in Dep
  BY <1>2, ElementOfSeq
<1>4. BareDeps(n) = [j \in DOMAIN deps |-> deps[j].name]  BY DEF BareDeps
<1> HIDE DEF deps
<1>5. BareDeps(n) \in [1..Len(deps) -> Names]  BY <1>3, <1>4 DEF Dep
<1>6. BareDeps(n) \in Seq(Names)  BY <1>3, <1>5, SeqDef
<1>7. Len(BareDeps(n)) \in Nat /\ DOMAIN BareDeps(n) = 1..Len(BareDeps(n))  BY <1>6
<1>8. ASSUME AllKnown, NEW j \in DOMAIN BareDeps(n) PROVE BareDeps(n)[j] \in BareNames
  <2>1. j \in DOMAIN deps /\ BareDeps(n)[j] = deps[j].name  BY <1>4
  <2>2. Known(deps[j])  BY <1>1, <1>8, <2>1 DEF AllKnown, deps
  <2> QED  BY <2>1, <2>2 DEF Known, BareNames
<1>9. \A m \in BareNames : \A j \in DOMAIN BareDeps(n) :
        BareDeps(n)[j] = m => <<n, m>> \in Followed
  BY DEF Followed
<1> QED  BY <1>7, <1>8, <1>9

LEMMA Stacked ==
  ASSUME LoadTypeOK
  PROVE  /\ Len(stack) \in Nat /\ DOMAIN stack = 1..Len(stack)
         /\ stack = <<>> <=> Len(stack) = 0
         /\ \A i \in DOMAIN stack : /\ stack[i] \in Frames
                                    /\ stack[i].name \in BareNames /\ stack[i].next \in Nat \ {0}
         /\ Len(units) \in Nat /\ pos \in 1..Len(units) + 1
<1>1. stack \in Seq(Frames)  BY DEF LoadTypeOK, Frames
<1>2. \A i \in DOMAIN stack : stack[i] \in Frames  BY <1>1, ElementOfSeq
<1> QED  BY <1>1, <1>2, Listed, EmptySeq DEF Frames, LoadTypeOK

\* Whom a loop calls is a unit, and whoever calls is on the stack.
LEMMA Called ==
  ASSUME LoadTypeOK, AllKnown, NEW n, Reaches(n)
  PROVE  /\ n \in BareNames
         /\ stack = <<>> => pos \in 1..Len(units) /\ n = units[pos].unit.name
         /\ stack # <<>> => LET t == stack[Len(stack)]
                            IN /\ t.next \in DOMAIN BareDeps(t.name)
                               /\ n = BareDeps(t.name)[t.next]
                               /\ <<t.name, n>> \in Followed
<1>1. CASE stack = <<>>
  <2>1. pos \in 1..Len(units) /\ n = units[pos].unit.name  BY <1>1, Stacked DEF Reaches
  <2> QED  BY <1>1, <2>1, Listed
<1>2. CASE stack # <<>>
  <2> DEFINE t == stack[Len(stack)]
  <2>1. t.name \in BareNames /\ t.next \in Nat \ {0}  BY <1>2, Stacked
  <2>2. t.next <= Len(BareDeps(t.name)) /\ n = BareDeps(t.name)[t.next]
    BY <1>2 DEF Reaches, Top
  <2>3. t.next \in DOMAIN BareDeps(t.name)  BY <2>1, <2>2, DepsOf
  <2>4. n \in BareNames /\ <<t.name, n>> \in Followed  BY <2>1, <2>2, <2>3, DepsOf
  <2> QED  BY <1>2, <2>2, <2>3, <2>4
<1> QED  BY <1>1, <1>2

----------------------------------------------------------------------------
(* The stack of calls. *)

\* What the stack looks like when a loop goes on, ...
LEMMA Proceeding ==
  ASSUME LoadTypeOK, AllKnown, NEW n, Reaches(n), Proceed
  PROVE  /\ stack' \in Seq(Frames) /\ pos' \in 1..Len(units) + 1
         /\ DOMAIN stack' = DOMAIN stack /\ Len(stack') = Len(stack)
         /\ \A i \in DOMAIN stack : stack'[i].name = stack[i].name
         /\ stack = <<>> => pos' = pos + 1 /\ stack' = stack
         /\ stack # <<>> => /\ pos' = pos
                           /\ stack'[Len(stack)].next = stack[Len(stack)].next + 1
                           /\ \A i \in DOMAIN stack : i # Len(stack) => stack'[i] = stack[i]
<1>1. CASE stack = <<>>
  <2>1. pos' = pos + 1 /\ stack' = stack  BY <1>1 DEF Proceed
  <2>2. pos \in 1..Len(units)  BY <1>1, Called
  <2>3. pos' \in 1..Len(units) + 1  BY <2>1, <2>2, Stacked
  <2>4. stack \in Seq(Frames)  BY DEF LoadTypeOK, Frames
  <2> QED  BY <1>1, <2>1, <2>3, <2>4
<1>2. CASE stack # <<>>
  <2> DEFINE l == Len(stack)
             t == stack[l]
  <2>1. stack' = [stack EXCEPT ![l].next = @ + 1] /\ pos' = pos  BY <1>2 DEF Proceed
  <2>2. l \in DOMAIN stack /\ l \in Nat /\ DOMAIN stack = 1..l  BY <1>2, Stacked
  <2>3. t.next \in Nat \ {0} /\ t \in Frames  BY <2>2, Stacked
  <2>4. DOMAIN stack' = 1..l /\ \A i \in 1..l : stack'[i].name = stack[i].name
    BY <2>1, <2>2, <2>3, Stacked DEF Frames
  <2>5. \A i \in 1..l : i # l => stack'[i] = stack[i]  BY <2>1, <2>2
  <2>6. stack'[l].next = t.next + 1 /\ stack'[l] \in Frames
    BY <2>1, <2>2, <2>3 DEF Frames
  <2>7. stack' \in Seq(Frames) /\ Len(stack') = l
    <3>1. stack' \in [1..l -> Frames]  BY <2>1, <2>2, <2>5, <2>6, Stacked
    <3> QED  BY <2>2, <3>1, SeqDef, LenProperties
  <2> QED  BY <1>2, <2>1, <2>2, <2>4, <2>5, <2>6, <2>7, Stacked
<1> QED  BY <1>1, <1>2

\* ... when a call begins a loop of its own, ...
LEMMA Calling ==
  ASSUME LoadTypeOK, AllKnown, NEW n, Reaches(n), Call(n)
  PROVE  /\ stack' \in Seq(Frames) /\ pos' \in 1..Len(units) + 1
         /\ Len(stack') = Len(stack) + 1 /\ DOMAIN stack' = 1..(Len(stack) + 1) /\ stack' # <<>>
         /\ stack'[Len(stack) + 1].name = n /\ stack'[Len(stack) + 1].next = 1
         /\ \A i \in DOMAIN stack : stack'[i].name = stack[i].name
         /\ stack = <<>> => pos' = pos + 1
         /\ stack # <<>> => /\ pos' = pos
                           /\ stack'[Len(stack)].next = stack[Len(stack)].next + 1
                           /\ \A i \in DOMAIN stack : i # Len(stack) => stack'[i] = stack[i]
<1> DEFINE frame == [name |-> n, next |-> 1]
<1>n. n \in BareNames  BY Called
<1>0. n \in BareNames /\ frame \in Frames /\ frame.name = n /\ frame.next = 1
  BY <1>n DEF Frames
<1>1. CASE stack = <<>>
  <2>1. pos' = pos + 1 /\ stack' = <<frame>>  BY <1>1 DEF Call
  <2>2. pos \in 1..Len(units)  BY <1>1, Called
  <2>3. DOMAIN stack' = {1} /\ stack'[1] = frame /\ Len(stack') = 1 /\ stack' # <<>>
        /\ stack' \in Seq(Frames)
    BY <1>0, <2>1
  <2>4. pos' \in 1..Len(units) + 1  BY <2>1, <2>2, Stacked
  <2>5. Len(stack) = 0 /\ DOMAIN stack = {} /\ 1..(0 + 1) = {1}  BY <1>1, Stacked
  <2> HIDE DEF frame
  <2> QED  BY <1>0, <1>1, <2>1, <2>3, <2>4, <2>5
<1>2. CASE stack # <<>>
  <2> DEFINE l == Len(stack)
             t == stack[l]
             going == [stack EXCEPT ![l].next = @ + 1]
  <2>1. stack' = Append(going, frame) /\ pos' = pos  BY <1>2 DEF Call
  <2>2. l \in DOMAIN stack /\ l \in Nat /\ DOMAIN stack = 1..l  BY <1>2, Stacked
  <2>3. t.next \in Nat \ {0} /\ t \in Frames  BY <2>2, Stacked
  <2>4. going[l].name = t.name /\ going[l].next = t.next + 1 /\ going[l] \in Frames
    BY <2>2, <2>3 DEF Frames
  <2>5. \A i \in 1..l : i # l => going[i] = stack[i]  BY <2>2
  <2>6. going \in Seq(Frames) /\ Len(going) = l
    <3>1. going = [i \in 1..l |-> going[i]]  BY <2>2
    <3>2. \A i \in 1..l : going[i] \in Frames  BY <2>2, <2>4, <2>5, Stacked
    <3> HIDE DEF going
    <3>3. going \in [1..l -> Frames]  BY <3>1, <3>2
    <3> QED  BY <2>2, <3>3, SeqDef, LenProperties
  <2>7. /\ stack' \in Seq(Frames) /\ Len(stack') = l + 1 /\ DOMAIN stack' = 1..(l + 1)
        /\ stack'[l + 1] = frame /\ stack' # <<>>
        /\ \A i \in 1..l : stack'[i] = going[i]
    <3> HIDE DEF going, frame
    <3>1. stack' \in Seq(Frames) /\ Len(stack') = l + 1 /\ stack' # <<>>
          /\ stack'[l + 1] = frame /\ \A i \in 1..l : stack'[i] = going[i]
      BY <1>0, <2>1, <2>6, AppendProperties
    <3> QED  BY <3>1, LenProperties
  <2>8. stack[l] = t  OBVIOUS
  <2> HIDE DEF t, going, frame
  <2>9. \A i \in 1..l : stack'[i].name = stack[i].name  BY <2>4, <2>5, <2>7, <2>8
  <2>10. stack'[l].next = t.next + 1 /\ \A i \in 1..l : i # l => stack'[i] = stack[i]
    BY <2>2, <2>4, <2>5, <2>7
  <2> QED  BY <1>0, <1>2, <2>1, <2>2, <2>7, <2>8, <2>9, <2>10, Stacked
<1> QED  BY <1>1, <1>2

\* ... and when a call ends.
LEMMA Returning ==
  ASSUME LoadTypeOK, Returns, stack' = Front(stack)
  PROVE  /\ Top.name \in BareNames
         /\ stack' \in Seq(Frames)
         /\ Len(stack') = Len(stack) - 1 /\ DOMAIN stack' = 1..(Len(stack) - 1)
         /\ \A i \in 1..(Len(stack) - 1) : stack'[i] = stack[i]
<1> DEFINE l == Len(stack)
<1>1. l \in 1..l /\ l \in Nat /\ DOMAIN stack = 1..l  BY Stacked DEF Returns
<1>2. Top.name \in BareNames  BY <1>1, Stacked DEF Top
<1>3. stack' = SubSeq(stack, 1, l - 1)  BY DEF Front
<1>4. \A i \in 1..(l - 1) : stack[i] \in Frames  BY <1>1, Stacked
<1>5. stack \in Seq(Frames)  BY DEF LoadTypeOK, Frames
<1> HIDE DEF l
<1>6. /\ SubSeq(stack, 1, l - 1) \in Seq(Frames)
      /\ Len(SubSeq(stack, 1, l - 1)) = IF 1 <= l - 1 THEN (l - 1) - 1 + 1 ELSE 0
      /\ \A i \in 1..((l - 1) - 1 + 1) : SubSeq(stack, 1, l - 1)[i] = stack[1 + i - 1]
  BY <1>1, <1>4, SubSeqProperties
<1>7. Len(stack') = l - 1 /\ stack' \in Seq(Frames)  BY <1>1, <1>3, <1>6
<1>8. \A i \in 1..(l - 1) : stack'[i] = stack[i]
  <2> TAKE i \in 1..(l - 1)
  <2>1. i \in 1..((l - 1) - 1 + 1) /\ 1 + i - 1 = i  BY <1>1
  <2> QED  BY <1>3, <1>6, <2>1
<1> QED  BY <1>2, <1>7, <1>8, LenProperties DEF l

\* A call that returns at once, from a name that is finished.
LEMMA WalkProceeds ==
  ASSUME LoadTypeOK, AllKnown, NEW D, Walk(stack, pos, D), NEW n, Reaches(n), n \in D, Proceed
  PROVE  /\ Walk(stack', pos', D)
         /\ OnStack' = OnStack
<1>1. CASE stack = <<>>
  <2>1. pos' = pos + 1 /\ stack' = stack  BY <1>1, Proceeding
  <2>2. n = units[pos].unit.name /\ pos \in 1..Len(units)  BY <1>1, Called
  <2>3. pos \in Nat  BY Stacked
  <2>4. \A k \in 1..(pos - 1) : units[k].unit.name \in D  BY <1>1 DEF Walk, Roots
  <2>5. \A k \in 1..(pos' - 1) : units[k].unit.name \in D
    <3>1. \A k \in 1..(pos' - 1) : k \in 1..(pos - 1) \/ k = pos  BY <2>1, <2>3
    <3> QED  BY <2>2, <2>4, <3>1
  <2>6. DOMAIN stack = {}  BY <1>1
  <2>7. Roots(stack', pos', D)  BY <2>5 DEF Roots
  <2> QED  BY <2>1, <2>6, <2>7 DEF Walk, OnStack
<1>2. CASE stack # <<>>
  <2> DEFINE l == Len(stack)
             t == stack[l]
  <2>2. l \in DOMAIN stack /\ l \in Nat /\ DOMAIN stack = 1..l  BY <1>2, Stacked
  <2>3. t.next \in DOMAIN BareDeps(t.name) /\ n = BareDeps(t.name)[t.next]  BY <1>2, Called
  <2>4. t.name \in BareNames /\ t.next \in Nat \ {0}  BY <2>2, Stacked
  <2>5. DOMAIN stack' = 1..l /\ \A i \in 1..l : stack'[i].name = stack[i].name
    BY <2>2, Proceeding
  <2>6. pos' = pos /\ \A i \in 1..l : i # l => stack'[i] = stack[i]  BY <1>2, <2>2, Proceeding
  <2>7. stack'[l].next = t.next + 1  BY <1>2, Proceeding
  <2>8. Len(stack') = l  BY Proceeding
  <2>9. \A i \in 1..l : CallOf(stack, i, D)  BY <2>2 DEF Walk
  <2>10. Len(stack) = l /\ stack[l] = t  OBVIOUS
  <2>11. Len(BareDeps(t.name)) \in Nat /\ DOMAIN BareDeps(t.name) = 1..Len(BareDeps(t.name))
    BY <2>4, DepsOf
  <2> HIDE DEF l, t
  <2>12. ASSUME NEW i \in 1..l PROVE CallOf(stack', i, D)
    <3>1. CASE i # l
      <4>1. stack'[i] = stack[i] /\ stack'[i + 1].name = stack[i + 1].name /\ i < l
        BY <2>2, <2>5, <2>6, <3>1
      <4> QED  BY <2>8, <2>9, <2>10, <4>1 DEF CallOf
    <3>2. CASE i = l
      <4>1. stack'[l].name = t.name  BY <2>2, <2>5, <2>10
      <4>2. t.next + 1 <= Len(BareDeps(t.name)) + 1  BY <2>3, <2>4, <2>11
      <4>3. \A j \in 1..(t.next - 1) : BareDeps(t.name)[j] \in D /\ t.name \notin D
        BY <2>2, <2>9, <2>10 DEF CallOf
      <4>4. BareDeps(t.name)[t.next] \in D  BY <2>3
      <4>5. t.name \notin D  BY <2>2, <2>9, <2>10 DEF CallOf
      <4>6. \A j \in 1..(t.next + 1 - 1) : j \in 1..(t.next - 1) \/ j = t.next  BY <2>4
      <4>7. \A j \in 1..(t.next + 1 - 1) : BareDeps(t.name)[j] \in D  BY <4>3, <4>4, <4>6
      <4>8. ~(l < l)  BY <2>2
      <4>9. stack'[i].name = t.name /\ stack'[i].next = t.next + 1 /\ ~(i < Len(stack'))
        BY <2>7, <2>8, <3>2, <4>1, <4>8
      <4>10. /\ stack'[i].name \notin D
             /\ stack'[i].next <= Len(BareDeps(stack'[i].name)) + 1
             /\ \A j \in 1..(stack'[i].next - 1) : BareDeps(stack'[i].name)[j] \in D
        BY <2>4, <2>11, <4>2, <4>5, <4>7, <4>9
      <4> QED  BY <4>9, <4>10 DEF CallOf
    <3> QED  BY <3>1, <3>2
  <2>13. \A i, j \in 1..l : stack'[i].name = stack'[j].name => i = j
    BY <2>2, <2>5 DEF Walk
  <2>14. Roots(stack', pos', D)
    <3>1. stack' # <<>> /\ stack'[1].name = stack[1].name  BY <2>2, <2>5
    <3> QED  BY <2>6, <3>1 DEF Walk, Roots
  <2>15. Walk(stack', pos', D)  BY <2>5, <2>12, <2>13, <2>14 DEF Walk
  <2>16. OnStack' = OnStack  BY <2>2, <2>5 DEF OnStack
  <2> QED  BY <2>15, <2>16
<1> QED  BY <1>1, <1>2

\* A call that begins a loop of its own.
LEMMA WalkCalls ==
  ASSUME LoadTypeOK, AllKnown, NEW D, Walk(stack, pos, D),
         NEW n, Reaches(n), n \notin D, n \notin OnStack, Call(n)
  PROVE  /\ Walk(stack', pos', D)
         /\ OnStack' = OnStack \cup {n}
<1>n. n \in BareNames  BY Called
<1>d. Len(BareDeps(n)) \in Nat  BY <1>n, DepsOf
<1>1. CASE stack = <<>>
  <2>1. Len(stack) = 0 /\ DOMAIN stack = {} /\ 1..(0 + 1) = {1}  BY <1>1, Stacked
  <2>2. n = units[pos].unit.name /\ pos \in 1..Len(units)  BY <1>1, Called
  <2>3. /\ DOMAIN stack' = {1} /\ Len(stack') = 1 /\ stack' # <<>> /\ pos' = pos + 1
        /\ stack'[1].name = n /\ stack'[1].next = 1
    BY <1>1, <2>1, Calling
  <2>4. pos \in Nat  BY Stacked
  <2>5. \A k \in 1..(pos - 1) : units[k].unit.name \in D  BY <1>1 DEF Walk, Roots
  <2>6. Roots(stack', pos', D)
    <3>1. \A k \in 1..(pos' - 1) : k \in 1..(pos - 1) \/ k = pos  BY <2>3, <2>4
    <3> QED  BY <2>2, <2>3, <2>5, <3>1 DEF Roots
  <2>7. OnStack = {} /\ OnStack' = {n}  BY <2>1, <2>3 DEF OnStack
  <2>8. CallOf(stack', 1, D)  BY <1>d, <2>3 DEF CallOf
  <2>9. Walk(stack', pos', D)  BY <2>3, <2>6, <2>8 DEF Walk
  <2> QED  BY <2>7, <2>9
<1>2. CASE stack # <<>>
  <2> DEFINE l == Len(stack)
             t == stack[l]
  <2>2. l \in DOMAIN stack /\ l \in Nat /\ DOMAIN stack = 1..l  BY <1>2, Stacked
  <2>3. t.next \in DOMAIN BareDeps(t.name) /\ n = BareDeps(t.name)[t.next]  BY <1>2, Called
  <2>4. t.name \in BareNames /\ t.next \in Nat \ {0}  BY <2>2, Stacked
  <2>5. stack'[l].name = stack[l].name /\ stack'[l].next = t.next + 1 /\ pos' = pos
    BY <1>2, <2>2, Calling
  <2>6. \A i \in 1..l : i # l => stack'[i] = stack[i]  BY <1>2, <2>2, Calling
  <2>8. Len(stack') = l + 1 /\ DOMAIN stack' = 1..(l + 1) /\ stack' # <<>>  BY Calling
  <2>9. \A i \in 1..l : CallOf(stack, i, D)  BY <2>2 DEF Walk
  <2>10. Len(stack) = l /\ stack[l] = t  OBVIOUS
  <2>11. Len(BareDeps(t.name)) \in Nat /\ DOMAIN BareDeps(t.name) = 1..Len(BareDeps(t.name))
    BY <2>4, DepsOf
  <2>12. \A i \in 1..l : stack[i].name # n  BY <2>2 DEF OnStack
  <2>13. \A i \in 1..l : stack'[i].name = stack[i].name  BY <2>2, Calling
  <2>14. stack'[l + 1].name = n /\ stack'[l + 1].next = 1  BY Calling
  <2> HIDE DEF l, t
  <2>15. ASSUME NEW i \in 1..(l + 1) PROVE CallOf(stack', i, D)
    <3>1. CASE i < l
      <4>0. i \in 1..l /\ i + 1 \in 1..l /\ i # l /\ i < l + 1  BY <2>2, <3>1
      <4>1. stack'[i] = stack[i] /\ stack'[i + 1].name = stack[i + 1].name
        BY <2>6, <2>13, <4>0
      <4> QED  BY <2>8, <2>9, <2>10, <3>1, <4>0, <4>1 DEF CallOf
    <3>2. CASE i = l
      <4>0. l \in 1..l /\ l < l + 1  BY <2>2
      <4>1. stack'[l].name = t.name /\ stack'[l].next = t.next + 1
        BY <2>5, <2>10
      <4>7. \E j \in DOMAIN BareDeps(t.name) : BareDeps(t.name)[j] = n  BY <2>3
      <4>2. t.next + 1 <= Len(BareDeps(t.name)) + 1  BY <2>3, <2>4, <2>11
      <4>3. \A j \in 1..(t.next - 1) : BareDeps(t.name)[j] \in D
        BY <2>2, <2>9, <2>10, <4>0 DEF CallOf
      <4>4. \A j \in 1..(t.next + 1 - 1) : j \in 1..(t.next - 1) \/ j = t.next  BY <2>4
      <4>5. \A j \in 1..(t.next + 1 - 1) : BareDeps(t.name)[j] \in D \/ BareDeps(t.name)[j] = n
        BY <2>3, <4>3, <4>4
      <4>6. t.name \notin D  BY <2>9, <2>10, <4>0 DEF CallOf
      <4>8. stack'[i].name = t.name /\ stack'[i].next = t.next + 1 /\ stack'[i + 1].name = n
            /\ i < Len(stack')
        BY <2>8, <2>14, <3>2, <4>0, <4>1
      <4>9. /\ stack'[i].name \notin D
            /\ stack'[i].next <= Len(BareDeps(stack'[i].name)) + 1
            /\ \A j \in 1..(stack'[i].next - 1) :
                 BareDeps(stack'[i].name)[j] \in D \/ BareDeps(stack'[i].name)[j] = n
            /\ \E j \in DOMAIN BareDeps(stack'[i].name) : BareDeps(stack'[i].name)[j] = n
        BY <2>4, <2>11, <4>2, <4>5, <4>6, <4>7, <4>8
      <4> QED  BY <4>8, <4>9 DEF CallOf
    <3>3. CASE i = l + 1
      <4>1. ~(i < l + 1) /\ 1 <= Len(BareDeps(n)) + 1 /\ 1..(1 - 1) = {}
        BY <1>d, <2>2, <3>3
      <4>2. stack'[i].name = n /\ stack'[i].next = 1  BY <2>14, <3>3
      <4> QED  BY <2>8, <4>1, <4>2 DEF CallOf
    <3> QED  BY <2>2, <3>1, <3>2, <3>3
  <2>16. \A i, j \in 1..(l + 1) : stack'[i].name = stack'[j].name => i = j
    <3>1. \A i, j \in 1..l : stack'[i].name = stack'[j].name => i = j
      BY <2>2, <2>13 DEF Walk
    <3>2. \A i \in 1..l : stack'[i].name # n  BY <2>12, <2>13
    <3>3. \A i \in 1..(l + 1) : i \in 1..l \/ i = l + 1  BY <2>2
    <3> QED  BY <2>14, <3>1, <3>2, <3>3
  <2>17. Roots(stack', pos', D)
    <3>1. stack'[1].name = stack[1].name  BY <2>2, <2>13
    <3> QED  BY <1>2, <2>5, <2>8, <3>1 DEF Walk, Roots
  <2>18. Walk(stack', pos', D)  BY <2>8, <2>15, <2>16, <2>17 DEF Walk
  <2>19. OnStack' = OnStack \cup {n}
    <3>1. OnStack' = {stack'[i].name : i \in 1..(l + 1)}  BY <2>8 DEF OnStack
    <3>2. 1..(l + 1) = 1..l \cup {l + 1}  BY <2>2
    <3>3. OnStack = {stack'[i].name : i \in 1..l}  BY <2>2, <2>13 DEF OnStack
    <3> QED  BY <2>14, <3>1, <3>2, <3>3
  <2> QED  BY <2>18, <2>19
<1> QED  BY <1>1, <1>2

\* A call that ends: what its name depends on is finished, and so is the name.
LEMMA WalkReturns ==
  ASSUME LoadTypeOK, AllKnown, NEW D, Walk(stack, pos, D),
         Returns, stack' = Front(stack), UNCHANGED pos
  PROVE  /\ Top.name \in BareNames \ D /\ Top.name \in OnStack
         /\ \A e \in Followed : e[1] = Top.name => e[2] \in D
         /\ Walk(stack', pos', D \cup {Top.name})
         /\ OnStack' = OnStack \ {Top.name}
<1> DEFINE l == Len(stack)
           t == stack[l]
<1>1. l \in 1..l /\ l \in Nat /\ DOMAIN stack = 1..l /\ t = Top /\ stack # <<>>
  BY Stacked DEF Returns, Top
<1>2. t.name \in BareNames /\ t.next \in Nat \ {0}  BY <1>1, Stacked
<1>3. Len(BareDeps(t.name)) \in Nat /\ DOMAIN BareDeps(t.name) = 1..Len(BareDeps(t.name))
  BY <1>2, DepsOf
<1>4. \A i \in 1..l : CallOf(stack, i, D)  BY <1>1 DEF Walk
<1>5. t.name \notin D /\ t.next <= Len(BareDeps(t.name)) + 1
      /\ \A j \in 1..(t.next - 1) : BareDeps(t.name)[j] \in D
  BY <1>1, <1>4 DEF CallOf
<1>6. t.next > Len(BareDeps(t.name))  BY <1>1 DEF Returns
<1>7. \A j \in DOMAIN BareDeps(t.name) : BareDeps(t.name)[j] \in D
  <2>1. 1..Len(BareDeps(t.name)) = 1..(t.next - 1)  BY <1>2, <1>3, <1>5, <1>6
  <2> QED  BY <1>3, <1>5, <2>1
<1>8. \A e \in Followed : e[1] = t.name => e[2] \in D  BY <1>7 DEF Followed
<1>9. /\ Len(stack') = l - 1 /\ DOMAIN stack' = 1..(l - 1)
      /\ \A i \in 1..(l - 1) : stack'[i] = stack[i]
  BY Returning
<1>10. Len(stack) = l /\ stack[l] = t  OBVIOUS
<1> HIDE DEF l, t
<1>11. \A i \in 1..(l - 1) : i \in 1..l /\ i # l /\ i < l /\ i + 1 \in 1..l
                             /\ (i < l - 1 => i + 1 \in 1..(l - 1)) /\ (~(i < l - 1) => i + 1 = l)
  BY <1>1
<1>12. \A i \in 1..(l - 1) : stack[i].name # t.name  BY <1>1, <1>10, <1>11 DEF Walk
<1>13. ASSUME NEW i \in 1..(l - 1) PROVE CallOf(stack', i, D \cup {t.name})
  <2>1. stack'[i] = stack[i] /\ (i < l - 1 => stack'[i + 1] = stack[i + 1])
        /\ (~(i < l - 1) => stack[i + 1] = t) /\ i < l
    BY <1>9, <1>10, <1>11
  <2>2. CallOf(stack, i, D) /\ stack[i].name # t.name  BY <1>4, <1>11, <1>12
  <2> QED  BY <1>9, <1>10, <2>1, <2>2 DEF CallOf
<1>14. \A i, j \in 1..(l - 1) : stack'[i].name = stack'[j].name => i = j
  BY <1>1, <1>9, <1>11 DEF Walk
<1>15. Roots(stack', pos', D \cup {t.name})
  <2>1. CASE l = 1  BY <1>10, <2>1 DEF Walk, Roots
  <2>2. CASE l # 1
    <3>1. 1 \in 1..(l - 1)  BY <1>1, <2>2
    <3>2. stack'[1] = stack[1] /\ stack' # <<>>  BY <1>9, <3>1
    <3> QED  BY <3>2 DEF Walk, Roots
  <2> QED  BY <2>1, <2>2
<1>16. Walk(stack', pos', D \cup {t.name})  BY <1>9, <1>13, <1>14, <1>15 DEF Walk
<1>17. OnStack' = OnStack \ {t.name} /\ t.name \in OnStack
  <2>1. OnStack' = {stack[i].name : i \in 1..(l - 1)}  BY <1>9 DEF OnStack
  <2>2. 1..l = 1..(l - 1) \cup {l}  BY <1>1
  <2>3. OnStack = {stack[i].name : i \in 1..(l - 1)} \cup {t.name}
    BY <1>1, <1>10, <2>2 DEF OnStack
  <2> QED  BY <1>12, <2>1, <2>3
<1> QED  BY <1>1, <1>2, <1>5, <1>8, <1>9, <1>16, <1>17

\* A call of a name that is being visited closes a cycle.
LEMMA CallBack ==
  ASSUME LoadTypeOK, AllKnown, NEW D, Walk(stack, pos, D), NEW n \in OnStack, Reaches(n)
  PROVE  Cyclic(Followed, BareNames)
<1> DEFINE l == Len(stack)
<1>1. l \in Nat /\ DOMAIN stack = 1..l  BY Stacked
<1>2. PICK p \in 1..l : stack[p].name = n  BY <1>1 DEF OnStack
<1> DEFINE C == {stack[i].name : i \in p..l}
<1>3. stack # <<>> /\ \A i \in p..l : i \in 1..l  BY <1>1, <1>2
<1>4. n \in C /\ C \subseteq BareNames
  <2>1. p \in p..l  BY <1>1, <1>2
  <2> QED  BY <1>1, <1>2, <1>3, <2>1, Stacked
<1>5. \A i \in 1..l : CallOf(stack, i, D)  BY <1>1 DEF Walk
<1>6. ASSUME NEW i \in p..l PROVE \E b \in C : <<stack[i].name, b>> \in Followed
  <2>1. CASE i = l  BY <1>3, <1>4, <2>1, Called
  <2>2. CASE i # l
    <3> HIDE DEF l
    <3>1. i \in 1..l /\ i < l /\ i + 1 \in p..l  BY <1>1, <1>2, <2>2
    <3>2. \E j \in DOMAIN BareDeps(stack[i].name) : BareDeps(stack[i].name)[j] = stack[i + 1].name
      BY <1>5, <3>1 DEF CallOf, l
    <3>3. stack[i].name \in BareNames  BY <1>1, <3>1, Stacked
    <3>4. <<stack[i].name, stack[i + 1].name>> \in Followed  BY <3>2, <3>3, DepsOf
    <3> QED  BY <3>1, <3>4
  <2> QED  BY <2>1, <2>2
<1>7. \A a \in C : \E b \in C : <<a, b>> \in Followed  BY <1>6
<1> HIDE DEF C
<1> QED  BY <1>4, <1>7 DEF Cyclic
\* When no two units share a name, the traversals follow every dependency.
LEMMA FollowedAll == LoadTypeOK /\ Distinct /\ UniqueNames /\ AllKnown => Followed = BareEdges
<1> SUFFICES ASSUME LoadTypeOK, Distinct, UniqueNames, AllKnown PROVE Followed = BareEdges
  OBVIOUS
<1>1. \A k \in DOMAIN units : Latest(units[k].unit.name) = k
  <2> TAKE k \in DOMAIN units
  <2> DEFINE n == units[k].unit.name
             m == Latest(n)
  <2>1. n \in BareNames /\ units[k].unit \in Described  BY Listed DEF Described
  <2>2. m \in DOMAIN units /\ units[m].unit.name = n  BY <2>1, LatestNamed
  <2>3. units[m].unit \in Described  BY <2>2 DEF Described
  <2>4. units[m].unit = units[k].unit  BY <2>1, <2>2, <2>3 DEF UniqueNames
  <2> QED  BY <2>2, <2>4 DEF Distinct
<1>2. \A k \in DOMAIN units :
        BareDeps(units[k].unit.name) = [j \in DOMAIN units[k].deps |-> units[k].deps[j].name]
  BY <1>1 DEF BareDeps
<1>3. ASSUME NEW e \in Followed PROVE e \in BareEdges
  <2>1. PICK j \in DOMAIN BareDeps(e[1]) :
          BareDeps(e[1])[j] = e[2] /\ e = <<e[1], e[2]>> /\ e[1] \in BareNames
    BY DEF Followed
  <2>2. PICK k \in DOMAIN units : units[k].unit.name = e[1]  BY <2>1, Listed
  <2>3. j \in DOMAIN units[k].deps /\ e[2] = units[k].deps[j].name
    BY <1>2, <2>1, <2>2
  <2> QED  BY <2>1, <2>2, <2>3 DEF BareEdges
<1>4. ASSUME NEW e \in BareEdges PROVE e \in Followed
  <2>k. PICK k \in DOMAIN units : \E j \in DOMAIN units[k].deps :
          e = <<units[k].unit.name, units[k].deps[j].name>>
    BY DEF BareEdges
  <2>1. PICK j \in DOMAIN units[k].deps : e = <<units[k].unit.name, units[k].deps[j].name>>
    BY <2>k
  <2> DEFINE n == units[k].unit.name
  <2>2. n \in BareNames  BY Listed
  <2>3. j \in DOMAIN BareDeps(n) /\ BareDeps(n)[j] = units[k].deps[j].name
    BY <1>2
  <2> HIDE DEF n
  <2>4. <<n, BareDeps(n)[j]>> \in Followed  BY <2>2, <2>3, DepsOf
  <2> QED  BY <2>1, <2>3, <2>4 DEF n
<1> QED  BY <1>3, <1>4

----------------------------------------------------------------------------
(* The invariant. *)

LEMMA SameWalks ==
  ASSUME UNCHANGED units, NEW D
  PROVE  /\ Walk(stack', pos', D) /\ D = visited' => Walk(stack, pos, visited)'
         /\ Walk(stack', pos', D) /\ D = ToSet(order)' => Walk(stack, pos, ToSet(order))'
<1>1. \A n : BareDeps(n)' = BareDeps(n)  BY Same
<1> QED  BY <1>1 DEF Walk, CallOf, Roots

\* The units stay what they are, and so does what is said of them alone.
LEMMA TypesKept ==
  ASSUME LoadTypeOK, Distinct, UNCHANGED units,
         verdict' \in {"none", "accepted", "rejected"},
         stage' \in {"validate", "detect", "order", "done"},
         pos' \in 1..Len(units) + 1, stack' \in Seq(Frames),
         visiting' \subseteq BareNames, visited' \subseteq BareNames, order' \in Seq(BareNames)
  PROVE  LoadTypeOK' /\ Distinct'
<1>1. BareNames' = BareNames  BY Same
<1>2. LoadTypeOK'  BY <1>1 DEF LoadTypeOK, Frames
<1>3. Distinct'  BY DEF Distinct
<1> QED  BY <1>2, <1>3

LEMMA StackTyped == LoadTypeOK => stack \in Seq(Frames)  BY DEF LoadTypeOK, Frames

LEMMA OrderKept ==
  ASSUME UniqueNames => Ordered, UNCHANGED <<units, order>>
  PROVE  (UniqueNames => Ordered)'
<1>1. Followed' = Followed /\ BareNames' = BareNames /\ (UniqueNames' <=> UniqueNames)  BY Same
<1> QED  BY <1>1 DEF Ordered

\* Until there is a verdict, there is no order.
LEMMA Unordered == ASSUME order' = <<>> PROVE Ordered'
BY DEF Ordered

LEMMA Rejects ==
  ASSUME LoadInv, NEW n, RejectUnknown \/ FindCycle(n)
  PROVE  LoadInv'
<1>1. /\ verdict' = "rejected" /\ stage' = "done"
      /\ UNCHANGED <<units, pos, stack, visiting, visited, order>>
  BY DEF RejectUnknown, FindCycle, traversal
<1>2. Followed' = Followed /\ BareNames' = BareNames /\ (AllKnown' <=> AllKnown)
  BY <1>1, Same
<1>3. LoadTypeOK' /\ Distinct'
  BY <1>1, TypesKept, StackTyped DEF LoadInv, LoadTypeOK
<1>4. (UniqueNames => Ordered)'  BY <1>1, OrderKept DEF LoadInv
<1>5. AllKnown => Cyclic(Followed, BareNames)
  <2>1. CASE RejectUnknown  BY <2>1 DEF RejectUnknown
  <2>2. CASE FindCycle(n)
    <3>1. stage = "detect" /\ Reaches(n) /\ n \in visiting  BY <2>2 DEF FindCycle
    <3>2. n \in OnStack /\ Walk(stack, pos, visited) /\ AllKnown
      BY <3>1 DEF LoadInv, Detecting
    <3> QED  BY <3>1, <3>2, CallBack DEF LoadInv
  <2> QED  BY <2>1, <2>2
<1>6. Judged'  BY <1>1, <1>2, <1>5 DEF Judged, Cyclic
<1>7. Starting' /\ Detecting' /\ Ordering'  BY <1>1 DEF Starting, Detecting, Ordering
<1> QED  BY <1>3, <1>4, <1>6, <1>7 DEF LoadInv

LEMMA Begins == ASSUME LoadInv, BeginDetect PROVE LoadInv'
<1>1. /\ stage = "validate" /\ AllKnown /\ stage' = "detect" /\ verdict' = verdict
      /\ UNCHANGED <<units, pos, stack, visiting, visited, order>>
  BY DEF BeginDetect, traversal
<1>2. verdict = "none" /\ order = <<>> /\ pos = 1 /\ stack = <<>> /\ visiting = {} /\ visited = {}
  BY <1>1 DEF LoadInv, Starting
<1>3. AllKnown'  BY <1>1, Same
<1>4. LoadTypeOK' /\ Distinct'
  BY <1>1, TypesKept, StackTyped DEF LoadInv, LoadTypeOK
<1>5. Detecting'
  <2>1. OnStack' = {}  BY <1>1, <1>2 DEF OnStack
  <2>2. Walk(stack', pos', {})  BY <1>1, <1>2 DEF Walk, Roots
  <2>3. Walk(stack, pos, visited)'  BY <1>1, <1>2, <2>2, SameWalks
  <2>4. Closed(visited)' /\ ~Cyclic(Followed, visited)'  BY <1>1, <1>2 DEF Closed, Cyclic
  <2> QED  BY <1>1, <1>2, <1>3, <2>1, <2>3, <2>4 DEF Detecting
<1>6. Ordered'  BY <1>1, <1>2, Unordered
<1>7. Starting' /\ Ordering' /\ Judged'
  BY <1>1, <1>2 DEF Starting, Ordering, Judged
<1> QED  BY <1>4, <1>5, <1>6, <1>7 DEF LoadInv

\* A step of detectCycle that goes on is right when it keeps what holds of its marks.
LEMMA Detects ==
  ASSUME LoadInv, stage = "detect", UNCHANGED <<units, verdict, stage, order>>,
         stack' \in Seq(Frames), pos' \in 1..Len(units) + 1,
         visited' \subseteq BareNames, visiting' \subseteq BareNames,
         visiting' = OnStack', Walk(stack', pos', visited'),
         Closed(visited'), ~Cyclic(Followed, visited')
  PROVE  LoadInv'
<1>1. AllKnown /\ verdict = "none" /\ order = <<>>  BY DEF LoadInv, Detecting
<1>2. AllKnown' /\ Followed' = Followed  BY <1>1, Same
<1>3. LoadTypeOK' /\ Distinct'  BY TypesKept DEF LoadInv, LoadTypeOK
<1>4. Walk(stack, pos, visited)'  BY SameWalks
<1>5. Closed(visited)' /\ ~Cyclic(Followed, visited)'  BY <1>2 DEF Closed, Cyclic
<1>6. Detecting'  BY <1>1, <1>2, <1>4, <1>5 DEF Detecting
<1>7. Ordered'  BY <1>1, Unordered
<1>8. Starting' /\ Ordering' /\ Judged'  BY <1>1 DEF Starting, Ordering, Judged
<1> QED  BY <1>3, <1>6, <1>7, <1>8 DEF LoadInv

LEMMA Enters == ASSUME LoadInv, NEW n \in Names, Enter(n) PROVE LoadInv'
<1>1. /\ stage = "detect" /\ Reaches(n) /\ n \notin visiting /\ n \notin visited /\ Call(n)
      /\ visiting' = visiting \cup {n}
      /\ UNCHANGED <<units, verdict, stage, visited, order>>
  BY DEF Enter
<1>2. /\ LoadTypeOK /\ AllKnown /\ visiting = OnStack
      /\ Walk(stack, pos, visited) /\ Closed(visited) /\ ~Cyclic(Followed, visited)
  BY <1>1 DEF LoadInv, Detecting
<1>3. n \in BareNames  BY <1>1, <1>2, Called
<1>4. /\ Walk(stack', pos', visited) /\ OnStack' = OnStack \cup {n}
      /\ stack' \in Seq(Frames) /\ pos' \in 1..Len(units) + 1
  BY <1>1, <1>2, WalkCalls, Calling
<1>5. visited' \subseteq BareNames /\ visiting' \subseteq BareNames
  BY <1>1, <1>2, <1>3 DEF LoadTypeOK
<1> QED  BY <1>1, <1>2, <1>4, <1>5, Detects

LEMMA Revisits == ASSUME LoadInv, NEW n \in Names, Revisit(n) PROVE LoadInv'
<1>1. /\ stage = "detect" /\ Reaches(n) /\ n \in visited /\ Proceed
      /\ UNCHANGED <<units, verdict, stage, visiting, visited, order>>
  BY DEF Revisit
<1>2. /\ LoadTypeOK /\ AllKnown /\ visiting = OnStack
      /\ Walk(stack, pos, visited) /\ Closed(visited) /\ ~Cyclic(Followed, visited)
  BY <1>1 DEF LoadInv, Detecting
<1>3. /\ Walk(stack', pos', visited) /\ OnStack' = OnStack
      /\ stack' \in Seq(Frames) /\ pos' \in 1..Len(units) + 1
  BY <1>1, <1>2, WalkProceeds, Proceeding
<1>4. visited' \subseteq BareNames /\ visiting' \subseteq BareNames
  BY <1>1, <1>2 DEF LoadTypeOK
<1> QED  BY <1>1, <1>2, <1>3, <1>4, Detects

\* A name that depends on finished names only is on no cycle with them.
LEMMA NoNewCycle ==
  ASSUME NEW D, NEW n, n \notin D, Closed(D), ~Cyclic(Followed, D),
         \A e \in Followed : e[1] = n => e[2] \in D
  PROVE  Closed(D \cup {n}) /\ ~Cyclic(Followed, D \cup {n})
<1>1. Closed(D \cup {n})  BY DEF Closed
<1>2. ASSUME NEW C \in SUBSET (D \cup {n}), C # {},
             \A a \in C : \E b \in C : <<a, b>> \in Followed
      PROVE  FALSE
  <2> DEFINE B == C \ {n}
  <2>1. B # {}
    <3>1. PICK a \in C : TRUE  BY <1>2
    <3>2. PICK b \in C : <<a, b>> \in Followed  BY <1>2, <3>1
    <3>3. a # n \/ b \in D  BY <3>2
    <3> QED  BY <3>1, <3>3
  <2>2. ASSUME NEW a \in B PROVE \E b \in B : <<a, b>> \in Followed
    <3>1. a \in D /\ a \in C  OBVIOUS
    <3>2. PICK b \in C : <<a, b>> \in Followed  BY <1>2, <3>1
    <3>3. b \in D  BY <3>1, <3>2 DEF Closed
    <3> QED  BY <3>2, <3>3
  <2>3. B \in SUBSET D  OBVIOUS
  <2> HIDE DEF B
  <2> QED  BY <2>1, <2>2, <2>3 DEF Cyclic
<1> QED  BY <1>1, <1>2 DEF Cyclic

LEMMA Leaves == ASSUME LoadInv, Leave PROVE LoadInv'
<1>1. /\ stage = "detect" /\ Returns /\ stack' = Front(stack)
      /\ visiting' = visiting \ {Top.name} /\ visited' = visited \cup {Top.name}
      /\ UNCHANGED <<units, verdict, stage, pos, order>>
  BY DEF Leave
<1>2. /\ LoadTypeOK /\ AllKnown /\ visiting = OnStack
      /\ Walk(stack, pos, visited) /\ Closed(visited) /\ ~Cyclic(Followed, visited)
  BY <1>1 DEF LoadInv, Detecting
<1>3. /\ Top.name \in BareNames \ visited
      /\ \A e \in Followed : e[1] = Top.name => e[2] \in visited
      /\ Walk(stack', pos', visited \cup {Top.name})
      /\ stack' \in Seq(Frames)
      /\ OnStack' = OnStack \ {Top.name}
  BY <1>1, <1>2, WalkReturns, Returning
<1>4. Closed(visited \cup {Top.name}) /\ ~Cyclic(Followed, visited \cup {Top.name})
  BY <1>2, <1>3, NoNewCycle
<1>5. visited' \subseteq BareNames /\ visiting' \subseteq BareNames /\ pos' \in 1..Len(units) + 1
  BY <1>1, <1>2, <1>3 DEF LoadTypeOK
<1> QED  BY <1>1, <1>2, <1>3, <1>4, <1>5, Detects

\* When the loop over the units is over, every name is finished.
LEMMA AllFinished ==
  ASSUME LoadTypeOK, NEW D, Walk(stack, pos, D), stack = <<>>, pos > Len(units)
  PROVE  BareNames \subseteq D
<1>1. pos = Len(units) + 1  BY Stacked
<1>2. \A k \in 1..Len(units) : units[k].unit.name \in D
  BY <1>1, Stacked DEF Walk, Roots
<1> QED  BY <1>2, Listed

\* Sorting leaves the units what they are.
LEMMA Sorted ==
  ASSUME LoadTypeOK, Distinct, NEW p \in Bijection(DOMAIN units, DOMAIN units),
         units' = [k \in DOMAIN units |-> units[p[k]]]
  PROVE  /\ units' \in Seq([unit : Unit, deps : Seq(Dep)]) /\ Len(units') = Len(units)
         /\ Distinct'
         /\ Described' = Described /\ BareNames' = BareNames /\ BareEdges' = BareEdges
         /\ AllKnown' <=> AllKnown
         /\ UniqueNames' <=> UniqueNames
<1> DEFINE n == Len(units)
           Entries == [unit : Unit, deps : Seq(Dep)]
<1>1. n \in Nat /\ DOMAIN units = 1..n  BY Listed
<1>2. units \in Seq(Entries)  BY DEF LoadTypeOK
<1>3. \A k \in 1..n : p[k] \in 1..n /\ units'[k] = units[p[k]]
  BY <1>1 DEF Bijection, Injection
<1>4. \A k \in 1..n : \E l \in 1..n : p[l] = k  BY <1>1 DEF Bijection, Surjection
<1> HIDE DEF Entries
<1>5. \A k \in 1..n : units[k] \in Entries  BY <1>1, <1>2, ElementOfSeq
<1>6. units' \in [1..n -> Entries]  BY <1>1, <1>3, <1>5
<1>7. units' \in Seq(Entries) /\ Len(units') = n /\ DOMAIN units' = 1..n
  BY <1>1, <1>6, SeqDef, LenProperties
<1> HIDE DEF n
<1>8. Distinct'
  <2> SUFFICES ASSUME NEW k \in 1..n, NEW l \in 1..n, units'[k].unit = units'[l].unit
               PROVE  k = l
    BY <1>7 DEF Distinct
  <2>1. p[k] = p[l]  BY <1>1, <1>3 DEF Distinct
  <2> QED  BY <1>1, <2>1 DEF Bijection, Injection, IsInjective
<1>9. Described' = Described
  <2>1. Described = {units[k].unit : k \in 1..n}  BY <1>1 DEF Described
  <2>2. Described' = {units'[k].unit : k \in 1..n}  BY <1>7 DEF Described
  <2>3. ASSUME NEW k \in 1..n PROVE units'[k].unit \in Described
    BY <1>3, <2>1
  <2>4. ASSUME NEW k \in 1..n PROVE units[k].unit \in Described'
    <3>1. PICK l \in 1..n : p[l] = k  BY <1>4
    <3>2. units'[l] = units[k]  BY <1>3, <3>1
    <3> QED  BY <2>2, <3>2
  <2> QED  BY <2>1, <2>2, <2>3, <2>4
<1>10. BareNames' = BareNames  BY <1>9 DEF BareNames
<1>11. \A d : Known(d)' <=> Known(d)  BY <1>9, <1>10 DEF Known
<1>12. AllKnown' <=> AllKnown
  <2>1. AllKnown <=> \A k \in 1..n : \A j \in DOMAIN units[k].deps : Known(units[k].deps[j])
    BY <1>1 DEF AllKnown
  <2>2. AllKnown' <=> \A k \in 1..n : \A j \in DOMAIN units'[k].deps : Known(units'[k].deps[j])
    BY <1>7, <1>9, <1>10 DEF AllKnown, Known
  <2> QED  BY <1>3, <1>4, <2>1, <2>2
<1>13. BareEdges' = BareEdges
  <2> DEFINE Of(u) == {<<u.unit.name, u.deps[j].name>> : j \in DOMAIN u.deps}
  <2>1. BareEdges = UNION {Of(units[k]) : k \in 1..n}  BY <1>1 DEF BareEdges
  <2>2. BareEdges' = UNION {Of(units'[k]) : k \in 1..n}  BY <1>7 DEF BareEdges
  <2> HIDE DEF Of
  <2>3. ASSUME NEW k \in 1..n PROVE \E l \in 1..n : Of(units'[k]) = Of(units[l])
    BY <1>3
  <2>4. ASSUME NEW k \in 1..n PROVE \E l \in 1..n : Of(units[k]) = Of(units'[l])
    <3>1. PICK l \in 1..n : p[l] = k  BY <1>4
    <3>2. units'[l] = units[k]  BY <1>3, <3>1
    <3> QED  BY <3>2
  <2>5. \A x : (\E k \in 1..n : x \in Of(units[k])) <=> \E k \in 1..n : x \in Of(units'[k])
    BY <2>3, <2>4
  <2>6. \A x : x \in BareEdges <=> \E k \in 1..n : x \in Of(units[k])  BY <2>1
  <2>7. \A x : x \in BareEdges' <=> \E k \in 1..n : x \in Of(units'[k])  BY <2>2
  <2> QED  BY <2>5, <2>6, <2>7
<1>14. UniqueNames' <=> UniqueNames  BY <1>9 DEF UniqueNames
<1> QED  BY <1>1, <1>7, <1>8, <1>9, <1>10, <1>12, <1>13, <1>14 DEF Entries, n

LEMMA Accepts == ASSUME LoadInv, Accept PROVE LoadInv'
<1>1. /\ stage = "detect" /\ stack = <<>> /\ pos > Len(units)
      /\ verdict' = "accepted" /\ stage' = "order" /\ pos' = 1 /\ visited' = {}
      /\ UNCHANGED <<stack, visiting, order>>
  BY DEF Accept
<1>2. /\ LoadTypeOK /\ Distinct /\ AllKnown /\ order = <<>>
      /\ Walk(stack, pos, visited) /\ ~Cyclic(Followed, visited)
  BY <1>1 DEF LoadInv, Detecting
<1>3. PICK p \in Bijection(DOMAIN units, DOMAIN units) :
        units' = [k \in DOMAIN units |-> units[p[k]]]
  BY DEF Accept
<1>4. /\ units' \in Seq([unit : Unit, deps : Seq(Dep)]) /\ Len(units') = Len(units)
      /\ Distinct' /\ BareNames' = BareNames /\ BareEdges' = BareEdges
      /\ AllKnown' /\ (UniqueNames' <=> UniqueNames)
  BY <1>2, <1>3, Sorted
<1>5. BareNames \subseteq visited  BY <1>1, <1>2, AllFinished
<1>6. ~Cyclic(Followed, BareNames)  BY <1>2, <1>5 DEF Cyclic
<1>7. LoadTypeOK'
  <2>1. pos' \in 1..Len(units') + 1  BY <1>1, <1>2, <1>4, Stacked
  <2> QED  BY <1>1, <1>2, <1>4, <2>1 DEF LoadTypeOK
<1>8. ASSUME UniqueNames' PROVE ~Cyclic(Followed', BareNames')
  <2>1. Followed = BareEdges  BY <1>2, <1>4, <1>8, FollowedAll
  <2>2. (LoadTypeOK /\ Distinct /\ UniqueNames /\ AllKnown => Followed = BareEdges)'
    BY FollowedAll, PTL
  <2>3. Followed' = BareEdges'  BY <1>4, <1>7, <1>8, <2>2
  <2> QED  BY <1>4, <1>6, <2>1, <2>3
<1>9. Ordering'
  <2>1. ToSet(order') = {} /\ OnStack' = {}  BY <1>1, <1>2 DEF ToSet, OnStack
  <2>2. Walk(stack, pos, ToSet(order))'  BY <1>1, <2>1 DEF Walk, Roots
  <2> QED  BY <1>1, <2>1, <2>2 DEF Ordering
<1>10. Ordered'  BY <1>1, <1>2, Unordered
<1>11. Judged'  BY <1>1, <1>4, <1>8 DEF Judged, Cyclic
<1>12. Starting' /\ Detecting'  BY <1>1 DEF Starting, Detecting
<1> QED  BY <1>4, <1>7, <1>9, <1>10, <1>11, <1>12 DEF LoadInv

\* A step of DependencyOrder that goes on.
LEMMA Orders ==
  ASSUME LoadInv, stage = "order", UNCHANGED <<units, verdict, stage, visiting>>,
         stack' \in Seq(Frames), pos' \in 1..Len(units) + 1, order' \in Seq(BareNames),
         visited' \subseteq BareNames,
         UniqueNames => /\ visited' = ToSet(order') \cup OnStack'
                        /\ Walk(stack', pos', ToSet(order')) /\ Ordered'
  PROVE  LoadInv'
<1>1. verdict = "accepted" /\ AllKnown /\ (UniqueNames => ~Cyclic(Followed, BareNames))
  BY DEF LoadInv, Ordering, Judged
<1>2. AllKnown' /\ Followed' = Followed /\ BareNames' = BareNames /\ (UniqueNames' <=> UniqueNames)
  BY <1>1, Same
<1>3. LoadTypeOK' /\ Distinct'  BY TypesKept DEF LoadInv, LoadTypeOK
<1>4. UniqueNames => Walk(stack, pos, ToSet(order))'  BY SameWalks
<1>5. Ordering'  BY <1>1, <1>2, <1>4 DEF Ordering
<1>6. Judged'  BY <1>1, <1>2 DEF Judged, Cyclic
<1>7. Starting' /\ Detecting'  BY DEF Starting, Detecting
<1> QED  BY <1>2, <1>3, <1>5, <1>6, <1>7 DEF LoadInv

\* What holds then, with and without names of its own for each unit.
LEMMA WhileOrdering ==
  ASSUME LoadInv, stage = "order"
  PROVE  /\ LoadTypeOK /\ AllKnown
         /\ UniqueNames => /\ visited = ToSet(order) \cup OnStack
                           /\ Walk(stack, pos, ToSet(order)) /\ Ordered
                           /\ ~Cyclic(Followed, BareNames)
BY DEF LoadInv, Ordering, Judged

LEMMA EntersInOrder == ASSUME LoadInv, NEW n \in Names, EnterInOrder(n) PROVE LoadInv'
<1>1. /\ stage = "order" /\ Reaches(n) /\ n \notin visited /\ Call(n)
      /\ visited' = visited \cup {n}
      /\ UNCHANGED <<units, verdict, stage, visiting, order>>
  BY DEF EnterInOrder
<1>2. LoadTypeOK /\ AllKnown  BY <1>1, WhileOrdering
<1>3. n \in BareNames  BY <1>1, <1>2, Called
<1>4. stack' \in Seq(Frames) /\ pos' \in 1..Len(units) + 1  BY <1>1, <1>2, Calling
<1>5. visited' \subseteq BareNames /\ order' \in Seq(BareNames)
  BY <1>1, <1>2, <1>3 DEF LoadTypeOK
<1>6. ASSUME UniqueNames
      PROVE  /\ visited' = ToSet(order') \cup OnStack'
             /\ Walk(stack', pos', ToSet(order')) /\ Ordered'
  <2>1. visited = ToSet(order) \cup OnStack /\ Walk(stack, pos, ToSet(order)) /\ Ordered
    BY <1>1, <1>6, WhileOrdering
  <2>2. Walk(stack', pos', ToSet(order)) /\ OnStack' = OnStack \cup {n}
    BY <1>1, <1>2, <2>1, WalkCalls
  <2>3. Followed' = Followed /\ BareNames' = BareNames  BY <1>1, Same
  <2> QED  BY <1>1, <2>1, <2>2, <2>3 DEF Ordered
<1> QED  BY <1>1, <1>4, <1>5, <1>6, Orders

LEMMA RevisitsInOrder == ASSUME LoadInv, NEW n \in Names, RevisitInOrder(n) PROVE LoadInv'
<1>1. /\ stage = "order" /\ Reaches(n) /\ n \in visited /\ Proceed
      /\ UNCHANGED <<units, verdict, stage, visiting, visited, order>>
  BY DEF RevisitInOrder
<1>2. LoadTypeOK /\ AllKnown  BY <1>1, WhileOrdering
<1>3. stack' \in Seq(Frames) /\ pos' \in 1..Len(units) + 1  BY <1>1, <1>2, Proceeding
<1>4. visited' \subseteq BareNames /\ order' \in Seq(BareNames)  BY <1>1, <1>2 DEF LoadTypeOK
<1>5. ASSUME UniqueNames
      PROVE  /\ visited' = ToSet(order') \cup OnStack'
             /\ Walk(stack', pos', ToSet(order')) /\ Ordered'
  <2>1. /\ visited = ToSet(order) \cup OnStack /\ Walk(stack, pos, ToSet(order)) /\ Ordered
        /\ ~Cyclic(Followed, BareNames)
    BY <1>1, <1>5, WhileOrdering
  <2>2. n \in ToSet(order)  BY <1>1, <1>2, <2>1, CallBack
  <2>3. Walk(stack', pos', ToSet(order)) /\ OnStack' = OnStack
    BY <1>1, <1>2, <2>1, <2>2, WalkProceeds
  <2>4. Followed' = Followed /\ BareNames' = BareNames  BY <1>1, Same
  <2> QED  BY <1>1, <2>1, <2>3, <2>4 DEF Ordered
<1> QED  BY <1>1, <1>3, <1>4, <1>5, Orders

\* The name of a call that ends comes after what it depends on.
LEMMA Appended ==
  ASSUME LoadTypeOK, Ordered, UNCHANGED units, NEW n \in BareNames, n \notin ToSet(order),
         \A e \in Followed : e[1] = n => e[2] \in ToSet(order),
         order' = Append(order, n)
  PROVE  Ordered' /\ ToSet(order') = ToSet(order) \cup {n}
<1> DEFINE m == Len(order)
<1>1. m \in Nat /\ DOMAIN order = 1..m /\ order \in Seq(BareNames)  BY DEF LoadTypeOK
<1>2. /\ DOMAIN order' = 1..(m + 1)
      /\ order'[m + 1] = n /\ \A a \in 1..m : order'[a] = order[a]
  BY <1>1, AppendProperties, LenProperties
<1>3. \A a \in 1..(m + 1) : a \in 1..m \/ a = m + 1  BY <1>1
<1>4. ToSet(order) = {order[a] : a \in 1..m} /\ ToSet(order') = {order'[a] : a \in 1..(m + 1)}
  BY <1>1, <1>2 DEF ToSet
<1>5. ToSet(order') = ToSet(order) \cup {n}
  <2>1. 1..(m + 1) = 1..m \cup {m + 1}  BY <1>1
  <2> QED  BY <1>2, <1>4, <2>1
<1> HIDE DEF m
<1>6. Followed' = Followed /\ BareNames' = BareNames  BY Same
<1>7. \A a, b \in 1..(m + 1) : order'[a] = order'[b] => a = b
  <2>1. \A a, b \in 1..m : order[a] = order[b] => a = b  BY <1>1 DEF Ordered
  <2>2. \A a \in 1..m : order[a] # n  BY <1>4
  <2> QED  BY <1>2, <1>3, <2>1, <2>2
<1>8. ASSUME NEW a \in 1..(m + 1), NEW d \in BareNames, <<order'[a], d>> \in Followed
      PROVE  \E b \in 1..(m + 1) : b < a /\ order'[b] = d
  <2>1. CASE a \in 1..m
    <3>1. <<order[a], d>> \in Followed  BY <1>2, <1>8, <2>1
    <3>2. PICK b \in 1..m : b < a /\ order[b] = d  BY <1>1, <2>1, <3>1 DEF Ordered
    <3> QED  BY <1>1, <1>2, <3>2
  <2>2. CASE a = m + 1
    <3>1. <<n, d>> \in Followed  BY <1>2, <1>8, <2>2
    <3>2. d \in ToSet(order)  BY <3>1
    <3>3. PICK b \in 1..m : order[b] = d  BY <1>4, <3>2
    <3> QED  BY <1>1, <1>2, <2>2, <3>3
  <2> QED  BY <1>3, <2>1, <2>2
<1>9. \A a, b \in DOMAIN order' : order'[a] = order'[b] => a = b  BY <1>2, <1>7
<1>10. ASSUME NEW a \in DOMAIN order', NEW d \in BareNames', <<order'[a], d>> \in Followed'
       PROVE  \E b \in DOMAIN order' : b < a /\ order'[b] = d
  <2>1. a \in 1..(m + 1)  BY <1>2
  <2>2. d \in BareNames /\ <<order'[a], d>> \in Followed  BY <1>6, <1>10
  <2>3. \E b \in 1..(m + 1) : b < a /\ order'[b] = d  BY <1>8, <2>1, <2>2
  <2> QED  BY <1>2, <2>3
<1> QED  BY <1>5, <1>9, <1>10 DEF Ordered

LEMMA LeavesInOrder == ASSUME LoadInv, LeaveInOrder PROVE LoadInv'
<1>1. /\ stage = "order" /\ Returns /\ stack' = Front(stack)
      /\ order' = Append(order, Top.name)
      /\ UNCHANGED <<units, verdict, stage, pos, visiting, visited>>
  BY DEF LeaveInOrder
<1>2. LoadTypeOK /\ AllKnown  BY <1>1, WhileOrdering
<1> DEFINE n == Top.name
<1>3. n \in BareNames /\ stack' \in Seq(Frames)  BY <1>1, <1>2, Returning
<1>4. order' \in Seq(BareNames) /\ visited' \subseteq BareNames /\ pos' \in 1..Len(units) + 1
  BY <1>1, <1>2, <1>3, AppendProperties DEF LoadTypeOK
<1>5. ASSUME UniqueNames
      PROVE  /\ visited' = ToSet(order') \cup OnStack'
             /\ Walk(stack', pos', ToSet(order')) /\ Ordered'
  <2>1. visited = ToSet(order) \cup OnStack /\ Walk(stack, pos, ToSet(order)) /\ Ordered
    BY <1>1, <1>5, WhileOrdering
  <2>2. /\ n \notin ToSet(order) /\ n \in OnStack
        /\ \A e \in Followed : e[1] = n => e[2] \in ToSet(order)
        /\ Walk(stack', pos', ToSet(order) \cup {n})
        /\ OnStack' = OnStack \ {n}
    BY <1>1, <1>2, <2>1, WalkReturns
  <2> HIDE DEF n
  <2>3. order' = Append(order, n)  BY <1>1 DEF n
  <2>4. Ordered' /\ ToSet(order') = ToSet(order) \cup {n}
    BY <1>1, <1>2, <1>3, <2>1, <2>2, <2>3, Appended
  <2> QED  BY <1>1, <2>1, <2>2, <2>4
<1> QED  BY <1>1, <1>3, <1>4, <1>5, Orders

LEMMA EndsOrder == ASSUME LoadInv, EndOrder PROVE LoadInv'
<1>1. /\ stage = "order" /\ stack = <<>> /\ pos > Len(units) /\ stage' = "done"
      /\ UNCHANGED <<units, verdict, pos, stack, visiting, visited, order>>
  BY DEF EndOrder, traversal
<1>2. LoadTypeOK /\ AllKnown /\ verdict = "accepted"
  BY <1>1, WhileOrdering DEF LoadInv, Ordering
<1>3. UniqueNames => BareNames \subseteq ToSet(order)
  BY <1>1, <1>2, AllFinished, WhileOrdering
<1>4. ToSet(order) \subseteq BareNames
  <2>1. order \in Seq(BareNames)  BY <1>2 DEF LoadTypeOK
  <2>2. \A a \in DOMAIN order : order[a] \in BareNames  BY <2>1, ElementOfSeq
  <2> QED  BY <2>2 DEF ToSet
<1>5. Followed' = Followed /\ BareNames' = BareNames /\ AllKnown' /\ (UniqueNames' <=> UniqueNames)
  BY <1>1, <1>2, Same
<1>6. LoadTypeOK' /\ Distinct'  BY <1>1, TypesKept, StackTyped DEF LoadInv, LoadTypeOK
<1>7. (UniqueNames => Ordered)'  BY <1>1, OrderKept DEF LoadInv
<1>8. Judged'
  <2>1. UniqueNames => ~Cyclic(Followed, BareNames)  BY <1>1, WhileOrdering
  <2> QED  BY <1>1, <1>2, <1>3, <1>4, <1>5, <2>1 DEF Judged, Cyclic
<1>9. Starting' /\ Detecting' /\ Ordering'  BY <1>1 DEF Starting, Detecting, Ordering
<1> QED  BY <1>6, <1>7, <1>8, <1>9 DEF LoadInv

LEMMA LoadStep == ASSUME LoadInv, [LoadNext]_load PROVE LoadInv'
<1>1. CASE LoadNext
  BY <1>1, Rejects, Begins, Enters, Revisits, Leaves, Accepts, EntersInOrder, RevisitsInOrder,
     LeavesInOrder, EndsOrder DEF LoadNext, Detect, Order
<1>2. CASE UNCHANGED load
  <2>1. UNCHANGED <<units, verdict, stage, pos, stack, visiting, visited, order>>
    BY <1>2 DEF load, traversal
  <2>2. /\ Followed' = Followed /\ BareNames' = BareNames
        /\ (AllKnown' <=> AllKnown) /\ (UniqueNames' <=> UniqueNames)
    BY <2>1, Same
  <2>3. LoadTypeOK' /\ Distinct'  BY <2>1, TypesKept, StackTyped DEF LoadInv, LoadTypeOK
  <2>4. (UniqueNames => Ordered)'  BY <2>1, OrderKept DEF LoadInv
  <2>5. Judged'  BY <2>1, <2>2 DEF LoadInv, Judged, Cyclic
  <2>6. Starting'  BY <2>1 DEF LoadInv, Starting
  <2>7. Detecting'
    <3>1. Walk(stack, pos, visited) => Walk(stack, pos, visited)'  BY <2>1, SameWalks
    <3> QED  BY <2>1, <2>2, <3>1 DEF LoadInv, Detecting, Closed, Cyclic, OnStack
  <2>8. Ordering'
    <3>1. Walk(stack, pos, ToSet(order)) => Walk(stack, pos, ToSet(order))'  BY <2>1, SameWalks
    <3> QED  BY <2>1, <2>2, <3>1 DEF LoadInv, Ordering, OnStack
  <2> QED  BY <2>3, <2>4, <2>5, <2>6, <2>7, <2>8 DEF LoadInv
<1> QED  BY <1>1, <1>2

LEMMA LoadInitial == LoadInit => LoadInv
<1> SUFFICES ASSUME LoadInit PROVE LoadInv  OBVIOUS
<1> DEFINE Entries == [unit : Unit, deps : Seq(Dep)]
<1>n. PICK n \in 0..MaxUnits : \E us \in [1..n -> Unit] : \E ls \in [1..n -> Lists] :
        IsInjective(us) /\ units = [k \in 1..n |-> [unit |-> us[k], deps |-> ls[k]]]
  BY DEF LoadInit
<1>u. PICK us \in [1..n -> Unit] : \E ls \in [1..n -> Lists] :
        IsInjective(us) /\ units = [k \in 1..n |-> [unit |-> us[k], deps |-> ls[k]]]
  BY <1>n
<1>1. PICK ls \in [1..n -> Lists] :
        IsInjective(us) /\ units = [k \in 1..n |-> [unit |-> us[k], deps |-> ls[k]]]
  BY <1>u
<1>2. /\ verdict = "none" /\ stage = "validate" /\ pos = 1 /\ stack = <<>>
      /\ visiting = {} /\ visited = {} /\ order = <<>>
  BY DEF LoadInit
<1>3. n \in Nat  BY UnitsAssumption
<1>4. \A k \in 1..n : units[k] \in Entries /\ units[k].unit = us[k]
  BY <1>1, ListsAssumption
<1>5. units \in [1..n -> Entries]
  <2> HIDE DEF Entries
  <2> QED  BY <1>1, <1>4
<1>6. units \in Seq(Entries) /\ Len(units) = n /\ DOMAIN units = 1..n
  <2> HIDE DEF Entries
  <2> QED  BY <1>3, <1>5, SeqDef, LenProperties
<1>7. LoadTypeOK
  <2>1. pos \in 1..Len(units) + 1  BY <1>2, <1>3, <1>6
  <2> QED  BY <1>2, <1>6, <2>1, EmptySeq DEF LoadTypeOK
<1>8. Distinct  BY <1>1, <1>4, <1>6 DEF Distinct, IsInjective
<1> QED  BY <1>2, <1>7, <1>8, Unordered DEF LoadInv, Starting, Detecting, Ordering, Ordered, Judged

\* The walks are right, at every step of both.
THEOREM LoadInductive == LoadSpec => []LoadInv
<1>1. LoadInv /\ [LoadNext]_load => LoadInv'  BY LoadStep
<1> QED  BY LoadInitial, <1>1, PTL DEF LoadSpec

\* The variables have their types.
THEOREM LoadTypeCorrect == LoadSpec => []LoadTypeOK
<1>1. LoadInv => LoadTypeOK  BY DEF LoadInv
<1> QED  BY LoadInductive, <1>1, PTL

\* Whatever names the units have, config.Load accepts a configuration exactly
\* when its dependencies exist and those that detectCycle follows form no cycle.
VerdictExact ==
  verdict' # verdict => (verdict' = "accepted" <=> AllKnown /\ ~Cyclic(Followed, BareNames))

THEOREM VerdictsExact == LoadSpec => [][VerdictExact]_load
<1>1. ASSUME LoadInv, LoadInv', [LoadNext]_load PROVE [VerdictExact]_load
  <2> SUFFICES ASSUME LoadNext, verdict' # verdict PROVE VerdictExact
    BY <1>1 DEF VerdictExact
  <2>1. \/ RejectUnknown \/ Accept
        \/ \E n \in Names : FindCycle(n)
    BY DEF LoadNext, BeginDetect, Detect, Enter, Revisit, Leave,
           Order, EnterInOrder, RevisitInOrder, LeaveInOrder, EndOrder
  <2>2. CASE RejectUnknown  BY <2>2 DEF RejectUnknown, VerdictExact
  <2>3. ASSUME NEW n \in Names, FindCycle(n) PROVE VerdictExact
    <3>1. stage = "detect" /\ Reaches(n) /\ n \in visiting /\ verdict' = "rejected"
      BY <2>3 DEF FindCycle
    <3>2. LoadTypeOK /\ AllKnown /\ n \in OnStack /\ Walk(stack, pos, visited)
      BY <1>1, <3>1 DEF LoadInv, Detecting
    <3> QED  BY <3>1, <3>2, CallBack DEF VerdictExact
  <2>4. CASE Accept
    <3>1. stage = "detect" /\ stack = <<>> /\ pos > Len(units) /\ verdict' = "accepted"
      BY <2>4 DEF Accept
    <3>2. LoadTypeOK /\ AllKnown /\ Walk(stack, pos, visited) /\ ~Cyclic(Followed, visited)
      BY <1>1, <3>1 DEF LoadInv, Detecting
    <3>3. BareNames \subseteq visited  BY <3>1, <3>2, AllFinished
    <3> QED  BY <3>1, <3>2, <3>3 DEF VerdictExact, Cyclic
  <2> QED  BY <2>1, <2>2, <2>3, <2>4
<1> QED  BY LoadInductive, <1>1, PTL DEF LoadSpec

\* And what a cycle goes through are units.
LEMMA CyclesAmongUnits ==
  ASSUME LoadTypeOK, Followed = BareEdges
  PROVE  Cyclic(BareEdges, Names) <=> Cyclic(Followed, BareNames)
<1>1. \A e \in Followed : e[1] \in BareNames  BY DEF Followed
<1>2. BareNames \subseteq Names  BY Listed
<1>3. ASSUME NEW C \in SUBSET Names, \A a \in C : \E b \in C : <<a, b>> \in Followed
      PROVE  C \subseteq BareNames
  BY <1>1, <1>3
<1> QED  BY <1>2, <1>3 DEF Cyclic

LEMMA KnownMeans ==
  ASSUME LoadTypeOK
  PROVE  AllKnown <=> (\A k \in DOMAIN units : \A j \in DOMAIN units[k].deps :
           LET d == units[k].deps[j]
           IN \E v \in Described : v.name = d.name /\ d.type \in {NoType, v.type})
<1>1. \A v \in Described : v \in Unit  BY Listed DEF Described
<1>2. ASSUME NEW d \in Dep
      PROVE  Known(d) <=> (\E v \in Described : v.name = d.name /\ d.type \in {NoType, v.type})
  <2>1. CASE d.type = NoType  BY <2>1 DEF Known, BareNames
  <2>2. CASE d.type # NoType
    <3>1. \A v \in Described : (v.name = d.name /\ v.type = d.type) <=> v = d
      BY <1>1 DEF Unit, Dep
    <3> QED  BY <2>2, <3>1 DEF Known
  <2> QED  BY <2>1, <2>2
<1>3. \A k \in DOMAIN units : \A j \in DOMAIN units[k].deps : units[k].deps[j] \in Dep
  BY Listed, ElementOfSeq
<1> QED  BY <1>2, <1>3 DEF AllKnown

\* As long as no two units share a bare name, config.Load accepts exactly the
\* configurations whose dependencies exist and form no cycle.
THEOREM CyclesRejected == LoadSpec => []ExactlyCyclesRejected
<1>1. LoadInv => ExactlyCyclesRejected
  <2> SUFFICES ASSUME LoadInv, verdict # "none", UniqueNames
               PROVE  verdict = "accepted" <=>
                        /\ \A k \in DOMAIN units : \A j \in DOMAIN units[k].deps :
                             LET d == units[k].deps[j]
                             IN \E v \in Described : v.name = d.name /\ d.type \in {NoType, v.type}
                        /\ ~Cyclic(BareEdges, Names)
    BY DEF ExactlyCyclesRejected
  <2>1. verdict \in {"accepted", "rejected"} /\ LoadTypeOK /\ Distinct  BY DEF LoadInv, LoadTypeOK
  <2>2. verdict = "accepted" <=> AllKnown /\ ~Cyclic(Followed, BareNames)
    BY <2>1 DEF LoadInv, Judged
  <2>3. AllKnown => (Cyclic(BareEdges, Names) <=> Cyclic(Followed, BareNames))
    BY <2>1, FollowedAll, CyclesAmongUnits
  <2> QED  BY <2>1, <2>2, <2>3, KnownMeans
<1> QED  BY LoadInductive, <1>1, PTL

\* For such a configuration DependencyOrder lists every unit once, after all
\* it depends on.
THEOREM OrderCorrect == LoadSpec => []OrderRespectsDeps
<1>1. LoadInv => OrderRespectsDeps
  <2> SUFFICES ASSUME LoadInv, verdict = "accepted", stage = "done", UniqueNames
               PROVE  /\ IsInjective(order) /\ ToSet(order) = BareNames
                      /\ \A a, b \in DOMAIN order : <<order[a], order[b]>> \in BareEdges => b < a
    BY DEF OrderRespectsDeps
  <2>1. LoadTypeOK /\ Distinct /\ AllKnown /\ ToSet(order) = BareNames /\ Ordered
    BY DEF LoadInv, Judged
  <2>2. Followed = BareEdges  BY <2>1, FollowedAll
  <2>3. IsInjective(order)  BY <2>1 DEF Ordered, IsInjective
  <2>4. \A a \in DOMAIN order : order[a] \in BareNames  BY <2>1 DEF ToSet
  <2>5. \A a, b \in DOMAIN order : <<order[a], order[b]>> \in BareEdges => b < a
    <3> TAKE a, b \in DOMAIN order
    <3> HAVE <<order[a], order[b]>> \in BareEdges
    <3>1. PICK c \in DOMAIN order : c < a /\ order[c] = order[b]
      BY <2>1, <2>2, <2>4 DEF Ordered
    <3>2. c = b  BY <2>1, <3>1 DEF Ordered
    <3> QED  BY <3>1, <3>2
  <2> QED  BY <2>1, <2>3, <2>5
<1> QED  BY LoadInductive, <1>1, PTL
===============================================================================
