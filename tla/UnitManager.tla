----------------------------- MODULE UnitManager -----------------------------
(***************************************************************************)
(* systemd.Manager, shared by every goroutine of the daemon, and systemd's *)
(* job queue behind it.  DBusManager holds its mutex for the whole of a    *)
(* call, and waits for a job's result on a channel without looking at the  *)
(* caller's context; CtlManager has no mutex, and its systemctl is killed  *)
(* when the context ends.                                                  *)
(*                                                                         *)
(* A job is queued in mode "replace": it takes the place of a job the unit *)
(* already has (they conflict, or systemd would merge them), and whoever   *)
(* waits for that one is told "canceled".                                  *)
(* What a job does to its unit is no concern of the manager; nor are the   *)
(* values read.                                                            *)
(***************************************************************************)
EXTENDS FiniteSets

CONSTANTS Callers,   \* goroutines that call the manager
          Units,     \* full unit names
          Managers,  \* which of DBus and Ctl NewManager may choose
          None,      \* no caller, no unit
          Foreign,   \* the owner of jobs that others queue
          Orphan     \* the owner of jobs nobody waits for any more

\* The mutex of the manager as it is at first: nobody holds that of
\* DBusManager, and CtlManager has none.
DBus == None
Ctl  == "no mutex"

ASSUME ManagersAssumption == Managers \subseteq {DBus, Ctl}
ASSUME OwnersAssumption == /\ {None, Foreign, Orphan, Ctl} \cap Callers = {}
                           /\ None # Ctl
                           /\ None \notin {Foreign, Orphan} \cup Units
                           /\ Foreign # Orphan

VARIABLES call,   \* the call each goroutine is in
          mu,     \* the goroutine that holds DBusManager.mu, or None; or Ctl
          job     \* per unit: who queued the job it has, or None

manager == <<call, mu, job>>

NoCall == [at |-> "idle", op |-> None, unit |-> None]

ManagerInit == /\ call = [g \in Callers |-> NoCall]
               /\ mu \in Managers   \* without D-Bus, systemctl is used
               /\ job = [u \in Units |-> None]

Serial == mu # Ctl

At(g, place)  == call[g].at = place
Idle(g)       == At(g, "idle")
Goto(g, place) == call' = [call EXCEPT ![g].at = place]

----------------------------------------------------------------------------
(* A call: GetUnitState, GetTimerLastTrigger, ListUnits and WatchUnit are a   *)
(* "read", Start, Stop and Restart a "job".                                   *)

Begin(g, op, u) ==
  /\ Idle(g)
  /\ call' = [call EXCEPT ![g] =
                [at |-> IF Serial THEN "lock" ELSE "request", op |-> op, unit |-> u]]
  /\ UNCHANGED <<mu, job>>

\* The mutex is left out.
MutantAcquire(g) == /\ At(g, "lock")
                    /\ mu' = g
                    /\ Goto(g, "request")
                    /\ UNCHANGED job

Acquire(g) == /\ At(g, "lock") /\ mu = None
              /\ mu' = g
              /\ Goto(g, "request")
              /\ UNCHANGED job

\* The call returns; the deferred Unlock runs.
Finish(g) == /\ call' = [call EXCEPT ![g] = NoCall]
             /\ mu' = IF Serial THEN None ELSE mu

\* The answer may be an error as well.
Read(g) == /\ At(g, "request") /\ call[g].op = "read"
           /\ Finish(g)
           /\ UNCHANGED job

\* The caller's context is over, or systemd refuses the job.  The mutex is
\* not released.
MutantRefused(g) == /\ At(g, "request") /\ call[g].op = "job"
                    /\ call' = [call EXCEPT ![g] = NoCall]
                    /\ UNCHANGED <<mu, job>>

Refused(g) == /\ At(g, "request") /\ call[g].op = "job"
              /\ Finish(g)
              /\ UNCHANGED job

\* The job unit u had is replaced: whoever waits for it is told so.
Replaced(u) == {g \in Callers : job[u] = g}

Enqueue(g) ==
  LET u == call[g].unit
  IN /\ At(g, "request") /\ call[g].op = "job"
     /\ job' = [job EXCEPT ![u] = g]
     /\ call' = [h \in Callers |-> IF h = g THEN [call[g] EXCEPT !.at = "job"]
                                   ELSE IF h \in Replaced(u) THEN NoCall
                                   ELSE call[h]]
     /\ UNCHANGED mu

\* The result of g's job comes over the channel, "done" or not.
JobEnds(g) == /\ At(g, "job") /\ job[call[g].unit] = g
              /\ Finish(g)
              /\ job' = [job EXCEPT ![call[g].unit] = None]

\* The context ends: CtlManager's systemctl is killed, not the job.
GiveUp(g) == /\ ~Serial /\ At(g, "job")
             /\ Finish(g)
             /\ job' = [job EXCEPT ![call[g].unit] = Orphan]

----------------------------------------------------------------------------
(* The outside: an operator, or systemd itself, queues a job.                 *)

\* The result "canceled" does not reach the waiter.
MutantForeignJob(u) == /\ job[u] # Foreign
                       /\ job' = [job EXCEPT ![u] = Foreign]
                       /\ UNCHANGED <<call, mu>>

ForeignJob(u) ==
  /\ job[u] # Foreign
  /\ job' = [job EXCEPT ![u] = Foreign]
  /\ call' = [g \in Callers |-> IF g \in Replaced(u) THEN NoCall ELSE call[g]]
  /\ mu' = IF mu \in Replaced(u) THEN None ELSE mu

LooseJobEnds(u) == /\ job[u] \in {Foreign, Orphan}
                   /\ job' = [job EXCEPT ![u] = None]
                   /\ UNCHANGED <<call, mu>>

CallStep(g) == \/ Acquire(g) \/ Read(g) \/ Refused(g) \/ Enqueue(g)
               \/ JobEnds(g) \/ GiveUp(g)

OutsideStep(u) == ForeignJob(u) \/ LooseJobEnds(u)

ManagerNext == \/ \E g \in Callers : \/ \E op \in {"read", "job"}, u \in Units : Begin(g, op, u)
                                     \/ CallStep(g)
               \/ \E u \in Units : OutsideStep(u)

ManagerSpec == ManagerInit /\ [][ManagerNext]_manager

----------------------------------------------------------------------------
(* Properties *)

Calls == [at : {"lock", "request", "job"}, op : {"read", "job"}, unit : Units]
           \cup {NoCall}

\* The variables have their types.
ManagerTypeOK == /\ call \in [Callers -> Calls]
                 /\ mu \in Callers \cup {None, Ctl}
                 /\ job \in [Units -> Callers \cup {None, Foreign, Orphan}]

\* Every job that is still a goroutine's own is waited for by it, and waits are
\* for nothing else: a result can neither go to another call nor be missed.
JobsAwaited ==
  \A g \in Callers : \A u \in Units :
    job[u] = g <=> (At(g, "job") /\ call[g].unit = u)

\* With the mutex, whoever is past it holds it, from the request to the end
\* of the job; so the daemon has one operation under way at a time.
HolderInside ==
  Serial => \A g \in Callers : (At(g, "request") \/ At(g, "job")) <=> mu = g

\* With the mutex, no operation of the daemon makes systemd cancel another of
\* its operations, whoever asks for them: an idle stop, a restart attempt, the
\* control socket or the timer monitor.
OwnJobsNotReplaced ==
  [][Serial => \A u \in Units :
                 job[u] \in Callers /\ job'[u] # job[u] => job'[u] \in {None, Foreign}]_manager
=============================================================================
