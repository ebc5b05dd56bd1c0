-------------------------------- MODULE Daemon --------------------------------
(***************************************************************************)
(* The daemon's main goroutine (Run, the event loop and reload), the timer *)
(* monitor and the goroutines that start, stop and restart units on behalf *)
(* of others, all of them calling one unit manager; with what the daemon   *)
(* tells systemd about itself, the signals it gets and the shutdown of its *)
(* HTTP server.                                                            *)
(*                                                                         *)
(* The configuration names the same units at every reload: Registry models *)
(* what a reload does to the registrations.                                *)
(***************************************************************************)
EXTENDS UnitManager, Naturals

CONSTANTS Main,       \* the goroutine of Run
          TimerLoop,  \* the goroutine of timerMonitorLoop
          Workers,    \* control-socket connections, restart attempts, idle stops
          Timers,     \* timer units with a max_delay
          Unreadable, \* those of them that systemd need not know
          Signals,    \* signals that are sent to the daemon
          Probes,     \* HTTP requests
          Stuck       \* units whose jobs need not end

ASSUME DaemonAssumption == /\ Callers = {Main, TimerLoop} \cup Workers
                           /\ Main # TimerLoop
                           /\ {Main, TimerLoop} \cap Workers = {}
                           /\ Timers \subseteq Units
                           /\ Unreadable \subseteq Timers
                           /\ Stuck \subseteq Units
                           /\ Signals \subseteq {"hup", "term"}

VARIABLES phase,      \* where Main is
          todo,       \* manager calls Main has yet to make for each unit
          sigCh,      \* the one signal the channel holds, or None
          told,       \* the last state sent with sd_notify, or None
          cancelled,  \* the daemon's context is over
          asked,      \* history: a SIGTERM came after signal.Notify
          scan,       \* timers that checkTimers has yet to look at
          due,        \* the timer it found overdue and is about to restart, or None
          overdue,    \* per timer: its last trigger is more than max_delay ago
          probe       \* per HTTP request: "none", "open", or "dropped"

main   == <<phase, todo>>
notif  == <<sigCh, told, cancelled, asked>>
timer  == <<scan, due>>
vars   == <<manager, main, notif, timer, overdue, probe>>

\* registerUnit calls GetUnitState and WatchUnit; CtlManager's WatchUnit
\* only starts a goroutine.
CallsPerUnit == IF Serial THEN 2 ELSE 1

AllUnits == [u \in Units |-> CallsPerUnit]
NoUnits  == [u \in Units |-> 0]

Init == /\ ManagerInit
        /\ phase = "boot" /\ todo = AllUnits
        /\ sigCh = None /\ told = None
        /\ cancelled = FALSE /\ asked = FALSE
        /\ scan = {} /\ due = None
        /\ overdue = [t \in Timers |-> FALSE]
        /\ probe = [r \in Probes |-> "none"]

Alive == phase \notin {"stopped", "hungup"}

----------------------------------------------------------------------------
(* Run and reload *)

\* registerUnit: one call after the other, one unit after the other.
RegisterUnit(u) ==
  /\ phase \in {"boot", "register"} /\ todo[u] > 0
  /\ \A v \in Units \ {u} : todo[v] \in {0, CallsPerUnit}
  /\ Begin(Main, "read", u)
  /\ todo' = [todo EXCEPT ![u] = @ - 1]
  /\ UNCHANGED <<phase, notif, timer, overdue, probe>>

Registered == todo = NoUnits /\ Idle(Main)

\* The listeners are opened, READY is sent and /ready begins to say so.
BootDone == /\ phase = "boot" /\ Registered
            /\ phase' = "ready" /\ told' = "READY"
            /\ UNCHANGED <<manager, todo, sigCh, cancelled, asked, timer, overdue, probe>>

\* A listener cannot be opened: Run returns.
BootFails == /\ phase = "boot" /\ Registered
             /\ phase' = "stopped"
             /\ UNCHANGED <<manager, todo, notif, timer, overdue, probe>>

\* signal.Notify: from here on the three signals no longer end the process.
Notify == /\ phase = "ready"
          /\ phase' = "select"
          /\ UNCHANGED <<manager, todo, notif, timer, overdue, probe>>

TakeHup == /\ phase = "select" /\ sigCh = "hup"
           /\ sigCh' = None
           /\ told' = "RELOADING"
           /\ phase' = "load"
           /\ UNCHANGED <<manager, todo, cancelled, asked, timer, overdue, probe>>

\* A configuration that does not load leaves the daemon reloading for good.
MutantLoadFails == /\ phase = "load"
                   /\ phase' = "select"
                   /\ UNCHANGED <<manager, todo, notif, timer, overdue, probe>>

LoadFails == /\ phase = "load"
             /\ phase' = "select" /\ told' = "READY"
             /\ UNCHANGED <<manager, todo, sigCh, cancelled, asked, timer, overdue, probe>>

LoadOk == /\ phase = "load"
          /\ phase' = "register" /\ todo' = AllUnits
          /\ UNCHANGED <<manager, notif, timer, overdue, probe>>

ReloadDone == /\ phase = "register" /\ Registered
              /\ phase' = "select" /\ told' = "READY"
              /\ UNCHANGED <<manager, todo, sigCh, cancelled, asked, timer, overdue, probe>>

\* STOPPING is sent, and the context is forgotten.
MutantTakeTerm == /\ phase = "select" /\ sigCh = "term"
                  /\ sigCh' = None
                  /\ told' = "STOPPING"
                  /\ UNCHANGED <<manager, main, cancelled, asked, timer, overdue, probe>>

TakeTerm == /\ phase = "select" /\ sigCh = "term"
            /\ sigCh' = None
            /\ told' = "STOPPING"
            /\ cancelled' = TRUE
            /\ UNCHANGED <<manager, main, asked, timer, overdue, probe>>

\* Run returns and the process ends, with whatever still runs in it.
Exit == /\ phase = "select" /\ cancelled
        /\ phase' = "stopped" /\ told' = "STOPPING"
        /\ probe' = [r \in Probes |-> IF probe[r] = "open" THEN "dropped" ELSE probe[r]]
        /\ UNCHANGED <<manager, todo, sigCh, cancelled, asked, timer, overdue>>

----------------------------------------------------------------------------
(* Signals *)

\* A SIGHUP comes from systemctl reload, which waits for a unit that is
\* starting, or from kill.  signal.Notify drops a signal that finds the channel full.
Signal(s) ==
  /\ Alive
  /\ s = "hup" => told # None
  /\ IF phase \in {"boot", "ready"}
     THEN /\ phase' = IF s = "hup" THEN "hungup" ELSE "stopped"
          /\ UNCHANGED <<sigCh, asked>>
     ELSE /\ sigCh' = IF sigCh = None THEN s ELSE sigCh
          /\ asked' = (asked \/ s = "term")
          /\ UNCHANGED phase
  /\ UNCHANGED <<manager, todo, told, cancelled, timer, overdue, probe>>

----------------------------------------------------------------------------
(* The timer monitor *)

Tick == /\ phase # "boot" /\ Alive /\ ~cancelled
        /\ scan = {} /\ due = None /\ Idle(TimerLoop)
        /\ scan' = Timers
        /\ UNCHANGED <<manager, main, notif, due, overdue, probe>>

ReadTimer(t) == /\ Alive
                /\ t \in scan /\ due = None
                /\ Begin(TimerLoop, "read", t)
                /\ scan' = scan \ {t}
                /\ UNCHANGED <<main, notif, due, overdue, probe>>

\* GetTimerLastTrigger gives the time of the last trigger of t.
TimerRead(t) == /\ Alive
                /\ call[TimerLoop].unit = t
                /\ Read(TimerLoop)
                /\ due' = IF overdue[t] THEN t ELSE None
                /\ UNCHANGED <<main, notif, scan, overdue, probe>>

\* An error, or no trigger yet: on to the next timer.
TimerNotRead == /\ Alive
                /\ Read(TimerLoop)
                /\ UNCHANGED <<main, notif, timer, overdue, probe>>

\* Overdue or not, the timer is restarted.
MutantRestartTimer == /\ Alive
                      /\ Begin(TimerLoop, "job", due)
                      /\ due' = None
                      /\ UNCHANGED <<main, notif, scan, overdue, probe>>

RestartTimer == /\ Alive /\ due # None
                /\ Begin(TimerLoop, "job", due)
                /\ due' = None
                /\ UNCHANGED <<main, notif, scan, overdue, probe>>

TimerLate(t)  == /\ Alive /\ ~overdue[t]
                 /\ overdue' = [overdue EXCEPT ![t] = TRUE]
                 /\ UNCHANGED <<manager, main, notif, timer, probe>>
TimerFires(t) == /\ Alive /\ overdue[t]
                 /\ overdue' = [overdue EXCEPT ![t] = FALSE]
                 /\ UNCHANGED <<manager, main, notif, timer, probe>>

----------------------------------------------------------------------------
(* The other callers, the manager, and HTTP requests *)

rest == <<main, notif, timer, overdue, probe>>

WorkerCalls(w, u) == Alive /\ Begin(w, "job", u) /\ UNCHANGED rest

Locks(g)    == Alive /\ Acquire(g) /\ UNCHANGED rest
MainReads   == Alive /\ Read(Main) /\ UNCHANGED rest
Asks(g)     == Alive /\ (Refused(g) \/ Enqueue(g)) /\ UNCHANGED rest
JobDone(g)  == Alive /\ JobEnds(g) /\ UNCHANGED rest
\* Only a worker has a context of its own.
GivesUp(g)  == Alive /\ (g \in Workers \/ cancelled) /\ GiveUp(g) /\ UNCHANGED rest
Outside(u)  == Alive /\ OutsideStep(u) /\ UNCHANGED rest

\* The HTTP server accepts until its Shutdown, which begins when the context
\* ends and lets open requests finish.
Request(r) == /\ Alive /\ phase # "boot" /\ ~cancelled /\ probe[r] = "none"
              /\ probe' = [probe EXCEPT ![r] = "open"]
              /\ UNCHANGED <<manager, main, notif, timer, overdue>>
Respond(r) == /\ Alive /\ probe[r] = "open"
              /\ probe' = [probe EXCEPT ![r] = "none"]
              /\ UNCHANGED <<manager, main, notif, timer, overdue>>

Finished == ~Alive /\ UNCHANGED vars

MainStep  == \/ \E u \in Units : RegisterUnit(u)
             \/ BootDone \/ Notify \/ TakeHup \/ TakeTerm
             \/ LoadFails \/ LoadOk \/ ReloadDone

TimerStep == \/ Tick \/ RestartTimer
             \/ \E t \in Timers : ReadTimer(t)

Next == \/ MainStep \/ BootFails \/ Exit
        \/ \E s \in Signals : Signal(s)
        \/ TimerStep \/ TimerNotRead
        \/ \E t \in Timers : TimerRead(t) \/ TimerLate(t) \/ TimerFires(t)
        \/ \E w \in Workers, u \in Units : WorkerCalls(w, u)
        \/ MainReads
        \/ \E g \in Callers : Locks(g) \/ Asks(g) \/ JobDone(g) \/ GivesUp(g)
        \/ \E u \in Units : Outside(u)
        \/ \E r \in Probes : Request(r) \/ Respond(r)
        \/ Finished

\* Goroutines run; Go's mutexes do not starve a waiter; systemd answers, and
\* ends the jobs of the units that are not stuck; select picks among its ready
\* cases at random; reading a timer that systemd knows does not fail every time.
Fairness ==
  /\ WF_vars(MainStep) /\ SF_vars(Exit)
  /\ WF_vars(TimerStep) /\ \A t \in Timers \ Unreadable : SF_vars(TimerRead(t))
  /\ WF_vars(MainReads) /\ WF_vars(TimerNotRead \/ \E t \in Timers : TimerRead(t))
  /\ \A g \in Callers : /\ SF_vars(Locks(g)) /\ WF_vars(Asks(g))
                        /\ WF_vars(call[g].unit \notin Stuck /\ JobDone(g))

Spec == Init /\ [][Next]_vars /\ Fairness

----------------------------------------------------------------------------
(* Properties *)

\* The variables have their types.
TypeOK == /\ ManagerTypeOK
          /\ phase \in {"boot", "ready", "select", "load", "register", "stopped", "hungup"}
          /\ todo \in [Units -> 0..2]
          /\ sigCh \in {None, "hup", "term"}
          /\ told \in {None, "READY", "RELOADING", "STOPPING"}
          /\ cancelled \in BOOLEAN /\ asked \in BOOLEAN
          /\ scan \subseteq Timers /\ due \in Timers \cup {None}
          /\ overdue \in [Timers -> BOOLEAN]
          /\ probe \in [Probes -> {"none", "open", "dropped"}]

\* Every call of the manager returns: no caller waits for ever for the mutex
\* that others hold across their jobs.
CallsReturn == \A g \in Callers : ~Idle(g) ~> Idle(g) \/ ~Alive

\* A reload that systemd was told of is over one day, and systemd is told so,
\* whether the configuration loads or not and whoever holds the manager.
ReloadEnds == told = "RELOADING" ~> told # "RELOADING" \/ ~Alive

\* A timer that stays overdue is restarted, whatever becomes of the other
\* timers of the round.
OverdueRestarted ==
  \A t \in Timers \ Unreadable :
    overdue[t] ~> \/ ~overdue[t] \/ cancelled \/ ~Alive
                  \/ call[TimerLoop].op = "job" /\ call[TimerLoop].unit = t

\* A SIGTERM in the channel ends the daemon, however many reloads come first.
TermStops == sigCh = "term" ~> ~Alive

----------------------------------------------------------------------------
(* What the documentation says of the code, and the code does not do.         *)

\* A SIGTERM ends the event loop (daemon_test.go:857): not when the channel
\* still holds a SIGHUP.
SigtermStops == asked ~> ~Alive

\* The HTTP server shuts down gracefully (README.md:145): Run does not wait
\* for it.
ProbesAnswered == \A r \in Probes : probe[r] # "dropped"

\* A reload does not end the daemon: it does between READY and signal.Notify.
ReloadSurvived == phase # "hungup"

\* Once told STOPPING, systemd hears nothing else.
StoppingIsLast == [][told = "STOPPING" => told' = "STOPPING"]_told
=============================================================================
