------------------------------- MODULE Registry ------------------------------
(***************************************************************************)
(* Which units the daemon supervises (internal/daemon): Run registers what *)
(* the configuration names, reload (SIGHUP) replaces the configuration,    *)
(* discoveryLoop registers template instances that appear, and the HTTP    *)
(* server reads the result for /health (internal/httphealth).              *)
(*                                                                         *)
(* Registering and unregistering a unit are calls of several steps, each   *)
(* under a lock of its own: Daemon.mu, StateManager.mu, Restarter.mu.  The *)
(* event loop ("main") and the discovery loop may both be in such a call.  *)
(*                                                                         *)
(* A configuration is the sequence of its enabled entries: a static entry  *)
(* names one unit, a template the instances it matches.                    *)
(***************************************************************************)
EXTENDS Integers, Sequences, FiniteSets

CONSTANTS Units,      \* full unit names
          Configs,    \* the configurations the file holds over time
          Failed,     \* the units systemd has in state failed
          None        \* nothing known, no answer yet

Entry == [template : BOOLEAN, names : SUBSET Units, critical : BOOLEAN]

ASSUME ConfigsAssumption ==
  \A c \in Configs : c \in Seq(Entry) /\
    \A n \in DOMAIN c : ~c[n].template => \E u \in Units : c[n].names = {u}
ASSUME NoneAssumption == None \notin {"unknown", "active", "failed"}

VARIABLES cfg,           \* Daemon.cfg
          next,          \* the configuration Run or reload is working on
          booted,        \* Run has reached the event loop
          discovering,   \* discoveryRunning
          loaded,        \* the template instances systemd has loaded
          registered,    \* registeredUnits, and the domain of unitCancels
          critical,      \* criticalUnits
          watched,       \* units whose watcher and checker run
          status,        \* StateManager.units: None, or the state known
          trackers,      \* the units Restarter.trackers has an entry for
          phase,         \* per goroutine: what it is doing
          idx, bound,    \* its index into the configuration, and its end
          todo,          \* the units it has yet to deal with
          flag,          \* the critical flag of the template it works on
          call,          \* the call of registerUnit or unregisterUnit it is in
          request,       \* the critical units a /health request has yet to read
          answer         \* what it makes of those read: 200 or 503

config   == <<cfg, next, booted, discovering, loaded>>
tables   == <<registered, critical, watched, status, trackers>>
progress == <<phase, idx, bound, todo, flag>>
http     == <<request, answer>>
vars == <<config, tables, progress, call, http>>

Goroutines == {"main", "discovery"}
NoCall     == [step |-> "none"]

Names(c, template) ==
  UNION {c[n].names : n \in {m \in DOMAIN c : c[m].template = template}}
Static(c)    == Names(c, FALSE)
Instances(c) == Names(c, TRUE)

\* The flag of the first entry of this kind that names u (findMatchingTemplate).
FlagOf(c, u, template) ==
  LET naming == {n \in DOMAIN c : c[n].template = template /\ u \in c[n].names}
  IN c[CHOOSE n \in naming : \A m \in naming : n <= m].critical

Init == /\ cfg \in Configs /\ next = cfg
        /\ booted = FALSE /\ discovering = FALSE
        /\ loaded \in SUBSET UNION {Instances(c) : c \in Configs}
        /\ registered = {} /\ critical = {} /\ watched = {} /\ trackers = {}
        /\ status = [u \in Units |-> None]
        /\ phase = [g \in Goroutines |-> IF g = "main" THEN "scan" ELSE "idle"]
        /\ idx = [g \in Goroutines |-> 1]
        /\ bound = [g \in Goroutines |-> IF g = "main" THEN Len(cfg) ELSE 0]
        /\ todo = [g \in Goroutines |-> {}]
        /\ flag = [g \in Goroutines |-> FALSE]
        /\ call = [g \in Goroutines |-> NoCall]
        /\ request = None /\ answer = None

----------------------------------------------------------------------------
(* registerUnit and unregisterUnit: a call of goroutine g.                    *)

Registering(u, f)   == [step |-> "insert", unit |-> u, critical |-> f, live |-> FALSE]
Updating(u, f)      == [Registering(u, f) EXCEPT !.step = "remove"]
Unregistering(u)    == [step |-> "remove", unit |-> u]

\* A panic of any goroutine ends the process.
Running == phase["discovery"] # "panic"

At(g, step) == Running /\ call[g].step = step
Step(g, to) == call' = [call EXCEPT ![g].step = to]
Return(g)   == call' = [call EXCEPT ![g] = NoCall]

\* unregisterUnit is over: updateUnit goes on to registerUnit.
Removed(g)  == IF "critical" \in DOMAIN call[g] THEN Step(g, "insert") ELSE Return(g)

AlreadyRegistered(g) == /\ At(g, "insert") /\ call[g].unit \in registered
                        /\ Return(g)
                        /\ UNCHANGED <<config, tables, progress, http>>

Insert(g) ==
  LET u == call[g].unit
  IN /\ At(g, "insert") /\ u \notin registered
     /\ registered' = registered \cup {u}
     /\ critical' = IF call[g].critical THEN critical \cup {u} ELSE critical
     /\ call' = [call EXCEPT ![g].step = "status", ![g].live = TRUE]
     /\ UNCHANGED <<config, watched, status, trackers, progress, http>>

RegisterStatus(g) == /\ At(g, "status") /\ Step(g, "track")
                     /\ status' = [status EXCEPT ![call[g].unit] = "unknown"]
                     /\ UNCHANGED <<config, registered, critical, watched,
                                    trackers, progress, http>>

RegisterTracker(g) == /\ At(g, "track") /\ Step(g, "observe")
                      /\ trackers' = trackers \cup {call[g].unit}
                      /\ UNCHANGED <<config, registered, critical, watched,
                                     status, progress, http>>

StateOf(u) == IF u \in Failed THEN "failed" ELSE "active"

\* GetUnitState, UpdateState, WatchUnit, checker.Run.  A cancelled context makes
\* the first fail and ends the others at once; StateManager ignores a unit it
\* does not have.
Observe(g) ==
  LET u == call[g].unit
  IN /\ At(g, "observe") /\ Return(g)
     /\ watched' = IF call[g].live THEN watched \cup {u} ELSE watched
     /\ \/ UNCHANGED status
        \/ /\ call[g].live /\ status[u] # None
           /\ status' = [status EXCEPT ![u] = StateOf(u)]
     /\ UNCHANGED <<config, registered, critical, trackers, progress, http>>

\* unregisterUnit returns early for a unit that is not registered, which does not
\* happen: OnlyRegisteredObserved.  The registration's context is cancelled, also
\* under a call of another goroutine that is still busy with it.
Remove(g) ==
  LET u == call[g].unit
  IN /\ At(g, "remove") /\ u \in registered
     /\ registered' = registered \ {u} /\ critical' = critical \ {u}
     /\ watched' = watched \ {u}
     /\ call' = [h \in Goroutines |->
                  IF h = g THEN [call[g] EXCEPT !.step = "untrack"]
                  ELSE IF At(h, "none") \/ call[h].unit # u THEN call[h]
                  ELSE IF "live" \in DOMAIN call[h]
                       THEN [call[h] EXCEPT !.live = FALSE] ELSE call[h]]
     /\ UNCHANGED <<config, status, trackers, progress, http>>

UnregisterTracker(g) == /\ At(g, "untrack") /\ Step(g, "drop")
                        /\ trackers' = trackers \ {call[g].unit}
                        /\ UNCHANGED <<config, registered, critical, watched,
                                       status, progress, http>>

\* unregisterUnit forgets the state manager.
MutantUnregisterStatus(g) == /\ At(g, "drop") /\ Removed(g)
                             /\ UNCHANGED <<config, tables, progress, http>>

UnregisterStatus(g) == /\ At(g, "drop") /\ Removed(g)
                       /\ status' = [status EXCEPT ![call[g].unit] = None]
                       /\ UNCHANGED <<config, registered, critical, watched,
                                      trackers, progress, http>>

CallStep(g) == \/ AlreadyRegistered(g) \/ Insert(g) \/ RegisterStatus(g)
               \/ RegisterTracker(g) \/ Observe(g)
               \/ Remove(g) \/ UnregisterTracker(g)
               \/ UnregisterStatus(g)

----------------------------------------------------------------------------
(* Going through a configuration: Run, the end of reload, and discoveryLoop.  *)

\* reload works on a configuration of its own, discoveryLoop reads Daemon.cfg
\* afresh for every entry, up to the length it had when the loop began.
Source(g) == IF g = "main" THEN next ELSE cfg

Ready(g, p) == phase[g] = p /\ At(g, "none")
Here(g) == Source(g)[idx[g]]
More(g) == idx[g] <= bound[g] /\ idx[g] <= Len(Source(g))

\* Run registers a static entry, the other two have nothing to do with it.
StaticEntry(g) ==
  /\ Ready(g, "scan") /\ More(g) /\ ~Here(g).template
  /\ idx' = [idx EXCEPT ![g] = @ + 1]
  /\ IF g = "main" /\ ~booted
     THEN \E u \in Here(g).names :
            call' = [call EXCEPT ![g] = Registering(u, Here(g).critical)]
     ELSE UNCHANGED call
  /\ UNCHANGED <<config, tables, phase, bound, todo, flag, http>>

\* discoverInstances: ListUnits, which may fail, then one call per instance.
List(g) == /\ Ready(g, "scan") /\ More(g) /\ Here(g).template
           /\ phase' = [phase EXCEPT ![g] = "register"]
           /\ todo' = [todo EXCEPT ![g] = Here(g).names \cap loaded]
           /\ flag' = [flag EXCEPT ![g] = Here(g).critical]
           /\ UNCHANGED <<config, tables, idx, bound, call, http>>

ListFails(g) == /\ Ready(g, "scan") /\ More(g) /\ Here(g).template
                /\ idx' = [idx EXCEPT ![g] = @ + 1]
                /\ UNCHANGED <<config, tables, phase, bound, todo, flag, call, http>>

RegisterInstance(g, u) ==
  /\ Ready(g, "register") /\ u \in todo[g]
  /\ todo' = [todo EXCEPT ![g] = @ \ {u}]
  /\ call' = [call EXCEPT ![g] = Registering(u, flag[g])]
  /\ UNCHANGED <<config, tables, phase, idx, bound, flag, http>>

EntryDone(g) == /\ Ready(g, "register") /\ todo[g] = {}
                /\ phase' = [phase EXCEPT ![g] = "scan"]
                /\ idx' = [idx EXCEPT ![g] = @ + 1]
                /\ flag' = [flag EXCEPT ![g] = FALSE]
                /\ UNCHANGED <<config, tables, bound, todo, call, http>>

\* d.cfg.Units[i] with i out of range.
Panic == /\ Ready("discovery", "scan")
         /\ idx["discovery"] <= bound["discovery"] /\ idx["discovery"] > Len(cfg)
         /\ phase' = [phase EXCEPT !["discovery"] = "panic"]
         /\ UNCHANGED <<config, tables, idx, bound, todo, flag, call, http>>

\* The index is not reset.
MutantScanEnds(g) == /\ Ready(g, "scan") /\ idx[g] > bound[g]
                     /\ phase' = [phase EXCEPT ![g] = "idle"]
                     /\ bound' = [bound EXCEPT ![g] = 0]
                     /\ UNCHANGED <<tables, idx, todo, flag, call, http>>

ScanEnds(g) == /\ Ready(g, "scan") /\ idx[g] > bound[g]
               /\ phase' = [phase EXCEPT ![g] = "idle"]
               /\ idx' = [idx EXCEPT ![g] = 1]
               /\ bound' = [bound EXCEPT ![g] = 0]
               /\ UNCHANGED <<tables, todo, flag, call, http>>

\* discoveryLoop is started by Run only.
MutantMainDone == /\ ScanEnds("main")
                  /\ booted' = TRUE /\ cfg' = next
                  /\ discovering' = (discovering \/ (~booted /\ Instances(next) # {}))
                  /\ UNCHANGED <<next, loaded>>

\* Run and reload end alike: the configuration is in place, and discoveryLoop is
\* started if there are templates and it does not run yet.
MainDone == /\ ScanEnds("main")
            /\ booted' = TRUE /\ cfg' = next
            /\ discovering' = (discovering \/ Instances(next) # {})
            /\ UNCHANGED <<next, loaded>>

DiscoveryDone == ScanEnds("discovery") /\ UNCHANGED config

DiscoveryTick == /\ discovering /\ Ready("discovery", "idle")
                 /\ phase' = [phase EXCEPT !["discovery"] = "scan"]
                 /\ bound' = [bound EXCEPT !["discovery"] = Len(cfg)]
                 /\ UNCHANGED <<config, tables, idx, todo, flag, call, http>>

----------------------------------------------------------------------------
(* reload. *)

Reload(c) == /\ booted /\ Ready("main", "idle")
             /\ next' = c
             /\ phase' = [phase EXCEPT !["main"] = "old"]
             /\ todo' = [todo EXCEPT !["main"] = registered]
             /\ UNCHANGED <<cfg, booted, discovering, loaded, tables, idx, bound,
                            flag, call, http>>

\* What is registered is kept for the next loop, updated or unregistered.
ReloadOld(u) ==
  /\ Ready("main", "old") /\ u \in todo["main"]
  /\ todo' = [todo EXCEPT !["main"] = @ \ {u}]
  /\ call' = [call EXCEPT !["main"] =
       IF u \in Static(next) THEN NoCall
       ELSE IF u \in Instances(next) THEN Updating(u, FlagOf(next, u, TRUE))
       ELSE Unregistering(u)]
  /\ UNCHANGED <<config, tables, phase, idx, bound, flag, http>>

OldDone == /\ Ready("main", "old") /\ todo["main"] = {}
           /\ phase' = [phase EXCEPT !["main"] = "new"]
           /\ todo' = [todo EXCEPT !["main"] = Static(next)]
           /\ UNCHANGED <<config, tables, idx, bound, flag, call, http>>

\* A unit that is registered already is left alone.
MutantReloadNew(u) ==
  /\ Ready("main", "new") /\ u \in todo["main"]
  /\ todo' = [todo EXCEPT !["main"] = @ \ {u}]
  /\ call' = [call EXCEPT !["main"] = Registering(u, FlagOf(next, u, FALSE))]
  /\ UNCHANGED <<config, tables, phase, idx, bound, flag, http>>

ReloadNew(u) ==
  /\ Ready("main", "new") /\ u \in todo["main"]
  /\ todo' = [todo EXCEPT !["main"] = @ \ {u}]
  /\ call' = [call EXCEPT !["main"] =
       IF u \in registered THEN Updating(u, FlagOf(next, u, FALSE))
       ELSE Registering(u, FlagOf(next, u, FALSE))]
  /\ UNCHANGED <<config, tables, phase, idx, bound, flag, http>>

NewDone == /\ Ready("main", "new") /\ todo["main"] = {}
           /\ phase' = [phase EXCEPT !["main"] = "scan"]
           /\ bound' = [bound EXCEPT !["main"] = Len(next)]
           /\ UNCHANGED <<config, tables, idx, todo, flag, call, http>>

----------------------------------------------------------------------------
(* GET /health: criticalView copies the names, then reads one status after    *)
(* the other.                                                                 *)

HealthBegins == /\ Running /\ booted /\ request = None
                /\ request' = critical /\ answer' = 200
                /\ UNCHANGED <<config, tables, progress, call>>

HealthReads(u) == /\ Running /\ request # None /\ u \in request
                  /\ request' = request \ {u}
                  /\ answer' = IF status[u] = "active" THEN answer ELSE 503
                  /\ UNCHANGED <<config, tables, progress, call>>

\* The answer is written: the request is over.
HealthEnds == /\ Running /\ request = {}
              /\ request' = None /\ answer' = None
              /\ UNCHANGED <<config, tables, progress, call>>

InstanceAppears(u) == /\ u \notin loaded /\ \E c \in Configs : u \in Instances(c)
                      /\ loaded' = loaded \cup {u}
                      /\ UNCHANGED <<cfg, next, booted, discovering, tables,
                                     progress, call, http>>

\* The event loop, when it is not reloading, applies what the watcher of u sees.
StateSeen(u) == /\ booted /\ Ready("main", "idle")
                /\ u \in watched /\ status[u] # None
                /\ status' = [status EXCEPT ![u] = StateOf(u)]
                /\ UNCHANGED <<config, registered, critical, watched, trackers,
                               progress, call, http>>

ScanStep(g) == \/ StaticEntry(g) \/ List(g) \/ ListFails(g) \/ EntryDone(g)
               \/ \E u \in Units : RegisterInstance(g, u)

MainStep == \/ CallStep("main") \/ ScanStep("main") \/ MainDone
            \/ OldDone \/ NewDone
            \/ \E u \in Units : ReloadOld(u) \/ ReloadNew(u)

DiscoveryStep == \/ CallStep("discovery") \/ ScanStep("discovery")
                 \/ DiscoveryDone \/ DiscoveryTick \/ Panic

HealthStep == HealthBegins \/ HealthEnds \/ \E u \in Units : HealthReads(u)

Next == \/ MainStep \/ DiscoveryStep \/ HealthStep
        \/ \E c \in Configs : Reload(c)
        \/ \E u \in Units : InstanceAppears(u) \/ StateSeen(u)

Spec == Init /\ [][Next]_vars

\* Goroutines run, the ticker keeps ticking and systemd, asked again and again
\* for its units, sometimes answers.
FairSpec == /\ Spec /\ WF_vars(MainStep) /\ WF_vars(DiscoveryStep)
            /\ SF_vars(List("discovery"))

----------------------------------------------------------------------------
(* Properties *)

Calls == [step : {"none"}]
  \cup [step : {"remove", "untrack", "drop"}, unit : Units]
  \cup [step : {"remove", "untrack", "drop", "insert", "status", "track", "observe"},
        unit : Units, critical : BOOLEAN, live : BOOLEAN]

\* The variables have their types, and an index stays within its bound.
TypeOK ==
  /\ cfg \in Configs /\ next \in Configs
  /\ booted \in BOOLEAN /\ discovering \in BOOLEAN
  /\ loaded \subseteq Units /\ registered \subseteq Units
  /\ critical \subseteq Units /\ watched \subseteq Units /\ trackers \subseteq Units
  /\ status \in [Units -> {None, "unknown", "active", "failed"}]
  /\ phase \in [Goroutines -> {"idle", "scan", "register", "old", "new", "panic"}]
  /\ bound \in [Goroutines -> Nat] /\ idx \in [Goroutines -> Nat]
  /\ \A g \in Goroutines : idx[g] \in 1..(bound[g] + 1)
  /\ todo \in [Goroutines -> SUBSET Units] /\ flag \in [Goroutines -> BOOLEAN]
  /\ call \in [Goroutines -> Calls]
  /\ request \in (SUBSET Units) \cup {None} /\ answer \in {None, 200, 503}

\* However reload and discovery interleave, only registered units count for
\* /health, only registered units have watchers and checkers, and only they are
\* unregistered.
OnlyRegisteredObserved ==
  /\ critical \subseteq registered /\ watched \subseteq registered
  /\ \A g \in Goroutines : At(g, "remove") => call[g].unit \in registered

Supervised(u) == u \in registered \cap watched \cap trackers /\ status[u] # None

\* Whenever the event loop is between two reloads, each static unit of the
\* configuration is supervised in full, with the critical flag the
\* configuration gives it, whatever discovery is doing with the instances of
\* templates (as long as none of those is a static unit now or after a reload).
StaticSupervised ==
  booted /\ phase["main"] = "idle" => \A u \in Static(cfg) :
    Supervised(u) /\ (u \in critical <=> FlagOf(cfg, u, FALSE))

\* A template instance that systemd has loaded gets registered, unless a reload
\* drops its template first.
InstanceRegistered ==
  \A u \in Units : (booted /\ u \in loaded \cap Instances(cfg)) ~>
    (u \in registered \/ u \notin Instances(next) \/ ~Running)

\* Until discoveryLoop runs, reloads leave exactly the configured static units,
\* each supervised in full, and no trace of others (daemon_test.go:1309,
\* "reload unregisters removed units").
ReloadExact ==
  booted /\ ~discovering /\ phase["main"] = "idle" =>
    /\ registered = Static(cfg) /\ \A u \in registered : Supervised(u)
    /\ \A u \in Units \ registered : status[u] = None /\ u \notin trackers

Quiet == booted /\ \A g \in Goroutines : phase[g] = "idle" /\ At(g, "none")

\* With nothing under way there is no trace of an unregistered unit:
\* daemon_test.go:1309, "reload unregisters removed units".
NoGhosts == Quiet => \A u \in Units \ registered : status[u] = None /\ u \notin trackers

----------------------------------------------------------------------------
(* What the documentation and the tests say of the code, and the code does    *)
(* not do while a scan of discoveryLoop is under way.                         *)

\* daemon_test.go:1309, "reload unregisters removed units".
OnlyConfiguredRegistered == Quiet => registered \subseteq Static(cfg) \cup Instances(cfg)

\* daemon_test.go:1347, "reload preserves template instances".
RegisteredIsSupervised == Quiet => \A u \in registered : Supervised(u)

\* daemon_test.go:904, "reload did not crash".
ReloadDoesNotCrash == Running

\* README.md:152: /health returns 503 if any critical unit is not active.
HealthTellsFailed ==
  booted /\ request = {} /\ answer = 200 =>
    \A u \in Failed \cap Static(cfg) \cap Static(next) :
      ~(FlagOf(cfg, u, FALSE) /\ FlagOf(next, u, FALSE))
=============================================================================
