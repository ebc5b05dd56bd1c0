----------------------------- MODULE StateChanges -----------------------------
(***************************************************************************)
(* From the state of one unit to the status the daemon shows and to what   *)
(* the event handlers hear of it: registerUnit, which reads the state and  *)
(* then watches it; the polling goroutines of CtlManager.WatchUnit; the    *)
(* channel changeCh; StateManager.UpdateState, which changes the status    *)
(* under its lock and calls the handlers after it; and the goroutines that *)
(* Notifier.HandleEvent starts for the hooks.                              *)
(*                                                                         *)
(* Two goroutines register units: the event loop, in a reload, and the     *)
(* discovery loop.  A change carries only the unit's name.  The model      *)
(* notes as well which watcher sent it: only Gone reads that.              *)
(***************************************************************************)
EXTENDS Integers, Sequences

CONSTANTS Watchers,   \* slots for watchers, one per registration
          States,     \* ActiveState/SubState pairs
          Capacity,   \* the capacity of changeCh
          MaxHooks,   \* bound: hooks running for the same state
          None        \* no registration, no state

ASSUME CapacityAssumption == Capacity \in Nat \ {0}
ASSUME MaxHooksAssumption == MaxHooks \in Nat \ {0}
ASSUME NoneAssumption     == None \notin Watchers \cup States

VARIABLES unit,       \* the unit's state in systemd
          ctx,        \* each registration's context: unused, live or cancelled
          wpc,        \* where each watcher is
          last,       \* its lastState
          changeCh,   \* changes on their way to the event loop
          current,    \* the unit's registration
          status,     \* UnitStatus, while the unit is registered
          actor,      \* what the event loop and the discovery loop are doing
          heard,      \* the state in the last event the handlers got
          hooks,      \* per state: hooks that are running to announce it
          announced   \* the last state a hook announced

watchVars == <<ctx, wpc, last>>
regVars   == <<current, status>>
hookVars  == <<heard, hooks, announced>>
vars == <<unit, watchVars, changeCh, regVars, actor, hookVars>>

Actors  == {"loop", "discovery"}
AtIdle  == [at |-> "idle", slot |-> None, state |-> None]

Init == /\ unit \in States
        /\ ctx = [k \in Watchers |-> "unused"]
        /\ wpc = [k \in Watchers |-> "off"]
        /\ last = [k \in Watchers |-> None]
        /\ changeCh = <<>>
        /\ current = None /\ status = None
        /\ actor = [a \in Actors |-> AtIdle]
        /\ heard = None /\ announced = None
        /\ hooks = [s \in States |-> 0]

UnitChanges(s) == /\ s # unit
                  /\ unit' = s
                  /\ UNCHANGED <<watchVars, changeCh, regVars, actor, hookVars>>

----------------------------------------------------------------------------
(* registerUnit and unregisterUnit *)

At(a, place) == actor[a].at = place

\* Nothing of watcher k is left, so its slot can be taken by another.
Gone(k) == /\ ctx[k] = "unused" \/ wpc[k] = "done"
           /\ \A n \in DOMAIN changeCh : changeCh[n].from # k

Register(a, k) ==
  /\ At(a, "idle")
  /\ current = None /\ Gone(k)
  /\ current' = k /\ status' = None
  /\ ctx' = [ctx EXCEPT ![k] = "live"]
  /\ wpc' = [wpc EXCEPT ![k] = "off"]
  /\ last' = [last EXCEPT ![k] = None]
  /\ actor' = [actor EXCEPT ![a] = [at |-> "read", slot |-> k, state |-> None]]
  /\ UNCHANGED <<unit, changeCh, hookVars>>

\* GetUnitState
ReadInitial(a) ==
  /\ At(a, "read") /\ ctx[actor[a].slot] = "live"
  /\ actor' = [actor EXCEPT ![a].at = "update", ![a].state = unit]
  /\ UNCHANGED <<unit, watchVars, changeCh, regVars, hookVars>>

\* An error, or the unit was unregistered meanwhile.
InitialNotRead(a) ==
  /\ At(a, "read")
  /\ actor' = [actor EXCEPT ![a].at = "watch"]
  /\ UNCHANGED <<unit, watchVars, changeCh, regVars, hookVars>>

WatchUnit(a) == /\ At(a, "watch")
                /\ wpc' = [wpc EXCEPT ![actor[a].slot] = "wait"]
                /\ actor' = [actor EXCEPT ![a] = AtIdle]
                /\ UNCHANGED <<unit, ctx, last, changeCh, regVars, hookVars>>

\* Only a reload unregisters units.
Unregister == /\ At("loop", "idle") /\ current # None
              /\ ctx' = [ctx EXCEPT ![current] = "cancelled"]
              /\ current' = None /\ status' = None
              /\ UNCHANGED <<unit, wpc, last, changeCh, actor, hookVars>>

----------------------------------------------------------------------------
(* CtlManager.WatchUnit: the goroutine of watcher k *)

\* The state is sent when it differs from the last one sent.
Poll(k) == /\ wpc[k] = "wait" /\ ctx[k] = "live"
           /\ unit # last[k]
           /\ last' = [last EXCEPT ![k] = unit]
           /\ wpc' = [wpc EXCEPT ![k] = "send"]
           /\ UNCHANGED <<unit, ctx, changeCh, regVars, actor, hookVars>>

Change(k) == [from |-> k, state |-> last[k]]

\* The channel has no bound.
MutantSendUnbounded(k) == /\ wpc[k] = "send"
                          /\ changeCh' = Append(changeCh, Change(k))
                          /\ wpc' = [wpc EXCEPT ![k] = "wait"]
                          /\ UNCHANGED <<unit, ctx, last, regVars, actor, hookVars>>

\* A change that finds the channel full is dropped.
MutantSend(k) == /\ wpc[k] = "send"
                 /\ changeCh' = IF Len(changeCh) < Capacity
                                THEN Append(changeCh, Change(k)) ELSE changeCh
                 /\ wpc' = [wpc EXCEPT ![k] = "wait"]
                 /\ UNCHANGED <<unit, ctx, last, regVars, actor, hookVars>>

\* The send does not look at the context.
Send(k) == /\ wpc[k] = "send" /\ Len(changeCh) < Capacity
           /\ changeCh' = Append(changeCh, Change(k))
           /\ wpc' = [wpc EXCEPT ![k] = "wait"]
           /\ UNCHANGED <<unit, ctx, last, regVars, actor, hookVars>>

WatcherExits(k) == /\ wpc[k] = "wait" /\ ctx[k] = "cancelled"
                   /\ wpc' = [wpc EXCEPT ![k] = "done"]
                   /\ UNCHANGED <<unit, ctx, last, changeCh, regVars, actor, hookVars>>

----------------------------------------------------------------------------
(* UpdateState, the handlers, and the hooks *)

\* Where a goes once UpdateState returns.
Onward(a) == IF At(a, "idle") THEN AtIdle ELSE [actor[a] EXCEPT !.at = "watch"]

\* The first state of a registration is no event.
MutantUpdateState(a, s) ==
  IF current = None \/ status \in {s, None}
  THEN /\ status' = IF current = None THEN None ELSE s
       /\ actor' = [actor EXCEPT ![a] = Onward(a)]
  ELSE /\ status' = s
       /\ actor' = [actor EXCEPT ![a] = [Onward(a) EXCEPT !.at = "emit", !.state = s]]

\* For a unit that is not registered, and without a change, nothing happens.
\* Otherwise the lock is released before the handlers are called.
UpdateState(a, s) ==
  IF current = None \/ status = s
  THEN /\ actor' = [actor EXCEPT ![a] = Onward(a)]
       /\ UNCHANGED status
  ELSE /\ status' = s
       /\ actor' = [actor EXCEPT ![a] = [Onward(a) EXCEPT !.at = "emit", !.state = s]]

UpdateInitial(a) == /\ At(a, "update")
                    /\ UpdateState(a, actor[a].state)
                    /\ UNCHANGED <<unit, watchVars, changeCh, current, hookVars>>

TakeChange == /\ At("loop", "idle") /\ changeCh # <<>>
              /\ changeCh' = Tail(changeCh)
              /\ UpdateState("loop", Head(changeCh).state)
              /\ UNCHANGED <<unit, watchVars, current, hookVars>>

\* Emit has nothing more to do for a change, and WatchUnit comes after it
\* in a registration.
AfterEmit(a) == IF actor[a].slot = None THEN AtIdle
                ELSE [actor[a] EXCEPT !.at = "watch"]

\* A hook that still runs stands in for the next one.
MutantEmit(a) == LET s == actor[a].state
                 IN /\ At(a, "emit")
                    /\ heard' = s
                    /\ hooks' = IF \A x \in States : hooks[x] = 0
                                THEN [hooks EXCEPT ![s] = @ + 1] ELSE hooks
                    /\ actor' = [actor EXCEPT ![a] = AfterEmit(a)]
                    /\ UNCHANGED <<unit, watchVars, changeCh, regVars, announced>>

\* The handlers get the event; the notifier starts a goroutine for the hook.
Emit(a) == LET s == actor[a].state
           IN /\ At(a, "emit") /\ hooks[s] < MaxHooks
              /\ heard' = s
              /\ hooks' = [hooks EXCEPT ![s] = @ + 1]
              /\ actor' = [actor EXCEPT ![a] = AfterEmit(a)]
              /\ UNCHANGED <<unit, watchVars, changeCh, regVars, announced>>

\* Hooks run side by side: they end in any order.
HookEnds(s) == /\ hooks[s] > 0
               /\ hooks' = [hooks EXCEPT ![s] = @ - 1]
               /\ announced' = s
               /\ UNCHANGED <<unit, watchVars, changeCh, regVars, actor, heard>>

ActorStep(a) == \/ ReadInitial(a) \/ InitialNotRead(a) \/ UpdateInitial(a)
                \/ Emit(a) \/ WatchUnit(a)

WatcherStep(k) == Poll(k) \/ Send(k) \/ WatcherExits(k)

Next == \/ \E s \in States : UnitChanges(s) \/ HookEnds(s)
        \/ \E a \in Actors : ActorStep(a) \/ \E k \in Watchers : Register(a, k)
        \/ \E k \in Watchers : WatcherStep(k)
        \/ Unregister \/ TakeChange

Spec == Init /\ [][Next]_vars

\* Goroutines run, systemctl answers, and hooks end: they have a timeout.
FairSpec == /\ Spec /\ WF_vars(TakeChange)
            /\ \A a \in Actors : WF_vars(ActorStep(a))
            /\ \A k \in Watchers : WF_vars(WatcherStep(k))
            /\ \A s \in States : WF_vars(HookEnds(s))

----------------------------------------------------------------------------
(* Properties *)

Places == {"idle", "read", "update", "emit", "watch"}

\* The variables have their types, and the channel its capacity.
TypeOK ==
  /\ unit \in States
  /\ ctx \in [Watchers -> {"unused", "live", "cancelled"}]
  /\ wpc \in [Watchers -> {"off", "wait", "send", "done"}]
  /\ last \in [Watchers -> States \cup {None}]
  /\ changeCh \in Seq([from : Watchers, state : States]) /\ Len(changeCh) <= Capacity
  /\ current \in Watchers \cup {None} /\ status \in States \cup {None}
  /\ actor \in [Actors -> [at : Places, slot : Watchers \cup {None},
                           state : States \cup {None}]]
  /\ heard \in States \cup {None} /\ announced \in States \cup {None}
  /\ hooks \in [States -> 0..MaxHooks]

\* When no handler call is under way, the handlers (the restarter among them)
\* were told last what the status says.
HandlersUpToDate ==
  current # None /\ status # None /\ (\A a \in Actors : ~At(a, "emit"))
    => heard = status

\* A unit that settles has its status settle on the same state, through the
\* first read, the polls, the channel and the registrations of a reload.
StatusConverges ==
  \A s \in States : <>[](unit = s /\ current # None) => <>[](status = s)

\* Every event is announced, sooner or later than the next one.
EventsAnnounced ==
  \A a \in Actors : \A s \in States :
    At(a, "emit") /\ actor[a].state = s ~> announced = s

\* What the hooks announced last is what was heard last.  It is not so: the
\* goroutines of two events overtake each other.
AnnouncedInOrder == (\A s \in States : hooks[s] = 0) => announced = heard
=============================================================================
