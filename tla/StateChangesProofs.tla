-------------------------- MODULE StateChangesProofs ---------------------------
(***************************************************************************)
(* What the handlers were told against what the status says, for all       *)
(* watchers, states and capacities.                                        *)
(*                                                                         *)
(* UpdateState releases the lock before it calls the handlers, so two      *)
(* goroutines in it could call them in the opposite order of their         *)
(* updates.  Within one registration they are never both in it: the        *)
(* goroutine that registers starts the watcher only after its own update   *)
(* (RegistrarAlone), and without a watcher there is no change for the      *)
(* event loop.  Across registrations nothing keeps them apart.  What       *)
(* HandlersInformed needs is UpdatesApart, that nobody comes to call the   *)
(* handlers while the other is about to; RegistrationsApart shows that     *)
(* this is so as long as registrations do not overlap.                     *)
(***************************************************************************)
EXTENDS StateChanges, SequenceTheorems, TLAPS

\* What is sent is a state.
SendsState == \A k \in Watchers : wpc[k] = "send" => last[k] # None

\* A goroutine in registerUnit has not started the watcher yet; only the event
\* loop updates the status outside of registerUnit.
RegistrarAlone ==
  /\ \A a \in Actors :
       /\ At(a, "idle") => actor[a] = AtIdle
       /\ ~At(a, "idle") /\ actor[a].slot = None => a = "loop" /\ At(a, "emit")
       /\ actor[a].slot # None => wpc[actor[a].slot] = "off" /\ ctx[actor[a].slot] # "unused"
  /\ \A a, b \in Actors : actor[a].slot = actor[b].slot /\ actor[a].slot # None => a = b

\* A watcher that was not started has sent nothing.
OffSentNothing ==
  \A k \in Watchers : wpc[k] = "off" => \A n \in DOMAIN changeCh : changeCh[n].from # k

UnusedOff == \A k \in Watchers : ctx[k] = "unused" => wpc[k] = "off"

IInv == TypeOK /\ SendsState /\ RegistrarAlone /\ OffSentNothing /\ UnusedOff

\* A registration is made only when nothing is left of the earlier ones.
NoOverlap == current = None /\ current' # None => \A k \in Watchers : Gone(k)

OthersGone == current # None => \A k \in Watchers \ {current} : Gone(k)

OneRegistrar ==
  \A a, b \in Actors : actor[a].slot # None /\ actor[b].slot # None => a = b

\* The event loop handles a change of a watcher that was started, and does
\* not unregister meanwhile.
LoopEmits ==
  At("loop", "emit") /\ actor["loop"].slot = None => current # None /\ wpc[current] # "off"

SoloInv == IInv /\ OthersGone /\ OneRegistrar /\ LoopEmits

\* Nobody comes to call the handlers while the other goroutine is about to.
UpdatesApart ==
  (\E a \in Actors : ~At(a, "emit") /\ At(a, "emit")') => \A b \in Actors : ~At(b, "emit")

\* Whoever is about to call the handlers will tell them what the status says.
Informed ==
  current # None /\ status # None =>
    /\ \A a \in Actors : At(a, "emit") => actor[a].state = status
    /\ (\A a \in Actors : ~At(a, "emit")) => heard = status

Changes == [from : Watchers, state : States]
Doings  == [at : Places, slot : Watchers \cup {None}, state : States \cup {None}]

----------------------------------------------------------------------------
\* A step of one goroutine changes what that goroutine is doing only.
LEMMA Turns ==
  ASSUME TypeOK, NEW a \in Actors, NEW d \in Doings, actor' = [actor EXCEPT ![a] = d]
  PROVE  /\ actor' \in [Actors -> Doings]
         /\ \A b \in Actors : actor'[b] = IF b = a THEN d ELSE actor[b]
BY DEF TypeOK, Doings

LEMMA Doing ==
  ASSUME TypeOK, NEW a \in Actors
  PROVE  /\ actor[a] \in Doings /\ AtIdle \in Doings
         /\ AtIdle.at = "idle" /\ AtIdle.slot = None
         /\ \A p \in Places : /\ [actor[a] EXCEPT !.at = p] \in Doings
                              /\ [actor[a] EXCEPT !.at = p].at = p
                              /\ [actor[a] EXCEPT !.at = p].slot = actor[a].slot
BY DEF TypeOK, Doings, AtIdle, Places

\* What the channel holds after a send and after a receive.
LEMMA Appended ==
  ASSUME TypeOK, NEW r \in Changes, changeCh' = Append(changeCh, r)
  PROVE  /\ changeCh' \in Seq(Changes) /\ Len(changeCh') = Len(changeCh) + 1
         /\ Len(changeCh) \in Nat /\ DOMAIN changeCh = 1..Len(changeCh)
         /\ DOMAIN changeCh' = 1..(Len(changeCh) + 1)
         /\ changeCh'[Len(changeCh) + 1] = r
         /\ \A n \in 1..Len(changeCh) : changeCh'[n] = changeCh[n]
<1>1. changeCh \in Seq(Changes) BY DEF TypeOK, Changes
<1> QED BY <1>1, LenProperties

LEMMA Received ==
  ASSUME TypeOK, changeCh # <<>>, changeCh' = Tail(changeCh)
  PROVE  /\ changeCh' \in Seq(Changes) /\ Len(changeCh') = Len(changeCh) - 1
         /\ Len(changeCh) \in Nat \ {0}
         /\ 1 \in DOMAIN changeCh
         /\ \A n \in DOMAIN changeCh' : n + 1 \in DOMAIN changeCh /\ changeCh'[n] = changeCh[n + 1]
         /\ Head(changeCh) = changeCh[1] /\ changeCh[1] \in Changes
<1>1. changeCh \in Seq(Changes) BY DEF TypeOK, Changes
<1>2. Len(changeCh) \in Nat \ {0} /\ DOMAIN changeCh = 1..Len(changeCh)
  BY <1>1, EmptySeq, LenProperties
<1>3. /\ Tail(changeCh) \in Seq(Changes) /\ Len(Tail(changeCh)) = Len(changeCh) - 1
      /\ \A n \in 1..Len(Tail(changeCh)) : Tail(changeCh)[n] = changeCh[n + 1]
  BY <1>1, HeadTailProperties
<1>4. DOMAIN Tail(changeCh) = 1..Len(Tail(changeCh)) BY <1>3, LenProperties
<1>5. changeCh[1] \in Changes BY <1>1, <1>2, ElementOfSeq
<1>6. Head(changeCh) = changeCh[1] BY <1>1
<1> QED BY <1>2, <1>3, <1>4, <1>5, <1>6

\* What a call of UpdateState does: it changes the status and goes on to call
\* the handlers, or it changes nothing and returns.
LEMMA Updates ==
  ASSUME TypeOK, NEW a \in Actors, NEW s \in States \cup {None}, UpdateState(a, s)
  PROVE  \E d \in Doings :
           /\ actor' = [actor EXCEPT ![a] = d]
           /\ d.slot = Onward(a).slot
           /\ \/ /\ current = None \/ status = s
                 /\ d = Onward(a) /\ UNCHANGED status
              \/ /\ current # None /\ status # s
                 /\ d.at = "emit" /\ d.state = s /\ status' = s
<1>1. Onward(a) \in Doings BY Doing DEF Onward, Places
<1>2. CASE current = None \/ status = s
  BY <1>1, <1>2 DEF UpdateState
<1>3. CASE ~(current = None \/ status = s)
  <2> DEFINE d == [Onward(a) EXCEPT !.at = "emit", !.state = s]
  <2>1. /\ d \in Doings /\ d.at = "emit" /\ d.state = s /\ d.slot = Onward(a).slot
    BY <1>1 DEF Doings, Places
  <2>2. actor' = [actor EXCEPT ![a] = d] /\ status' = s BY <1>3 DEF UpdateState
  <2> QED BY <1>3, <2>1, <2>2
<1> QED BY <1>2, <1>3

----------------------------------------------------------------------------
\* Every step keeps every variable in its type.
LEMMA TypeStep ==
  ASSUME TypeOK, SendsState, [Next]_vars
  PROVE  TypeOK' /\ SendsState'
<1> USE DEF watchVars, regVars, hookVars
<1>1. ASSUME NEW s \in States, UnitChanges(s) PROVE TypeOK' /\ SendsState'
  BY <1>1 DEF UnitChanges, TypeOK, SendsState
<1>2. ASSUME NEW s \in States, HookEnds(s) PROVE TypeOK' /\ SendsState'
  <2>1. hooks' \in [States -> 0..MaxHooks]
    BY <1>2, MaxHooksAssumption DEF HookEnds, TypeOK, MaxHooksAssumption
  <2> QED BY <1>2, <2>1 DEF HookEnds, TypeOK, SendsState
<1>3. ASSUME NEW a \in Actors, NEW k \in Watchers, Register(a, k)
      PROVE  TypeOK' /\ SendsState'
  <2>1. [at |-> "read", slot |-> k, state |-> None] \in Doings BY DEF Doings, Places
  <2>2. actor' \in [Actors -> Doings] BY <1>3, <2>1, Turns DEF Register
  <2> QED BY <1>3, <2>2 DEF Register, TypeOK, SendsState, Doings
<1>4. ASSUME NEW a \in Actors, ReadInitial(a) PROVE TypeOK' /\ SendsState'
  <2> DEFINE d == [actor[a] EXCEPT !.at = "update", !.state = unit]
  <2>1. d \in Doings BY Doing DEF Doings, Places, TypeOK
  <2>2. actor' = [actor EXCEPT ![a] = d] BY <1>4 DEF ReadInitial, TypeOK
  <2>3. actor' \in [Actors -> Doings] BY <2>1, <2>2, Turns
  <2> QED BY <1>4, <2>3 DEF ReadInitial, TypeOK, SendsState, Doings
<1>5. ASSUME NEW a \in Actors, InitialNotRead(a) PROVE TypeOK' /\ SendsState'
  <2> DEFINE d == [actor[a] EXCEPT !.at = "watch"]
  <2>1. d \in Doings BY Doing DEF Places
  <2>2. actor' = [actor EXCEPT ![a] = d] BY <1>5 DEF InitialNotRead, TypeOK
  <2>3. actor' \in [Actors -> Doings] BY <2>1, <2>2, Turns
  <2> QED BY <1>5, <2>3 DEF InitialNotRead, TypeOK, SendsState, Doings
<1>6. ASSUME NEW a \in Actors, WatchUnit(a) PROVE TypeOK' /\ SendsState'
  <2>1. actor' \in [Actors -> Doings] BY <1>6, Doing, Turns DEF WatchUnit
  <2> QED BY <1>6, <2>1 DEF WatchUnit, TypeOK, SendsState, Doings
<1>7. ASSUME NEW a \in Actors, UpdateInitial(a) PROVE TypeOK' /\ SendsState'
  <2>1. actor[a].state \in States \cup {None} BY Doing DEF Doings
  <2>2. actor' \in [Actors -> Doings] /\ status' \in States \cup {None}
    BY <1>7, <2>1, Updates, Turns DEF UpdateInitial, TypeOK
  <2> QED BY <1>7, <2>2 DEF UpdateInitial, TypeOK, SendsState, Doings
<1>8. ASSUME NEW a \in Actors, Emit(a) PROVE TypeOK' /\ SendsState'
  <2>1. AfterEmit(a) \in Doings BY Doing DEF AfterEmit, Places
  <2>2. actor' \in [Actors -> Doings] BY <1>8, <2>1, Turns DEF Emit
  <2>3. hooks' \in [States -> 0..MaxHooks]
    <3>1. /\ hooks[actor[a].state] < MaxHooks
          /\ hooks' = [hooks EXCEPT ![actor[a].state] = @ + 1]
      BY <1>8 DEF Emit
    <3>2. hooks \in [States -> 0..MaxHooks] /\ MaxHooks \in Nat
      BY MaxHooksAssumption DEF TypeOK, MaxHooksAssumption
    <3>3. CASE actor[a].state \in States
      <4>1. hooks[actor[a].state] + 1 \in 0..MaxHooks BY <3>1, <3>2, <3>3
      <4> QED BY <3>1, <3>2, <4>1
    <3>4. CASE actor[a].state \notin States
      <4>1. hooks' = hooks BY <3>1, <3>2, <3>4
      <4> QED BY <3>2, <4>1
    <3> QED BY <3>3, <3>4
  <2>4. heard' \in States \cup {None} BY <1>8, Doing DEF Emit, Doings
  <2> QED BY <1>8, <2>2, <2>3, <2>4 DEF Emit, TypeOK, SendsState, Doings
<1>9. ASSUME NEW k \in Watchers, Poll(k) PROVE TypeOK' /\ SendsState'
  BY <1>9, NoneAssumption DEF Poll, TypeOK, SendsState
<1>10. ASSUME NEW k \in Watchers, Send(k) PROVE TypeOK' /\ SendsState'
  <2>1. Change(k) \in Changes BY <1>10 DEF Send, Change, Changes, TypeOK, SendsState
  <2>2. changeCh' \in Seq(Changes) /\ Len(changeCh') <= Capacity
    BY <1>10, <2>1, Appended, CapacityAssumption DEF Send, CapacityAssumption
  <2> QED BY <1>10, <2>2 DEF Send, TypeOK, SendsState, Changes
<1>11. ASSUME NEW k \in Watchers, WatcherExits(k) PROVE TypeOK' /\ SendsState'
  BY <1>11 DEF WatcherExits, TypeOK, SendsState
<1>12. CASE Unregister BY <1>12 DEF Unregister, TypeOK, SendsState
<1>13. CASE TakeChange
  <2>1. /\ changeCh' \in Seq(Changes) /\ Len(changeCh') <= Capacity
        /\ Head(changeCh).state \in States
    BY <1>13, Received, CapacityAssumption
       DEF TakeChange, Changes, CapacityAssumption, TypeOK
  <2>2. "loop" \in Actors BY DEF Actors
  <2>3. actor' \in [Actors -> Doings] /\ status' \in States \cup {None}
    BY <1>13, <2>1, <2>2, Updates, Turns DEF TakeChange, TypeOK
  <2> QED BY <1>13, <2>1, <2>3 DEF TakeChange, TypeOK, SendsState, Doings, Changes
<1>14. CASE UNCHANGED vars BY <1>14 DEF vars, TypeOK, SendsState
<1> QED BY <1>1, <1>2, <1>3, <1>4, <1>5, <1>6, <1>7, <1>8, <1>9, <1>10, <1>11,
           <1>12, <1>13, <1>14 DEF Next, ActorStep, WatcherStep

----------------------------------------------------------------------------
(* Who registers. *)

\* A goroutine that keeps its slot, or gives it up, leaves the others theirs.
LEMMA SlotsKept ==
  ASSUME TypeOK, RegistrarAlone, NEW a \in Actors,
         \A b \in Actors : b # a => actor'[b] = actor[b],
         actor'[a].at = "idle" => actor'[a] = AtIdle,
         actor'[a].at # "idle" /\ actor'[a].slot = None => a = "loop" /\ actor'[a].at = "emit",
         actor'[a].slot \in {None, actor[a].slot},
         \A b \in Actors : actor'[b].slot # None =>
           wpc'[actor[b].slot] = wpc[actor[b].slot] /\ ctx'[actor[b].slot] = ctx[actor[b].slot]
  PROVE  RegistrarAlone'
<1>1. \A b \in Actors : actor'[b].slot \in {None, actor[b].slot} OBVIOUS
<1>2. \A b \in Actors : actor'[b].slot # None =>
        wpc'[actor'[b].slot] = "off" /\ ctx'[actor'[b].slot] # "unused"
  BY <1>1 DEF RegistrarAlone
<1>3. \A b \in Actors : /\ At(b, "idle")' => actor'[b] = AtIdle
                        /\ ~At(b, "idle")' /\ actor'[b].slot = None => b = "loop" /\ At(b, "emit")'
  BY DEF RegistrarAlone, At
<1>4. \A b, c \in Actors : actor'[b].slot = actor'[c].slot /\ actor'[b].slot # None => b = c
  BY <1>1 DEF RegistrarAlone
<1> QED BY <1>2, <1>3, <1>4 DEF RegistrarAlone

\* A watcher with a slot of its own in registerUnit has not started, so the
\* steps of watchers that have do not concern it.
LEMMA SlotsQuiet ==
  ASSUME RegistrarAlone, UNCHANGED actor,
         \A k \in Watchers : wpc[k] = "off" => wpc'[k] = "off",
         \A k \in Watchers : ctx[k] # "unused" => ctx'[k] # "unused",
         TypeOK
  PROVE  RegistrarAlone'
<1>1. \A b \in Actors : actor[b].slot # None => actor[b].slot \in Watchers
  BY Doing DEF Doings
<1> QED BY <1>1 DEF RegistrarAlone, At

LEMMA RegistrarStep ==
  ASSUME TypeOK, RegistrarAlone, [Next]_vars
  PROVE  RegistrarAlone'
<1> USE DEF watchVars, regVars, hookVars
<1>1. ASSUME NEW a \in Actors, NEW k \in Watchers, Register(a, k) PROVE RegistrarAlone'
  <2> DEFINE d == [at |-> "read", slot |-> k, state |-> None]
  <2>1. d \in Doings /\ d.at = "read" /\ d.slot = k BY DEF Doings, Places
  <2>2. \A b \in Actors : actor'[b] = IF b = a THEN d ELSE actor[b]
    BY <1>1, <2>1, Turns DEF Register
  <2>3. \A b \in Actors : actor[b].slot # k
    BY <1>1, NoneAssumption DEF Register, Gone, RegistrarAlone
  <2>4. \A b \in Actors : actor[b].slot # None => actor[b].slot \in Watchers
    BY Doing DEF Doings
  <2>5. /\ wpc'[k] = "off" /\ ctx'[k] = "live"
        /\ \A j \in Watchers \ {k} : wpc'[j] = wpc[j] /\ ctx'[j] = ctx[j]
    BY <1>1 DEF Register, TypeOK
  <2>6. k # None BY NoneAssumption
  <2> HIDE DEF d
  <2>7. \A b \in Actors : /\ At(b, "idle")' => actor'[b] = AtIdle
                          /\ ~At(b, "idle")' /\ actor'[b].slot = None => b = "loop" /\ At(b, "emit")'
    BY <2>1, <2>2, <2>6 DEF RegistrarAlone, At
  <2>8. \A b \in Actors : actor'[b].slot # None =>
          wpc'[actor'[b].slot] = "off" /\ ctx'[actor'[b].slot] # "unused"
    BY <2>1, <2>2, <2>3, <2>4, <2>5 DEF RegistrarAlone
  <2>9. \A b, c \in Actors : actor'[b].slot = actor'[c].slot /\ actor'[b].slot # None => b = c
    BY <2>1, <2>2, <2>3 DEF RegistrarAlone
  <2> QED BY <2>7, <2>8, <2>9 DEF RegistrarAlone
<1>2. ASSUME NEW a \in Actors, ReadInitial(a) PROVE RegistrarAlone'
  <2> DEFINE d == [actor[a] EXCEPT !.at = "update", !.state = unit]
  <2>1. d \in Doings /\ d.at = "update" /\ d.slot = actor[a].slot
    BY Doing DEF Doings, Places, TypeOK
  <2>2. actor' = [actor EXCEPT ![a] = d] /\ UNCHANGED <<wpc, ctx>>
    BY <1>2 DEF ReadInitial, TypeOK
  <2>3. actor[a].slot # None BY <1>2 DEF ReadInitial, RegistrarAlone, At
  <2> HIDE DEF d
  <2>4. \A b \in Actors : actor'[b] = IF b = a THEN d ELSE actor[b] BY <2>1, <2>2, Turns
  <2> QED BY <2>1, <2>2, <2>3, <2>4, SlotsKept
<1>3. ASSUME NEW a \in Actors, InitialNotRead(a) PROVE RegistrarAlone'
  <2> DEFINE d == [actor[a] EXCEPT !.at = "watch"]
  <2>1. d \in Doings /\ d.at = "watch" /\ d.slot = actor[a].slot BY Doing DEF Places
  <2>2. actor' = [actor EXCEPT ![a] = d] /\ UNCHANGED <<wpc, ctx>>
    BY <1>3 DEF InitialNotRead, TypeOK
  <2>3. actor[a].slot # None BY <1>3 DEF InitialNotRead, RegistrarAlone, At
  <2> HIDE DEF d
  <2>4. \A b \in Actors : actor'[b] = IF b = a THEN d ELSE actor[b] BY <2>1, <2>2, Turns
  <2> QED BY <2>1, <2>2, <2>3, <2>4, SlotsKept
<1>4. ASSUME NEW a \in Actors, WatchUnit(a) PROVE RegistrarAlone'
  <2>1. actor[a].slot \in Watchers
    BY <1>4, Doing DEF WatchUnit, RegistrarAlone, At, Doings
  <2>2. /\ actor' = [actor EXCEPT ![a] = AtIdle] /\ ctx' = ctx
        /\ \A j \in Watchers : j # actor[a].slot => wpc'[j] = wpc[j]
    BY <1>4 DEF WatchUnit, TypeOK
  <2>3. AtIdle \in Doings /\ AtIdle.at = "idle" /\ AtIdle.slot = None BY Doing
  <2>4. \A b \in Actors : actor'[b] = IF b = a THEN AtIdle ELSE actor[b]
    BY <2>2, <2>3, Turns
  <2>5. \A b \in Actors : actor'[b].slot # None =>
          b # a /\ actor[b].slot # actor[a].slot /\ actor[b].slot \in Watchers
    BY <2>3, <2>4, Doing DEF RegistrarAlone, Doings
  <2>6. \A b \in Actors : actor'[b].slot # None =>
          wpc'[actor[b].slot] = wpc[actor[b].slot] /\ ctx'[actor[b].slot] = ctx[actor[b].slot]
    BY <2>2, <2>5
  <2> QED BY <2>3, <2>4, <2>6, SlotsKept
<1>5. ASSUME NEW a \in Actors, UpdateInitial(a) PROVE RegistrarAlone'
  <2>1. At(a, "update") /\ UpdateState(a, actor[a].state) /\ UNCHANGED <<wpc, ctx>>
    BY <1>5 DEF UpdateInitial
  <2>2. actor[a].state \in States \cup {None} BY Doing DEF Doings
  <2>3. /\ Onward(a).slot = actor[a].slot /\ Onward(a).at = "watch"
        /\ actor[a].slot # None
    BY <2>1, Doing DEF Onward, At, RegistrarAlone, Places
  <2>4. PICK d \in Doings : /\ actor' = [actor EXCEPT ![a] = d]
                            /\ d.slot = actor[a].slot /\ d.at \in {"watch", "emit"}
    BY <2>1, <2>2, <2>3, Updates
  <2>5. \A b \in Actors : actor'[b] = IF b = a THEN d ELSE actor[b] BY <2>4, Turns
  <2> QED BY <2>1, <2>3, <2>4, <2>5, SlotsKept
<1>6. ASSUME NEW a \in Actors, Emit(a) PROVE RegistrarAlone'
  <2> DEFINE d == AfterEmit(a)
  <2>1. actor' = [actor EXCEPT ![a] = d] /\ UNCHANGED <<wpc, ctx>> BY <1>6 DEF Emit
  <2>2. /\ d \in Doings
        /\ \/ d = AtIdle
           \/ d.at = "watch" /\ d.slot = actor[a].slot /\ d.slot # None
    BY Doing DEF AfterEmit, Places
  <2>3. AtIdle.at = "idle" /\ AtIdle.slot = None BY Doing
  <2> HIDE DEF d
  <2>4. \A b \in Actors : actor'[b] = IF b = a THEN d ELSE actor[b] BY <2>1, <2>2, Turns
  <2> QED BY <2>1, <2>2, <2>3, <2>4, SlotsKept
<1>7. CASE TakeChange
  <2>1. /\ At("loop", "idle") /\ UpdateState("loop", Head(changeCh).state)
        /\ UNCHANGED <<wpc, ctx>> /\ "loop" \in Actors
    BY <1>7 DEF TakeChange, Actors
  <2>2. Head(changeCh).state \in States BY <1>7, Received DEF TakeChange, Changes
  <2>3. Onward("loop") = AtIdle BY <2>1 DEF Onward
  <2>4. AtIdle.at = "idle" /\ AtIdle.slot = None BY Doing, <2>1
  <2>5. PICK d \in Doings : /\ actor' = [actor EXCEPT !["loop"] = d]
                            /\ d.slot = None /\ (d = AtIdle \/ d.at = "emit")
    BY <2>1, <2>2, <2>3, <2>4, Updates
  <2>6. \A b \in Actors : actor'[b] = IF b = "loop" THEN d ELSE actor[b] BY <2>1, <2>5, Turns
  <2> QED BY <2>1, <2>4, <2>5, <2>6, SlotsKept
<1>8. CASE Unregister \/ UNCHANGED vars
  BY <1>8, SlotsQuiet DEF Unregister, vars, TypeOK
<1>9. ASSUME NEW s \in States, UnitChanges(s) \/ HookEnds(s) PROVE RegistrarAlone'
  BY <1>9, SlotsQuiet DEF UnitChanges, HookEnds
<1>10. ASSUME NEW k \in Watchers, WatcherStep(k) PROVE RegistrarAlone'
  BY <1>10, SlotsQuiet DEF WatcherStep, Poll, Send, WatcherExits, TypeOK
<1> QED BY <1>1, <1>2, <1>3, <1>4, <1>5, <1>6, <1>7, <1>8, <1>9, <1>10
        DEF Next, ActorStep

----------------------------------------------------------------------------
LEMMA SentStep ==
  ASSUME TypeOK, OffSentNothing, [Next]_vars
  PROVE  OffSentNothing'
<1> USE DEF watchVars, regVars, hookVars
<1> SUFFICES ASSUME NEW l \in Watchers, wpc'[l] = "off"
             PROVE  \A n \in DOMAIN changeCh' : changeCh'[n].from # l
  BY DEF OffSentNothing
<1>1. CASE wpc[l] = "off" /\ changeCh' = changeCh BY <1>1 DEF OffSentNothing
<1>2. ASSUME NEW a \in Actors, NEW k \in Watchers, Register(a, k)
      PROVE  \A n \in DOMAIN changeCh' : changeCh'[n].from # l
  <2>1. changeCh' = changeCh BY <1>2 DEF Register
  <2>2. CASE l = k BY <1>2, <2>1, <2>2 DEF Register, Gone
  <2>3. CASE l # k BY <1>1, <1>2, <2>1, <2>3 DEF Register, TypeOK
  <2> QED BY <2>2, <2>3
<1>3. ASSUME NEW a \in Actors, ActorStep(a)
      PROVE  \A n \in DOMAIN changeCh' : changeCh'[n].from # l
  <2>1. changeCh' = changeCh
    BY <1>3 DEF ActorStep, ReadInitial, InitialNotRead, UpdateInitial, Emit, WatchUnit
  <2>2. wpc[l] = "off"
    BY <1>3 DEF ActorStep, ReadInitial, InitialNotRead, UpdateInitial, Emit,
                WatchUnit, TypeOK
  <2> QED BY <1>1, <2>1, <2>2
<1>4. ASSUME NEW k \in Watchers, Send(k)
      PROVE  \A n \in DOMAIN changeCh' : changeCh'[n].from # l
  <2>1. l # k /\ wpc[l] = "off" BY <1>4 DEF Send, TypeOK
  <2>2. k = Change(k).from BY DEF Change
  <2>3. \A n \in DOMAIN changeCh' :
          changeCh'[n] = Change(k) \/ (n \in DOMAIN changeCh /\ changeCh'[n] = changeCh[n])
    <3>1. changeCh \in Seq(Changes) BY DEF TypeOK, Changes
    <3>2. Len(changeCh) \in Nat /\ DOMAIN changeCh = 1..Len(changeCh) BY <3>1, LenProperties
    <3>3. changeCh' = Append(changeCh, Change(k)) BY <1>4 DEF Send
    <3> QED BY <3>1, <3>2, <3>3
  <2> QED BY <2>1, <2>2, <2>3 DEF OffSentNothing
<1>5. ASSUME NEW k \in Watchers, Poll(k) \/ WatcherExits(k)
      PROVE  \A n \in DOMAIN changeCh' : changeCh'[n].from # l
  BY <1>1, <1>5 DEF Poll, WatcherExits, TypeOK
<1>6. CASE TakeChange
  <2>1. wpc[l] = "off" /\ changeCh # <<>> /\ changeCh' = Tail(changeCh)
    BY <1>6 DEF TakeChange
  <2>2. \A n \in DOMAIN changeCh' : n + 1 \in DOMAIN changeCh /\ changeCh'[n] = changeCh[n + 1]
    BY <2>1, Received
  <2> QED BY <2>1, <2>2 DEF OffSentNothing
<1>7. ASSUME NEW s \in States, UnitChanges(s) \/ HookEnds(s)
      PROVE  \A n \in DOMAIN changeCh' : changeCh'[n].from # l
  BY <1>1, <1>7 DEF UnitChanges, HookEnds
<1>8. CASE Unregister \/ UNCHANGED vars BY <1>1, <1>8 DEF Unregister, vars
<1> QED BY <1>2, <1>3, <1>4, <1>5, <1>6, <1>7, <1>8 DEF Next, WatcherStep

LEMMA UnusedStep ==
  ASSUME TypeOK, RegistrarAlone, UnusedOff, [Next]_vars
  PROVE  UnusedOff'
<1> USE DEF watchVars, regVars, hookVars
<1>1. ASSUME NEW a \in Actors, NEW k \in Watchers, Register(a, k) PROVE UnusedOff'
  BY <1>1 DEF Register, TypeOK, UnusedOff
<1>2. ASSUME NEW a \in Actors, ActorStep(a) PROVE UnusedOff'
  <2>1. CASE WatchUnit(a)
    <3>1. actor[a].slot \in Watchers /\ ctx[actor[a].slot] # "unused"
      BY <2>1, Doing DEF WatchUnit, RegistrarAlone, At, Doings
    <3> QED BY <2>1, <3>1 DEF WatchUnit, TypeOK, UnusedOff
  <2>2. CASE ~WatchUnit(a)
    BY <1>2, <2>2 DEF ActorStep, ReadInitial, InitialNotRead, UpdateInitial, Emit, UnusedOff
  <2> QED BY <2>1, <2>2
<1>3. ASSUME NEW k \in Watchers, WatcherStep(k) PROVE UnusedOff'
  BY <1>3 DEF WatcherStep, Poll, Send, WatcherExits, TypeOK, UnusedOff
<1>4. CASE Unregister \/ TakeChange \/ UNCHANGED vars
  BY <1>4 DEF Unregister, TakeChange, vars, TypeOK, UnusedOff
<1>5. ASSUME NEW s \in States, UnitChanges(s) \/ HookEnds(s) PROVE UnusedOff'
  BY <1>5 DEF UnitChanges, HookEnds, UnusedOff
<1> QED BY <1>1, <1>2, <1>3, <1>4, <1>5 DEF Next

LEMMA InitIInv == ASSUME Init PROVE IInv
<1>1. <<>> \in Seq(Changes) /\ Len(<<>>) = 0 /\ DOMAIN <<>> = {} BY EmptySeq
<1>2. TypeOK
  BY <1>1, CapacityAssumption, MaxHooksAssumption
     DEF Init, TypeOK, Changes, AtIdle, Places, CapacityAssumption, MaxHooksAssumption
<1>3. AtIdle.at = "idle" /\ AtIdle.slot = None BY DEF AtIdle
<1>4. RegistrarAlone BY <1>3 DEF Init, RegistrarAlone, At
<1> QED BY <1>1, <1>2, <1>4 DEF Init, IInv, SendsState, OffSentNothing, UnusedOff

LEMMA NextIInv == ASSUME IInv, [Next]_vars PROVE IInv'
BY TypeStep, RegistrarStep, SentStep, UnusedStep DEF IInv

----------------------------------------------------------------------------
(* Registrations that do not overlap. *)

\* What is left of no watcher stays so until its slot is taken again.
LEMMA GoneStays ==
  ASSUME IInv, [Next]_vars, NEW k \in Watchers, Gone(k), k # current, k # current'
  PROVE  Gone(k)'
<1> USE DEF watchVars, regVars, hookVars, IInv
<1>1. ASSUME NEW a \in Actors, NEW j \in Watchers, Register(a, j) PROVE Gone(k)'
  BY <1>1, NoneAssumption DEF Register, Gone, TypeOK
<1>2. ASSUME NEW a \in Actors, ActorStep(a) PROVE Gone(k)'
  <2>1. CASE WatchUnit(a)
    <3>1. actor[a].slot \in Watchers /\ ctx[actor[a].slot] # "unused" /\ wpc[actor[a].slot] = "off"
      BY <2>1, Doing DEF WatchUnit, RegistrarAlone, At, Doings
    <3>2. actor[a].slot # k BY <3>1 DEF Gone
    <3> QED BY <2>1, <3>1, <3>2 DEF WatchUnit, TypeOK, Gone
  <2>2. CASE ~WatchUnit(a)
    BY <1>2, <2>2 DEF ActorStep, ReadInitial, InitialNotRead, UpdateInitial, Emit, Gone
  <2> QED BY <2>1, <2>2
<1>3. ASSUME NEW j \in Watchers, Poll(j) \/ WatcherExits(j) PROVE Gone(k)'
  BY <1>3 DEF Poll, WatcherExits, TypeOK, Gone
<1>4. ASSUME NEW j \in Watchers, Send(j) PROVE Gone(k)'
  <2>1. j # k BY <1>4 DEF Send, Gone, UnusedOff
  <2>2. \A n \in DOMAIN changeCh' : changeCh'[n].from # k
    <3>1. changeCh \in Seq(Changes) BY DEF TypeOK, Changes
    <3>2. Len(changeCh) \in Nat /\ DOMAIN changeCh = 1..Len(changeCh) BY <3>1, LenProperties
    <3>3. changeCh' = Append(changeCh, Change(j)) /\ Change(j).from = j
      BY <1>4 DEF Send, Change
    <3>4. \A n \in DOMAIN changeCh' :
            changeCh'[n] = Change(j) \/ (n \in DOMAIN changeCh /\ changeCh'[n] = changeCh[n])
      BY <3>1, <3>2, <3>3
    <3> QED BY <2>1, <3>3, <3>4 DEF Gone
  <2> QED BY <1>4, <2>1, <2>2 DEF Send, TypeOK, Gone
<1>5. CASE TakeChange
  <2>1. \A n \in DOMAIN changeCh' : n + 1 \in DOMAIN changeCh /\ changeCh'[n] = changeCh[n + 1]
    BY <1>5, Received DEF TakeChange
  <2> QED BY <1>5, <2>1 DEF TakeChange, Gone
<1>6. CASE Unregister \/ UNCHANGED vars
  BY <1>6 DEF Unregister, vars, TypeOK, Gone
<1>7. ASSUME NEW s \in States, UnitChanges(s) \/ HookEnds(s) PROVE Gone(k)'
  BY <1>7 DEF UnitChanges, HookEnds, Gone
<1> QED BY <1>1, <1>2, <1>3, <1>4, <1>5, <1>6, <1>7 DEF Next, WatcherStep

\* The registration changes to another only from none, in Register.
LEMMA Registers ==
  ASSUME [Next]_vars, current' # current, current' # None
  PROVE  current = None
BY DEF Next, ActorStep, WatcherStep, UnitChanges, HookEnds, Register, ReadInitial,
       InitialNotRead, UpdateInitial, Emit, WatchUnit, Poll, Send, WatcherExits,
       Unregister, TakeChange, vars, watchVars, regVars, hookVars

LEMMA OthersGoneStep ==
  ASSUME IInv, OthersGone, [Next]_vars, NoOverlap
  PROVE  OthersGone'
<1> SUFFICES ASSUME current' # None, NEW k \in Watchers \ {current'} PROVE Gone(k)'
  BY DEF OthersGone
<1>1. Gone(k) BY Registers DEF NoOverlap, OthersGone
<1>2. k # current BY Registers, NoneAssumption
<1> QED BY <1>1, <1>2, GoneStays

\* Whoever is in registerUnit is there for the unit's registration, if it
\* still has one, and has not started its watcher.
LEMMA SlotIsCurrent ==
  ASSUME IInv, OthersGone, current # None, NEW a \in Actors, actor[a].slot # None
  PROVE  actor[a].slot = current /\ wpc[current] = "off"
<1>1. actor[a].slot \in Watchers BY Doing DEF Doings, IInv
<1>2. wpc[actor[a].slot] = "off" /\ ctx[actor[a].slot] # "unused" BY DEF IInv, RegistrarAlone
<1> QED BY <1>1, <1>2 DEF OthersGone, Gone

\* The changes on their way are those of a watcher that was started.
LEMMA ChangeIsCurrent ==
  ASSUME IInv, OthersGone, current # None, changeCh # <<>>
  PROVE  wpc[current] # "off"
<1>1. changeCh \in Seq(Changes) BY DEF IInv, TypeOK, Changes
<1>2. Len(changeCh) \in Nat \ {0} /\ DOMAIN changeCh = 1..Len(changeCh)
  BY <1>1, EmptySeq, LenProperties
<1>3. 1 \in DOMAIN changeCh BY <1>2
<1>4. changeCh[1] \in Changes BY <1>1, <1>2, ElementOfSeq
<1>5. changeCh[1].from \in Watchers BY <1>4 DEF Changes
<1>6. changeCh[1].from = current BY <1>3, <1>5 DEF OthersGone, Gone
<1>7. current \in Watchers BY <1>5, <1>6
<1> QED BY <1>3, <1>6, <1>7 DEF IInv, OffSentNothing

\* While one goroutine is in UpdateState the other is not about to call the
\* handlers.
LEMMA AloneInUpdate ==
  ASSUME IInv, OthersGone, OneRegistrar, LoopEmits, current # None,
         NEW a \in Actors,
         actor[a].slot # None \/ (a = "loop" /\ changeCh # <<>>),
         NEW b \in Actors, b # a
  PROVE  ~At(b, "emit")
<1> SUFFICES ASSUME At(b, "emit") PROVE FALSE OBVIOUS
<1>1. ~At(b, "idle") BY DEF At
<1>2. CASE actor[b].slot = None
  <2>1. b = "loop" BY <1>1, <1>2 DEF IInv, RegistrarAlone
  <2>2. wpc[current] # "off" BY <1>2, <2>1 DEF LoopEmits
  <2>3. actor[a].slot # None BY <2>1
  <2> QED BY <2>2, <2>3, SlotIsCurrent
<1>3. CASE actor[b].slot # None
  <2>1. wpc[current] = "off" BY <1>3, SlotIsCurrent
  <2>2. actor[a].slot = None BY <1>3 DEF OneRegistrar
  <2> QED BY <2>1, <2>2, ChangeIsCurrent
<1> QED BY <1>2, <1>3

\* Only who finds a change in UpdateState comes to call the handlers.
LEMMA Arrives ==
  ASSUME IInv, [Next]_vars, NEW a \in Actors, ~At(a, "emit"), At(a, "emit")'
  PROVE  /\ current # None
         /\ actor[a].slot # None \/ (a = "loop" /\ changeCh # <<>>)
<1> USE DEF watchVars, regVars, hookVars, IInv
<1>1. actor'[a] # actor[a]  BY DEF At
<1>2. ASSUME NEW b \in Actors, NEW d \in Doings, actor' = [actor EXCEPT ![b] = d],
             b # a \/ d.at # "emit"
      PROVE  FALSE
  BY <1>1, <1>2, Turns DEF At
<1>3. ASSUME NEW b \in Actors, NEW k \in Watchers, Register(b, k) PROVE FALSE
  <2> DEFINE d == [at |-> "read", slot |-> k, state |-> None]
  <2>1. d \in Doings /\ d.at # "emit"  BY DEF Doings, Places
  <2>2. actor' = [actor EXCEPT ![b] = d]  BY <1>3 DEF Register
  <2> HIDE DEF d
  <2> QED  BY <1>2, <2>1, <2>2
<1>4. ASSUME NEW b \in Actors, ReadInitial(b) \/ InitialNotRead(b) PROVE FALSE
  <2>1. b = a  BY <1>1, <1>4 DEF ReadInitial, InitialNotRead, TypeOK
  <2> QED  BY <1>4, <2>1, Doing DEF ReadInitial, InitialNotRead, At, TypeOK
<1>5. ASSUME NEW b \in Actors, Emit(b) PROVE FALSE
  <2>1. AfterEmit(b) \in Doings /\ AfterEmit(b).at # "emit"
    BY Doing DEF AfterEmit, Places
  <2> QED  BY <1>2, <1>5, <2>1 DEF Emit
<1>6. ASSUME NEW b \in Actors, WatchUnit(b) PROVE FALSE
  BY <1>2, <1>6, Doing DEF WatchUnit
<1>7. ASSUME NEW b \in Actors, UpdateInitial(b)
      PROVE  current # None /\ actor[a].slot # None
  <2>1. UpdateState(b, actor[b].state) /\ At(b, "update")  BY <1>7 DEF UpdateInitial
  <2>2. actor[b].slot # None  BY <2>1 DEF RegistrarAlone, At
  <2>3. Onward(b) \in Doings /\ Onward(b).at # "emit"
    BY <2>1, Doing DEF Onward, Places, At
  <2>4. ~(current = None)
    <3> SUFFICES ASSUME current = None PROVE FALSE  OBVIOUS
    <3>1. actor' = [actor EXCEPT ![b] = Onward(b)]  BY <2>1 DEF UpdateState
    <3> QED  BY <1>2, <2>3, <3>1
  <2>5. b = a
    <3>1. actor[b].state \in States \cup {None}  BY Doing DEF Doings
    <3>2. PICK d \in Doings : actor' = [actor EXCEPT ![b] = d]  BY <2>1, <3>1, Updates
    <3> QED  BY <1>1, <3>2, Turns
  <2> QED  BY <2>2, <2>4, <2>5
<1>8. CASE TakeChange
  <2>1. /\ UpdateState("loop", Head(changeCh).state) /\ At("loop", "idle")
        /\ changeCh # <<>> /\ "loop" \in Actors
    BY <1>8 DEF TakeChange, Actors
  <2>2. Onward("loop") \in Doings /\ Onward("loop").at # "emit"
    BY <2>1, Doing DEF Onward
  <2>3. ~(current = None)
    <3> SUFFICES ASSUME current = None PROVE FALSE  OBVIOUS
    <3>1. actor' = [actor EXCEPT !["loop"] = Onward("loop")]  BY <2>1 DEF UpdateState
    <3> QED  BY <1>2, <2>1, <2>2, <3>1
  <2>4. a = "loop"
    <3>1. Head(changeCh).state \in States  BY <1>8, Received DEF TakeChange, Changes
    <3>2. PICK d \in Doings : actor' = [actor EXCEPT !["loop"] = d]
      BY <2>1, <3>1, Updates
    <3> QED  BY <1>1, <2>1, <3>2, Turns
  <2> QED  BY <2>1, <2>3, <2>4
<1>9. CASE actor' = actor  BY <1>1, <1>9
<1> QED  BY <1>3, <1>4, <1>5, <1>6, <1>7, <1>8, <1>9
         DEF Next, ActorStep, WatcherStep, UnitChanges, HookEnds, Poll, Send, WatcherExits,
             Unregister, vars

\* Registrations that do not overlap keep the two goroutines apart.
LEMMA ApartStep ==
  ASSUME SoloInv, [Next]_vars
  PROVE  UpdatesApart
<1> SUFFICES ASSUME NEW a \in Actors, ~At(a, "emit"), At(a, "emit")',
                    NEW b \in Actors
             PROVE  ~At(b, "emit")
  BY DEF UpdatesApart
<1>1. CASE b = a  BY <1>1
<1>2. CASE b # a  BY <1>2, Arrives, AloneInUpdate DEF SoloInv
<1> QED  BY <1>1, <1>2

LEMMA OneRegistrarStep ==
  ASSUME IInv, OneRegistrar, [Next]_vars, NoOverlap
  PROVE  OneRegistrar'
<1> USE DEF watchVars, regVars, hookVars, IInv
<1>1. ASSUME NEW a \in Actors, NEW k \in Watchers, Register(a, k) PROVE OneRegistrar'
  <2> DEFINE d == [at |-> "read", slot |-> k, state |-> None]
  <2>1. d \in Doings BY DEF Doings, Places
  <2>2. \A b \in Actors : actor'[b] = IF b = a THEN d ELSE actor[b]
    BY <1>1, <2>1, Turns DEF Register
  <2>3. \A j \in Watchers : Gone(j) BY <1>1, NoneAssumption DEF Register, NoOverlap
  <2>4. \A b \in Actors : actor[b].slot = None
    BY <2>3, Doing DEF Gone, RegistrarAlone, Doings
  <2> HIDE DEF d
  <2> QED BY <2>2, <2>4 DEF OneRegistrar
<1>2. ASSUME \A a \in Actors : actor'[a].slot \in {None, actor[a].slot} PROVE OneRegistrar'
  BY <1>2 DEF OneRegistrar
<1>3. ASSUME NEW a \in Actors, NEW d \in Doings, actor' = [actor EXCEPT ![a] = d],
             d.slot \in {None, actor[a].slot}
      PROVE  OneRegistrar'
  <2>1. \A b \in Actors : actor'[b] = IF b = a THEN d ELSE actor[b] BY <1>3, Turns
  <2> QED BY <1>2, <1>3, <2>1
<1>4. ASSUME NEW a \in Actors, ReadInitial(a) \/ InitialNotRead(a) PROVE OneRegistrar'
  <2>1. \A b \in Actors : b # a => actor'[b] = actor[b]
    BY <1>4 DEF ReadInitial, InitialNotRead, TypeOK
  <2>2. actor'[a].slot = actor[a].slot
    BY <1>4, Doing DEF ReadInitial, InitialNotRead, TypeOK
  <2> QED BY <1>2, <2>1, <2>2
<1>5. ASSUME NEW a \in Actors, UpdateInitial(a) PROVE OneRegistrar'
  <2>1. UpdateState(a, actor[a].state) /\ At(a, "update") BY <1>5 DEF UpdateInitial
  <2>2. Onward(a).slot = actor[a].slot BY <2>1, Doing DEF Onward, At, Places
  <2>3. actor[a].state \in States \cup {None} BY Doing DEF Doings
  <2> QED BY <1>3, <2>1, <2>2, <2>3, Updates
<1>6. ASSUME NEW a \in Actors, Emit(a) PROVE OneRegistrar'
  <2>1. AfterEmit(a) \in Doings /\ AfterEmit(a).slot \in {None, actor[a].slot}
    BY Doing DEF AfterEmit, Places
  <2> QED BY <1>3, <1>6, <2>1 DEF Emit
<1>7. ASSUME NEW a \in Actors, WatchUnit(a) PROVE OneRegistrar'
  BY <1>3, <1>7, Doing DEF WatchUnit
<1>8. CASE TakeChange
  <2>1. UpdateState("loop", Head(changeCh).state) /\ At("loop", "idle") /\ "loop" \in Actors
    BY <1>8 DEF TakeChange, Actors
  <2>2. Onward("loop").slot = None BY <2>1, Doing DEF Onward
  <2>3. Head(changeCh).state \in States BY <1>8, Received DEF TakeChange, Changes
  <2> QED BY <1>3, <2>1, <2>2, <2>3, Updates
<1>9. CASE actor' = actor BY <1>2, <1>9
<1> QED BY <1>1, <1>4, <1>5, <1>6, <1>7, <1>8, <1>9
        DEF Next, ActorStep, WatcherStep, UnitChanges, HookEnds, Poll, Send, WatcherExits,
            Unregister, vars

\* The event loop that handles a change keeps its unit: reloads are its own.
LEMMA LoopEmitsStep ==
  ASSUME IInv, OthersGone, LoopEmits, [Next]_vars
  PROVE  LoopEmits'
<1> USE DEF watchVars, regVars, hookVars, IInv
<1> SUFFICES ASSUME At("loop", "emit")', actor'["loop"].slot = None
             PROVE  current' # None /\ wpc'[current'] # "off"
  BY DEF LoopEmits
<1>0. "loop" \in Actors BY DEF Actors
<1>1. ASSUME actor'["loop"] = actor["loop"]
      PROVE  current # None /\ wpc[current] # "off" /\ current \in Watchers
  BY <1>1 DEF LoopEmits, At, TypeOK
<1>2. ASSUME NEW a \in Actors, NEW k \in Watchers, Register(a, k) PROVE FALSE
  <2> DEFINE d == [at |-> "read", slot |-> k, state |-> None]
  <2>1. d \in Doings BY DEF Doings, Places
  <2>2. \A b \in Actors : actor'[b] = IF b = a THEN d ELSE actor[b]
    BY <1>2, <2>1, Turns DEF Register
  <2>3. a # "loop" BY <1>0, <2>2 DEF At
  <2> QED BY <1>0, <1>1, <1>2, <2>2, <2>3 DEF Register
<1>3. ASSUME NEW a \in Actors, ActorStep(a) PROVE current' # None /\ wpc'[current'] # "off"
  <2>1. current' = current
    BY <1>3 DEF ActorStep, ReadInitial, InitialNotRead, UpdateInitial, Emit, WatchUnit
  <2>2. \A b \in Actors : b # a => actor'[b] = actor[b]
    BY <1>3 DEF ActorStep, ReadInitial, InitialNotRead, UpdateInitial, UpdateState, Emit,
                WatchUnit, TypeOK
  <2>3. CASE a # "loop"
    <3>1. current # None /\ wpc[current] # "off" /\ current \in Watchers
      BY <1>0, <1>1, <2>2, <2>3
    <3> QED BY <1>3, <2>1, <3>1
            DEF ActorStep, ReadInitial, InitialNotRead, UpdateInitial, Emit, WatchUnit, TypeOK
  <2>4. CASE a = "loop"
    <3>1. CASE UpdateInitial(a)
      <4>1. UpdateState(a, actor[a].state) /\ At(a, "update") BY <3>1 DEF UpdateInitial
      <4>2. Onward(a).slot = actor[a].slot /\ actor[a].slot # None
        BY <4>1, Doing DEF Onward, At, Places, RegistrarAlone
      <4>3. actor[a].state \in States \cup {None} BY Doing DEF Doings
      <4>4. PICK d \in Doings : /\ actor' = [actor EXCEPT ![a] = d]
                                /\ d.slot = Onward(a).slot
        BY <4>1, <4>3, Updates
      <4> QED BY <2>4, <4>2, <4>4, Turns
    <3>2. CASE Emit(a)
      <4>1. AfterEmit(a) \in Doings /\ AfterEmit(a).at # "emit"
        BY Doing DEF AfterEmit, Places
      <4> QED BY <2>4, <3>2, <4>1, Turns DEF Emit, At
    <3>3. CASE WatchUnit(a)
      BY <2>4, <3>3, Doing, Turns DEF WatchUnit, At
    <3>4. CASE ReadInitial(a) \/ InitialNotRead(a)
      BY <2>4, <3>4, Doing DEF ReadInitial, InitialNotRead, At, TypeOK
    <3> QED BY <1>3, <3>1, <3>2, <3>3, <3>4 DEF ActorStep
  <2> QED BY <2>3, <2>4
<1>4. ASSUME NEW k \in Watchers, WatcherStep(k) PROVE current' # None /\ wpc'[current'] # "off"
  BY <1>1, <1>4 DEF WatcherStep, Poll, Send, WatcherExits, TypeOK
<1>5. CASE Unregister
  BY <1>5 DEF Unregister, At
<1>6. CASE TakeChange
  <2>1. /\ UpdateState("loop", Head(changeCh).state) /\ At("loop", "idle")
        /\ UNCHANGED <<wpc, current>> /\ changeCh # <<>>
    BY <1>6 DEF TakeChange
  <2>2. Head(changeCh).state \in States BY <1>6, Received DEF TakeChange, Changes
  <2>3. Onward("loop") = AtIdle /\ AtIdle.at = "idle" BY <1>0, <2>1, Doing DEF Onward
  <2>4. current # None
    <3> SUFFICES ASSUME current = None PROVE FALSE OBVIOUS
    <3>1. PICK d \in Doings : actor' = [actor EXCEPT !["loop"] = d] /\ d = Onward("loop")
      BY <1>0, <2>1, <2>2, Updates
    <3>2. actor'["loop"] = d BY <1>0, <3>1, Turns
    <3> QED BY <2>3, <3>1, <3>2 DEF At
  <2> QED BY <2>1, <2>4, ChangeIsCurrent
<1>7. ASSUME NEW s \in States, UnitChanges(s) \/ HookEnds(s)
      PROVE  current' # None /\ wpc'[current'] # "off"
  BY <1>1, <1>7 DEF UnitChanges, HookEnds
<1>8. CASE UNCHANGED vars BY <1>1, <1>8 DEF vars
<1> QED BY <1>2, <1>3, <1>4, <1>5, <1>6, <1>7, <1>8 DEF Next

\* The state that is written is the state that is told, and no other event
\* comes in between.
LEMMA InformedUpdate ==
  ASSUME IInv, Informed, UpdatesApart,
         NEW a \in Actors, NEW s \in States \cup {None},
         ~At(a, "emit"), Onward(a).at # "emit", UpdateState(a, s),
         UNCHANGED <<current, heard>>
  PROVE  Informed'
<1> SUFFICES ASSUME current # None, status' # None
             PROVE  /\ \A b \in Actors : At(b, "emit")' => actor'[b].state = status'
                    /\ (\A b \in Actors : ~At(b, "emit")') => heard' = status'
  BY DEF Informed
<1> USE DEF IInv
<1>1. PICK d \in Doings :
        /\ actor' = [actor EXCEPT ![a] = d]
        /\ \/ status = s /\ d = Onward(a) /\ status' = status
           \/ d.at = "emit" /\ d.state = s /\ status' = s
  BY Updates
<1>2. \A b \in Actors : actor'[b] = IF b = a THEN d ELSE actor[b] BY <1>1, Turns
<1>4. CASE status = s /\ d = Onward(a) /\ status' = status
  <2>1. \A b \in Actors : At(b, "emit")' <=> At(b, "emit")  BY <1>2, <1>4 DEF At
  <2>2. \A b \in Actors : At(b, "emit") => actor'[b] = actor[b]  BY <1>2
  <2> QED  BY <1>4, <2>1, <2>2 DEF Informed
<1>5. CASE d.at = "emit" /\ d.state = s /\ status' = s
  <2>1. At(a, "emit")'  BY <1>2, <1>5 DEF At
  <2>2. \A b \in Actors : ~At(b, "emit")  BY <2>1 DEF UpdatesApart
  <2>3. \A b \in Actors : b # a => ~At(b, "emit")'  BY <1>2, <2>2 DEF At
  <2> QED  BY <1>2, <1>5, <2>1, <2>3
<1> QED BY <1>1, <1>4, <1>5

LEMMA InformedStep ==
  ASSUME IInv, Informed, [Next]_vars, UpdatesApart
  PROVE  Informed'
<1> USE DEF watchVars, regVars, hookVars, IInv
<1>1. ASSUME UNCHANGED <<current, status, heard>>,
             \A a \in Actors : At(a, "emit")' <=> At(a, "emit"),
             \A a \in Actors : At(a, "emit") => actor'[a].state = actor[a].state
      PROVE  Informed'
  BY <1>1 DEF Informed
<1>2. ASSUME NEW a \in Actors, NEW k \in Watchers, Register(a, k) PROVE Informed'
  BY <1>2 DEF Register, Informed
<1>3. ASSUME NEW a \in Actors, ReadInitial(a) \/ InitialNotRead(a) PROVE Informed'
  <2>1. ~At(a, "emit") /\ \A b \in Actors : b # a => actor'[b] = actor[b]
    BY <1>3 DEF ReadInitial, InitialNotRead, At, TypeOK
  <2>2. ~At(a, "emit")'
    BY <1>3, Doing DEF ReadInitial, InitialNotRead, At, TypeOK
  <2> QED BY <1>1, <1>3, <2>1, <2>2 DEF ReadInitial, InitialNotRead, At
<1>4. ASSUME NEW a \in Actors, UpdateInitial(a) PROVE Informed'
  <2>1. /\ UpdateState(a, actor[a].state) /\ At(a, "update")
        /\ UNCHANGED <<current, heard>>
    BY <1>4 DEF UpdateInitial
  <2>2. ~At(a, "emit") /\ ~At(a, "idle") BY <2>1 DEF At
  <2>3. Onward(a).at # "emit" BY <2>2, Doing DEF Onward, Places
  <2>4. actor[a].state \in States \cup {None} BY Doing DEF Doings
  <2> QED BY <2>1, <2>2, <2>3, <2>4, InformedUpdate
<1>5. ASSUME NEW a \in Actors, Emit(a) PROVE Informed'
  <2>1. /\ At(a, "emit") /\ heard' = actor[a].state
        /\ actor' = [actor EXCEPT ![a] = AfterEmit(a)]
        /\ UNCHANGED <<current, status>>
    BY <1>5 DEF Emit
  <2>2. AfterEmit(a) \in Doings /\ AfterEmit(a).at # "emit"
    BY Doing DEF AfterEmit, Places
  <2>3. \A b \in Actors : actor'[b] = IF b = a THEN AfterEmit(a) ELSE actor[b]
    BY <2>1, <2>2, Turns
  <2> QED BY <2>1, <2>2, <2>3 DEF Informed, At
<1>6. ASSUME NEW a \in Actors, WatchUnit(a) PROVE Informed'
  <2>1. \A b \in Actors : actor'[b] = IF b = a THEN AtIdle ELSE actor[b]
    BY <1>6, Doing, Turns DEF WatchUnit
  <2>2. ~At(a, "emit") BY <1>6 DEF WatchUnit, At
  <2> QED BY <1>1, <1>6, <2>1, <2>2, Doing DEF WatchUnit, At
<1>7. CASE TakeChange
  <2>1. /\ UpdateState("loop", Head(changeCh).state) /\ At("loop", "idle")
        /\ UNCHANGED <<current, heard>> /\ changeCh # <<>> /\ "loop" \in Actors
    BY <1>7 DEF TakeChange, Actors
  <2>2. Head(changeCh).state \in States BY <1>7, Received DEF TakeChange, Changes
  <2>3. Onward("loop").at # "emit" /\ ~At("loop", "emit")
    BY <2>1, Doing DEF Onward, At
  <2> QED BY <2>1, <2>2, <2>3, InformedUpdate
<1>8. CASE Unregister BY <1>8 DEF Unregister, Informed
<1>9. ASSUME NEW k \in Watchers, WatcherStep(k) PROVE Informed'
  BY <1>9 DEF WatcherStep, Poll, Send, WatcherExits, Informed, At
<1>10. ASSUME NEW s \in States, UnitChanges(s) \/ HookEnds(s) PROVE Informed'
  BY <1>10 DEF UnitChanges, HookEnds, Informed, At
<1>11. CASE UNCHANGED vars BY <1>11 DEF vars, Informed, At
<1> QED BY <1>2, <1>3, <1>4, <1>5, <1>6, <1>7, <1>8, <1>9, <1>10, <1>11
        DEF Next, ActorStep

LEMMA InitSoloInv == ASSUME Init PROVE SoloInv
<1>1. \A a \in Actors : actor[a].at = "idle" /\ actor[a].slot = None
  BY DEF Init, AtIdle
<1>2. "loop" \in Actors BY DEF Actors
<1> QED BY InitIInv, <1>1, <1>2
        DEF Init, SoloInv, OthersGone, OneRegistrar, LoopEmits, At

LEMMA NextSoloInv == ASSUME SoloInv, [Next]_vars, NoOverlap PROVE SoloInv'
BY NextIInv, OthersGoneStep, OneRegistrarStep, LoopEmitsStep DEF SoloInv

----------------------------------------------------------------------------
(* Theorems *)

\* Who is in registerUnit, which watchers were started and what they sent hold
\* together, however the two goroutines and the watchers interleave.
THEOREM Inductive == Spec => []IInv
<1>1. Init => IInv BY InitIInv
<1>2. IInv /\ [Next]_vars => IInv' BY NextIInv
<1> QED BY <1>1, <1>2, PTL DEF Spec

\* Every variable keeps its type: the channel never exceeds its capacity, and
\* nothing that is not a state is sent on it.
THEOREM TypeCorrect == Spec => []TypeOK
<1>1. IInv => TypeOK BY DEF IInv
<1> QED BY Inductive, <1>1, PTL

\* As long as nobody comes to call the handlers while the other goroutine is
\* about to, the handlers were told last what the status says, although
\* UpdateState calls them after it released its lock.
THEOREM HandlersInformed == Spec /\ [][UpdatesApart]_vars => []HandlersUpToDate
<1> DEFINE Inv == IInv /\ Informed
<1>1. Init => Inv  BY InitIInv DEF Init, Informed
<1>2. Inv /\ [Next]_vars /\ [UpdatesApart]_vars => Inv'
  <2> SUFFICES ASSUME Inv, [Next]_vars, [UpdatesApart]_vars PROVE Inv' OBVIOUS
  <2>1. UpdatesApart  BY DEF UpdatesApart, vars, At
  <2> QED  BY <2>1, NextIInv, InformedStep
<1>3. Inv => HandlersUpToDate  BY DEF Informed, HandlersUpToDate
<1> QED  BY <1>1, <1>2, <1>3, PTL DEF Spec

\* Within one registration the two goroutines are apart: so they are always, as
\* long as a registration is made only when nothing is left of the earlier ones.
THEOREM RegistrationsApart == Spec /\ [][NoOverlap]_vars => [][UpdatesApart]_vars
<1>1. Init => SoloInv  BY InitSoloInv
<1>2. SoloInv /\ [Next]_vars /\ [NoOverlap]_vars => SoloInv'
  <2> SUFFICES ASSUME SoloInv, [Next]_vars, [NoOverlap]_vars PROVE SoloInv' OBVIOUS
  <2>1. NoOverlap  BY DEF vars, regVars, NoOverlap
  <2> QED  BY <2>1, NextSoloInv
<1>3. SoloInv /\ [Next]_vars => UpdatesApart  BY ApartStep
<1> QED  BY <1>1, <1>2, <1>3, PTL DEF Spec
===============================================================================
